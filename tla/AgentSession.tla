----------------------------- MODULE AgentSession -----------------------------
(***************************************************************************)
(* One agent session of the gateway: AgentSupervisor and AgentRun, with    *)
(* the session's row, queue, messages and confirmations in the database,   *)
(* which outlives the process.  A run waits for the terminal's runtime,    *)
(* for the model's stream, before a retry, for a title and for the runtime *)
(* to be given back; the user's requests, a restart or a crash come in at  *)
(* any of these places, and a crash also between two writes.               *)
(*                                                                         *)
(* A user's message is a number and a tool call that needs an approval is  *)
(* a request; other text and tool calls of the model are one plain entry,  *)
(* and several in a row are one.  The session exists, has a pane and a     *)
(* device, and is not deleted.                                             *)
(***************************************************************************)
EXTENDS Integers, SequencesExt, FiniteSetsExt

CONSTANTS MaxMessages,  \* bound: messages the user sends
          MaxRequests,  \* bound: tool calls that need an approval
          MaxRetries,   \* length of retryDelaysMs
          MaxRestarts   \* bound: shutdowns and crashes

ASSUME AgentAssumption ==
    {MaxMessages, MaxRequests, MaxRetries, MaxRestarts} \subseteq Nat

VARIABLES
    db,         \* the session in the database
    proc,       \* the supervisor: up, stopping, stopped or down
    runs,       \* the run in activeRuns, and one that outlived a shutdown
    said,       \* messages the user has sent
    withdrawn,  \* history: messages taken out of the queue
    late,       \* history: messages queued when the run had looked at the queue
                \*   for the last time
    restarts,
    slips       \* history: which of the code's known slips have happened

vars == <<db, proc, runs, said, withdrawn, late, restarts, slips>>

Messages == 1 .. MaxMessages
Requests == 1 .. MaxRequests

\* "torn": a crash while the queue was drained; "cut": a request or its answer
\* was left where the model will not find it; "early": a request was decided
\* while its run was ending; "outlived": a run went on after the supervisor had
\* stopped.
Slips == {"torn", "cut", "early", "outlived"}

Blank == [by |-> "user", msg |-> 0, asks |-> {}, yes |-> {}, no |-> {}, results |-> {}]
User(n)            == [Blank EXCEPT !.msg = n]
Assistant(asks)    == [Blank EXCEPT !.by = "assistant", !.asks = asks]
Tool(yes, no, res) == [Blank EXCEPT !.by = "tool", !.yes = yes, !.no = no, !.results = res]

\* left: there may be text in textBuffer, of this stream or of the one before.
NoRun == [at |-> "none", stop |-> "none", steer |-> FALSE, aborted |-> FALSE, fatal |-> FALSE,
          stalled |-> FALSE, left |-> FALSE, attempt |-> 0, owes |-> {}, asks |-> {}]

Run == runs["active"]
Active == Run # NoRun

Init ==
    /\ db = [status |-> "idle", queue |-> <<>>, log |-> <<>>, conf |-> [r \in Requests |-> "none"]]
    /\ proc = "up" /\ runs = [w \in {"active", "orphan"} |-> NoRun]
    /\ said = 0 /\ withdrawn = {} /\ late = {} /\ restarts = 0 /\ slips = {}

-----------------------------------------------------------------------------
(* What is written: functions of d, the session's rows *)

Pending(d) == {r \in Requests : d.conf[r] = "pending"}

\* appendAgentMessage
Appended(d, e) ==
    IF e = Assistant({}) /\ d.log # <<>> /\ Last(d.log) = e THEN d ELSE [d EXCEPT !.log = Append(@, e)]

WithStatus(d, s) == [d EXCEPT !.status = s]

\* The answers that a model called now takes up: those of the last message.
Owed(d) == IF d.log = <<>> THEN {} ELSE Last(d.log).yes \cup Last(d.log).no

\* Of the last assistant message's requests, those without an answer after it.
LastAsked(d) == LET said_ == {i \in DOMAIN d.log : d.log[i].by = "assistant"}
                IN IF said_ = {} THEN 0 ELSE Max(said_)
Missing(d) ==
    d.log[LastAsked(d)].asks \ UNION {d.log[j].yes \cup d.log[j].no \cup d.log[j].results :
                                        j \in (LastAsked(d) + 1) .. Len(d.log)}

\* appendApprovalResponsesIfReady returns true.
Ready(d) == /\ LastAsked(d) # 0 /\ d.log[LastAsked(d)].asks # {}
            /\ \A r \in Missing(d) : d.conf[r] \notin {"none", "pending"}

\* Only some of the answers are written; answered requests are answered again.
WithAnswersBug(d) ==
    IF ~Ready(d) THEN d
    ELSE LET of(s) == {r \in d.log[LastAsked(d)].asks : d.conf[r] = s}
         IN Appended(d, Tool(of("approved"), of("denied"), of("cancelled")))

\* The row it appends when it does: the decisions, or a result for a cancelled one.
WithAnswers(d) ==
    IF ~Ready(d) \/ Missing(d) = {} THEN d
    ELSE LET of(s) == {r \in Missing(d) : d.conf[r] = s}
         IN Appended(d, Tool(of("approved"), of("denied"), of("cancelled")))

\* cancelPendingConfirmations: one row after the other.
Cancelled(d) == [d EXCEPT !.conf = [r \in Requests |-> IF @[r] = "pending" THEN "cancelled" ELSE @[r]]]
Cancelling(d) ==
    LET upTo(n) == [d EXCEPT !.conf = [r \in Requests |-> IF r \in Pending(d) /\ r <= n THEN "cancelled" ELSE @[r]]]
    IN [n \in 1 .. MaxRequests |-> upTo(n)]

-----------------------------------------------------------------------------
(* What happens: the rows go through the states ds, the last of which is   *)
(* reached with the run r; or the process dies in between.                 *)

\* A message put on top of answers that no step of the model has taken up.
Buries(d) == IF Owed(d) # {} THEN {"cut"} ELSE {}

CanStop == restarts < MaxRestarts

\* What a death at the rows d leaves behind in the conversation.
Damage(w, d) ==
    (IF d.queue = <<>> /\ db.queue # <<>> THEN {"torn"} ELSE {})
        \cup (IF \E q \in runs[w].asks : d.conf[q] = "none" THEN {"cut"} ELSE {})
        \cup (IF d.log # db.log /\ Last(d.log).by # "tool" THEN Buries(db) ELSE {})

Does(w, ds, r, slip) ==
    \E i \in DOMAIN ds :
        LET dies == i < Len(ds) IN
        /\ dies => CanStop /\ ds[i] # db /\ ds[i] # Last(ds)
        /\ db' = ds[i]
        /\ runs' = IF dies THEN [x \in DOMAIN runs |-> NoRun] ELSE [runs EXCEPT ![w] = r]
        /\ proc' = IF dies THEN "down"
                   ELSE IF proc = "stopping" /\ w = "active" /\ r = NoRun THEN "stopped" ELSE proc
        /\ restarts' = IF dies THEN restarts + 1 ELSE restarts
        /\ slips' = slips \cup IF dies THEN Damage(w, ds[i]) ELSE slip

OfRuns(w, ds, r, slip) == Does(w, ds, r, slip) /\ UNCHANGED <<said, withdrawn, late>>

-----------------------------------------------------------------------------
(* The ends of a run *)

Ending == [NoRun EXCEPT !.at = "ending"]

\* persistTruncatedText: what a stream had said since its last step.
Texts(r) == IF r.left THEN BOOLEAN ELSE {FALSE}
Truncated(text) == IF text THEN Appended(db, Assistant({})) ELSE db
TextBuries(text) == IF text THEN Buries(db) ELSE {}
Dropped(r) == IF r.asks # {} THEN {"cut"} ELSE {}

\* persistTruncatedText, and the status.
Finish(w, status) ==
    LET r == runs[w] IN \E text \in Texts(r) :
    OfRuns(w, <<db, Truncated(text), WithStatus(Truncated(text), status)>>, Ending, TextBuries(text) \cup Dropped(r))

FinishError(w) == Finish(w, "error")

\* After a shutdown the session still says that it runs, to be recovered.
AbortedStatus(r) ==
    IF r.fatal THEN "error" ELSE IF r.stop = "shutdown" THEN db.status ELSE "stopped"

FinishAborted(w) == Finish(w, AbortedStatus(runs[w]))

FinishIdle(w) == OfRuns(w, <<db, WithStatus(db, "idle")>>, Ending, {})

\* A confirmation for each request, one row after the other, and then the status.
FinishWaitingConfirmation(w) ==
    LET r == runs[w]
        upTo(n) == [db EXCEPT !.conf = [q \in Requests |-> IF q \in r.asks /\ q <= n THEN "pending" ELSE @[q]]]
        rows == [n \in 1 .. MaxRequests + 1 |-> upTo(n - 1)]
    IN OfRuns(w, Append(rows, WithStatus(Last(rows), "waiting")), Ending, {})

-----------------------------------------------------------------------------
(* The steps of a run *)

\* The iteration of execute's loop that calls the model with the messages of d.
Called(d, r) == [NoRun EXCEPT !.at = "preparing", !.fatal = r.fatal, !.left = r.left, !.attempt = r.attempt,
                              !.owes = Owed(d)]

LoopTop(w) ==
    LET r == runs[w] IN
    \/ r.stop # "none" /\ FinishAborted(w)
    \/ r.stop = "none" /\ OfRuns(w, <<db>>, Called(db, r), {})

\* A stream that came to its own end has left no text behind.
NextRound(r) == [r EXCEPT !.attempt = 0, !.left = @ /\ r.steer]

\* The queue is emptied for its first message.
DrainBug(w) ==
    LET d == IF db.queue = <<>> THEN db
             ELSE Appended([db EXCEPT !.queue = <<>>], User(Head(db.queue)))
    IN OfRuns(w, <<db, d>>, Called(d, NextRound(runs[w])), Dropped(runs[w]))

\* drainQueuedMessages, and a message for each: the queue is emptied first.
Drain(w) ==
    LET upTo(n) == [db EXCEPT !.queue = <<>>, !.log = @ \o [i \in 1 .. n |-> User(db.queue[i])]]
        rows == [n \in 1 .. Len(db.queue) + 1 |-> upTo(n - 1)]
    IN OfRuns(w, <<db>> \o rows, Called(Last(rows), NextRound(runs[w])),
              Dropped(runs[w]) \cup (IF db.queue # <<>> THEN Buries(db) ELSE {}))

Interrupts(r) == r.stop # "none" \/ r.aborted

Again(r) == [NoRun EXCEPT !.at = "retrying", !.fatal = r.fatal, !.left = r.left, !.attempt = r.attempt + 1]

\* The retries are not counted.
RetriesBug(w) == OfRuns(w, <<db>>, Again(runs[w]), Dropped(runs[w]))

\* runOnce throws, and nobody has interrupted it: again after a while, or never.
Retries(w) ==
    LET r == runs[w] IN
    \/ r.attempt < MaxRetries /\ OfRuns(w, <<db>>, Again(r), Dropped(r))
    \/ FinishError(w)

Acquires(w) == runs[w].at = "acquiring" /\ (FinishError(w) \/ LoopTop(w))

\* The messages have been read; the model and the tools come, or do not.
Prepares(w) ==
    LET r == runs[w] IN
    /\ r.at = "preparing"
    /\ \/ OfRuns(w, <<db>>, [r EXCEPT !.at = "streaming", !.left = TRUE], {})
       \/ Interrupts(r) /\ FinishAborted(w)
       \/ ~Interrupts(r) /\ Retries(w)

\* A run that is stopped while it sleeps is not woken.
WakesBug(w) == runs[w].at = "retrying" /\ runs[w].stop = "none" /\ LoopTop(w)

Wakes(w) == runs[w].at = "retrying" /\ LoopTop(w)

AskedBefore == UNION {db.log[i].asks : i \in DOMAIN db.log}

\* Queued messages interrupt the stream after a step.
Boundary(r) == ~r.steer /\ r.stop = "none" /\ db.queue # <<>>

\* onStepFinish: the results of the approved calls, run first, and the step's own
\* messages; with requests in them, it is the last step.
StepEnds(w) ==
    LET r == runs[w] IN
    /\ r.at = "streaming" /\ ~r.aborted /\ r.stop = "none" /\ r.asks = {}
    /\ \E n \in 0 .. MaxRequests - Cardinality(AskedBefore) :
         LET asks == Cardinality(AskedBefore) + 1 .. Cardinality(AskedBefore) + n
             ran  == IF r.owes = {} THEN db ELSE Appended(db, Tool({}, {}, r.owes))
         IN OfRuns(w, <<db, ran, Appended(ran, Assistant(asks))>>,
                   [r EXCEPT !.asks = asks, !.owes = {}, !.left = (asks = {}),
                             !.steer = @ \/ Boundary(r), !.aborted = Boundary(r)], {})

\* The watchdog of a silent stream, or the second failure of a terminal tool; either
\* may also come after another interruption, before the stream has ended.
Aborts(w) ==
    LET r == runs[w] IN
    /\ r.at = "streaming"
    /\ \/ ~r.stalled /\ OfRuns(w, <<db>>, [r EXCEPT !.stalled = TRUE, !.aborted = TRUE], {})
       \/ ~r.fatal /\ OfRuns(w, <<db>>, [r EXCEPT !.fatal = TRUE, !.aborted = TRUE], {})

\* Whoever queued a message meanwhile is not noticed.
AllHeardBug == TRUE
AllHeard == db.queue = <<>>

\* The stream comes to its end, or throws, which an interrupted one may do as well.
StreamEnds(w) ==
    LET r == runs[w]
        cut == Interrupts(r)
    IN
    /\ r.at = "streaming"
    /\ \/ r.stalled /\ FinishError(w)
       \/ ~r.stalled /\ r.stop = "none" /\ r.steer /\ Drain(w)
       \/ cut /\ FinishAborted(w)
       \/ ~cut /\ Retries(w)
       \/ ~cut /\ r.asks # {} /\ FinishWaitingConfirmation(w)
       \/ ~cut /\ r.asks = {} /\ ~AllHeard /\ Drain(w)
       \/ /\ ~cut /\ r.asks = {} /\ AllHeard
          /\ FinishIdle(w) \/ OfRuns(w, <<db>>, [NoRun EXCEPT !.at = "titling"], {})

Titled(w) == runs[w].at = "titling" /\ FinishIdle(w)

\* The runtime is given back and the run leaves activeRuns.
Leaves(w) == runs[w].at = "ending" /\ OfRuns(w, <<db>>, NoRun, {})

RunStep(w) == Acquires(w) \/ Prepares(w) \/ Wakes(w) \/ StepEnds(w) \/ StreamEnds(w) \/ Titled(w) \/ Leaves(w)

-----------------------------------------------------------------------------
(* The user's requests *)

Served == proc # "down"

\* A request comes too late for a run that looks at nothing any more.
Deaf == Run.at \in {"titling", "ending"}

Started == [NoRun EXCEPT !.at = "acquiring"]

Enqueue(steer) ==
    /\ Served /\ said < MaxMessages /\ Active
    /\ said' = said + 1
    /\ db' = [db EXCEPT !.queue = Append(@, said + 1)]
    /\ runs' = IF steer /\ Run.stop = "none" /\ Run.at \in {"preparing", "streaming"}
               THEN [runs EXCEPT !["active"].steer = TRUE, !["active"].aborted = TRUE] ELSE runs
    /\ late' = IF Deaf THEN late \cup {said + 1} ELSE late
    /\ UNCHANGED <<proc, withdrawn, restarts, slips>>

\* A session that waits for a decision takes no message.
MaySubmit == db.status = "waiting" => Pending(db) = {}

SubmitUserMessage ==
    /\ Served /\ said < MaxMessages /\ ~Active /\ MaySubmit
    /\ LET d == IF db.status = "waiting" THEN WithAnswers(db) ELSE db
           e == Appended(d, User(said + 1))
       IN Does("active", <<db, d, e, WithStatus(e, "running")>>, Started, Buries(d))
    /\ said' = IF db'.log # <<>> /\ Last(db'.log).msg = said + 1 THEN said + 1 ELSE said
    /\ UNCHANGED <<withdrawn, late>>

WithdrawQueuedMessage(n) ==
    /\ Served
    /\ \E i \in DOMAIN db.queue : db.queue[i] = n /\ db' = [db EXCEPT !.queue = RemoveAt(@, i)]
    /\ withdrawn' = withdrawn \cup {n}
    /\ UNCHANGED <<proc, runs, said, late, restarts, slips>>

\* requestStop
RequestStop(why) ==
    runs' = IF Active /\ Run.stop = "none" /\ ~Deaf THEN [runs EXCEPT !["active"].stop = why] ELSE runs

StopActive ==
    /\ Served /\ Active /\ RequestStop("manual")
    /\ UNCHANGED <<db, proc, said, withdrawn, late, restarts, slips>>

\* The answers are not written.
StoppedRowsBug == Append(<<db>> \o Cancelling(db), WithStatus(Cancelled(db), "stopped"))
StoppedRows ==
    LET d == IF Pending(db) = {} THEN db ELSE WithAnswers(Cancelled(db))
    IN <<db>> \o Cancelling(db) \o <<d, WithStatus(d, "stopped")>>

StopSession ==
    /\ Served /\ ~Active
    /\ OfRuns("active", StoppedRows, NoRun, {})

Resumes(d) == ~Active /\ Pending(d) = {} /\ Ready(d)

\* A decision is taken once.  The last one of a turn is answered, and the run goes on.
ResolveConfirmation(r, yes) ==
    LET d == [db EXCEPT !.conf[r] = IF yes THEN "approved" ELSE "denied"]
        e == WithAnswers(d)
    IN
    /\ Served /\ db.conf[r] = "pending"
    /\ \/ Resumes(d) /\ OfRuns("active", <<db, d, e, WithStatus(e, "running")>>, Started, {})
       \/ ~Resumes(d) /\ OfRuns("active", <<db, d>>, Run, IF Active THEN {"early"} ELSE {})

-----------------------------------------------------------------------------
(* The process *)

Shutdown ==
    /\ CanStop /\ proc = "up" /\ restarts' = restarts + 1
    /\ proc' = IF Active THEN "stopping" ELSE "stopped"
    /\ RequestStop("shutdown")
    /\ UNCHANGED <<db, said, withdrawn, late, slips>>

\* The five seconds are over: activeRuns is cleared, and the run goes on.
StopTimesOut ==
    /\ proc = "stopping" /\ runs["orphan"] = NoRun
    /\ proc' = "stopped"
    /\ runs' = [runs EXCEPT !["active"] = NoRun, !["orphan"] = Run]
    /\ slips' = slips \cup {"outlived"} \cup Dropped(Run)
    /\ UNCHANGED <<db, said, withdrawn, late, restarts>>

Crash ==
    /\ CanStop /\ proc # "down" /\ restarts' = restarts + 1
    /\ proc' = "down" /\ runs' = [w \in DOMAIN runs |-> NoRun]
    /\ slips' = slips \cup UNION {Dropped(runs[w]) : w \in DOMAIN runs}
    /\ UNCHANGED <<db, said, withdrawn, late>>

\* Confirmations that a crash left behind are kept.
RecoveredRowsBug == <<db>>

\* The rows of a run that a restart found running: its confirmations are void.
RecoveredRows ==
    <<db>> \o Cancelling(db) \o <<IF Pending(db) = {} THEN db ELSE WithAnswers(Cancelled(db))>>

\* Confirmations that were made void leave their requests without an answer.
Interrupted(rows) == IF rows.conf # db.conf THEN {"cut"} ELSE {}

\* The rows start goes through, and whether it starts a run.
StartRows ==
    LET d == WithAnswers(db) IN
    IF db.status = "running" THEN RecoveredRows
    ELSE IF db.status # "waiting" \/ Pending(db) # {} THEN <<db>>
    ELSE IF Ready(db) THEN <<db, d, WithStatus(d, IF Active THEN "waiting" ELSE "running")>>
    ELSE <<db, WithStatus(db, "idle")>>
StartsRun == ~Active /\ (db.status = "running" \/ (db.status = "waiting" /\ Pending(db) = {} /\ Ready(db)))

\* start, in a new process or again in this one, where a run may be active already.
Start ==
    /\ proc \in {"stopped", "down"}
    /\ db' = Last(StartRows) /\ proc' = "up"
    /\ runs' = IF StartsRun THEN [runs EXCEPT !["active"] = Started] ELSE runs
    /\ UNCHANGED <<said, withdrawn, late, restarts, slips>>

\* The process dies on the way.
StartDies ==
    /\ proc \in {"stopped", "down"} /\ CanStop /\ restarts' = restarts + 1
    /\ \E i \in DOMAIN StartRows :
         db' = StartRows[i] /\ slips' = slips \cup Interrupted(StartRows[i]) \cup Dropped(Run)
    /\ proc' = "down" /\ runs' = [w \in DOMAIN runs |-> NoRun]
    /\ UNCHANGED <<said, withdrawn, late>>

-----------------------------------------------------------------------------
Next ==
    \/ \E w \in DOMAIN runs : RunStep(w) \/ Aborts(w)
    \/ \E steer \in BOOLEAN : Enqueue(steer)
    \/ SubmitUserMessage
    \/ \E n \in Messages : WithdrawQueuedMessage(n)
    \/ StopActive \/ StopSession
    \/ \E r \in Requests, yes \in BOOLEAN : ResolveConfirmation(r, yes)
    \/ Shutdown \/ StopTimesOut \/ Crash \/ Start \/ StartDies

\* A run goes on: every wait of it has an end of its own, by the watchdog, a
\* timer or the other side's answer.  The user, restarts and a run that outlived a
\* shutdown are not fair.
Fairness == WF_vars(RunStep("active"))

Spec == Init /\ [][Next]_vars /\ Fairness

-----------------------------------------------------------------------------
(* Properties *)

Runs == [at : {"none", "acquiring", "preparing", "streaming", "retrying", "titling", "ending"},
         stop : {"none", "manual", "shutdown"}, steer : BOOLEAN, aborted : BOOLEAN, fatal : BOOLEAN,
         stalled : BOOLEAN, left : BOOLEAN, attempt : 0 .. MaxRetries,
         owes : SUBSET Requests, asks : SUBSET Requests]

\* Types.  A process that is not running runs nothing, and one that shuts down
\* waits for a run.
AgentTypeOK ==
    /\ db.status \in {"idle", "running", "waiting", "stopped", "error"}
    /\ db.queue \in Seq(Messages)
    /\ \A i \in DOMAIN db.log : db.log[i].by \in {"user", "assistant", "tool"}
    /\ db.conf \in [Requests -> {"none", "pending", "approved", "denied", "cancelled"}]
    /\ proc \in {"up", "stopping", "stopped", "down"}
    /\ runs \in [{"active", "orphan"} -> Runs]
    /\ said \in 0 .. MaxMessages /\ withdrawn \subseteq Messages /\ late \subseteq Messages
    /\ restarts \in 0 .. MaxRestarts /\ slips \subseteq Slips
    /\ proc = "down" => \A w \in DOMAIN runs : runs[w] = NoRun
    /\ proc = "stopping" => Active

Times(n) == Cardinality({i \in DOMAIN db.log : db.log[i].msg = n}) + Cardinality({i \in DOMAIN db.queue : db.queue[i] = n})

\* Every message the user sent and did not withdraw is in the conversation or in
\* the queue, and only once, whatever interrupts the run; unless the process died
\* while the queue was being drained.
NothingLost ==
    \A n \in 1 .. said : n \notin withdrawn =>
        Times(n) <= 1 /\ ("torn" \notin slips => Times(n) = 1)

\* A session that has come to rest by itself has heard every message that was
\* queued before its run looked at the queue for the last time: only messages that
\* were queued later are still there.  Nothing is said of a session after a run of
\* it has outlived a shutdown.
IdleHasHeardAll ==
    proc = "up" /\ ~Active /\ db.status = "idle" /\ "outlived" \notin slips =>
        \A i \in DOMAIN db.queue : db.queue[i] \in late

\* What the session says when no run is active is true: it does not run, a pending
\* confirmation is waited for, and who waits has something to wait for; unless the
\* last decision came while the run that asked was ending, or an older run is
\* still going on that had outlived a shutdown.
RestingStatus ==
    proc = "up" /\ ~Active /\ "outlived" \notin slips =>
        /\ db.status # "running"
        /\ Pending(db) # {} => db.status = "waiting"
        /\ db.status = "waiting" /\ "early" \notin slips => Pending(db) # {}

Results == UNION {db.log[i].results : i \in DOMAIN db.log}

\* When the model is called, every tool call it asked an approval for has a result,
\* or an answer that the call takes up, across decisions, stops, steering, retries
\* and recovery; unless one of the named slips left a request behind.
Answerable ==
    Run.at = "preparing" /\ slips \cap {"cut", "early", "outlived"} = {} => AskedBefore \subseteq Results \cup Owed(db)

\* No request is answered twice, an answer is the user's decision, and a request
\* has one result.
AnsweredOnce ==
    \A r \in Requests :
        LET answers == {i \in DOMAIN db.log : r \in db.log[i].yes \cup db.log[i].no}
            results == {i \in DOMAIN db.log : r \in db.log[i].results}
        IN /\ Cardinality(answers) <= 1 /\ Cardinality(results) <= 1
           /\ \A i \in answers : db.conf[r] = IF r \in db.log[i].yes THEN "approved" ELSE "denied"
           /\ results # {} => answers # {} \/ db.conf[r] = "cancelled"

\* Every run ends: it stops, fails, finishes or waits for a decision, however it is
\* steered and retried, and its place is free for the next.
RunEnds == Active ~> ~Active

=============================================================================

------------------------------ MODULE AgentView ------------------------------
(***************************************************************************)
(* What a browser shows of one agent session.  The gateway writes whole    *)
(* messages to its database and only broadcasts the text under way; the    *)
(* browser subscribes over its socket, is sent a SYNC and then events, and *)
(* fetches messages over HTTP.  Frames of a socket keep their order, while *)
(* responses come in any order and at any distance.                        *)
(*                                                                         *)
(* Text is made of pieces, each said once; seqs count from 1.  The run is  *)
(* the writing half of AgentSession: its waits, retries and approvals are  *)
(* left out here, and so are statuses, tool calls and confirmations.       *)
(* Operators named ...Bug are plausible mistakes in the operator after     *)
(* them, for the checks that show the properties notice.                   *)
(***************************************************************************)
EXTENDS Integers, Sequences, FiniteSets, Functions

CONSTANTS MaxMessages,   \* bound: messages in the database
          MaxPieces,     \* bound: pieces of text the model says
          MaxFrames,     \* bound: frames under way to the browser
          MaxAsks,       \* bound: subscribes and unsubscribes not yet served
          MaxUpsets      \* bound: times the session is left, or the socket or a response lost

ASSUME ViewAssumption ==
    {MaxMessages, MaxPieces, MaxFrames, MaxAsks, MaxUpsets} \subseteq Nat

VARIABLES
    msgs,       \* agent_messages: the pieces of each, {} for the user's
    run,        \* the run: textBuffer, the pieces of it not yet broadcast, the step
    queued,     \* messages in the session's queue
    said,       \* pieces said
    subs,       \* the socket is among the hub's subscribers
    down, up,   \* frames and requests on the socket; up also pendingMessages
    ready,      \* the client is READY
    upsets,
    active,     \* activeSessionId is this session, and so it is in subscribedSessions
    shown,      \* messages: their seqs
    loaded,     \* historyLoaded
    live,       \* inProgress.texts by messageId
    buffer,     \* deltaBuffer by messageId
    timer,      \* historyFetchTimers has a timer
    fetch,      \* the loadHistory() under way
    again,      \* historyReloadPending
    post,       \* the sendMessage() under way
    skipped,    \* history: seqs a sent message jumped over, or an old answer took away
    excused,    \* history: pieces that may be shown twice or in vain
    unfetched   \* history: the last loadHistory() failed

gateway == <<msgs, run, queued, said, subs>>
socket  == <<down, up, ready, upsets>>
screen  == <<shown, loaded, live, buffer>>
http    == <<timer, fetch, again, post>>
slips   == <<skipped, excused, unfetched>>
vars    == <<gateway, socket, active, screen, http, slips>>

Pieces   == 1 .. MaxPieces
NoRun    == [on |-> FALSE, step |-> 0, text |-> {}, pending |-> {}]
NoFetch  == [at |-> "none", after |-> 0, upTo |-> 0]
NoPost   == [at |-> "none", seq |-> 0]
NoText   == << >>

\* Either a page loads with this session remembered, and its ensureInitialized()
\* has asked to subscribe before the client is READY; or the session is listed, or
\* was made here a moment ago, which counts as loaded, and is not selected yet.
Init ==
    /\ msgs = << >> /\ run = NoRun /\ queued = 0 /\ said = 0
    /\ subs = FALSE
    /\ down = << >> /\ upsets = 0
    /\ ready \in BOOLEAN /\ active = ~ready /\ up = IF active THEN <<"sub">> ELSE << >>
    /\ shown = {} /\ loaded \in {FALSE, ready} /\ live = NoText /\ buffer = NoText
    /\ timer = FALSE /\ fetch = NoFetch /\ again = FALSE
    /\ post = NoPost
    /\ skipped = {} /\ excused = {} /\ unfetched = FALSE

MaxSeq(seqs) == IF seqs = {} THEN 0 ELSE CHOOSE m \in seqs : \A i \in seqs : i <= m

-----------------------------------------------------------------------------
(* The gateway: messages, the run, and what the hub broadcasts of them *)

Delta(step, pieces) == [k |-> "delta", id |-> step, text |-> pieces]
Persisted(role)     == [k |-> "persisted", role |-> role]
Finished(last)   == [k |-> "finished", last |-> last]
Flush(r)            == IF r.pending = {} THEN << >> ELSE <<Delta(r.step, r.pending)>>

Broadcast(frames) ==
    /\ Len(down) + Len(frames) <= MaxFrames
    /\ down' = IF subs THEN down \o frames ELSE down

\* submitUserMessage: queued behind a run, else appended and answered by a run.
Submit ==
    /\ Len(msgs) + queued < MaxMessages
    /\ IF run.on THEN queued' = queued + 1 /\ UNCHANGED <<msgs, run, down>>
       ELSE /\ msgs' = Append(msgs, {})
            /\ run' = [run EXCEPT !.on = TRUE, !.step = @ + 1]
            /\ Broadcast(<<Persisted("user")>>)
            /\ UNCHANGED queued

\* Another browser, a queued message of this one, or a watch rule.
OtherSubmits ==
    /\ Submit
    /\ UNCHANGED <<said, subs, up, ready, upsets, active, screen, http, slips>>

ModelSpeaks ==
    /\ run.on /\ said < MaxPieces /\ Len(msgs) + queued < MaxMessages
    /\ said' = said + 1
    /\ run' = [run EXCEPT !.text = @ \cup {said'}, !.pending = @ \cup {said'}]
    /\ UNCHANGED <<msgs, queued, subs, socket, active, screen, http, slips>>

\* The flush timer, or enough text.
FlushDeltas ==
    /\ run.pending # {}
    /\ Broadcast(Flush(run))
    /\ run' = [run EXCEPT !.pending = {}]
    /\ UNCHANGED <<msgs, queued, said, subs, up, ready, upsets,
                   active, screen, http, slips>>

\* onStepFinish: what is still held back goes out behind the message.
StepFinishes ==
    /\ run.on /\ Len(msgs) + queued < MaxMessages
    /\ msgs' = Append(msgs, run.text)
    /\ Broadcast(<<Persisted("assistant")>> \o Flush(run))
    /\ excused' = excused \cup run.pending
    /\ run' = [run EXCEPT !.text = {}, !.pending = {}, !.step = @ + 1]
    /\ UNCHANGED <<queued, said, subs, up, ready, upsets, active, screen, http,
                   skipped, unfetched>>

\* Between steps, or in the middle of one whose text is then thrown away, the
\* queue becomes messages and the run goes on.
DrainsQueue ==
    /\ run.on /\ queued > 0
    /\ msgs' = msgs \o [i \in 1 .. queued |-> {}]
    /\ queued' = 0
    /\ Broadcast(Flush(run) \o [i \in 1 .. queued |-> Persisted("user")])
    /\ excused' = excused \cup run.text
    /\ run' = [run EXCEPT !.text = {}, !.pending = {}, !.step = @ + 1]
    /\ UNCHANGED <<said, subs, up, ready, upsets, active, screen, http,
                   skipped, unfetched>>

\* The run is over; unless it failed, its turn is finished.
EndsWith(frames, failed) ==
    /\ Broadcast(frames \o IF failed THEN << >> ELSE <<Finished(Len(msgs'))>>)
    /\ run' = [NoRun EXCEPT !.step = run.step]

FinishIdle ==
    /\ run.on /\ run.text = {} /\ queued = 0 /\ UNCHANGED msgs
    /\ EndsWith(<< >>, FALSE)
    /\ UNCHANGED <<queued, said, subs, up, ready, upsets,
                   active, screen, http, slips>>

\* finishAborted and finishError: the text so far becomes a message.  A stream
\* that throws is not flushed first; an error is not a finished turn.
FinishCut ==
    /\ run.on
    /\ msgs' = IF run.text = {} THEN msgs ELSE Append(msgs, run.text)
    /\ Len(msgs') + queued <= MaxMessages
    /\ \E failed, flushed \in BOOLEAN :
          EndsWith((IF flushed THEN Flush(run) ELSE << >>)
                      \o IF run.text = {} THEN << >> ELSE <<Persisted("assistant")>>,
                   failed)
    /\ UNCHANGED <<queued, said, subs, up, ready, upsets, active, screen, http, slips>>

\* subscribe: its wait for the SYNC is over before any other event is handled.  The
\* pieces of it that are not broadcast yet will come a second time.
ServeSubscribe ==
    /\ ready /\ up # << >> /\ Head(up) = "sub"
    /\ Len(down) < MaxFrames
    /\ down' = Append(down, [k |-> "sync", text |-> run.text, last |-> Len(msgs)])
    /\ subs' = TRUE /\ up' = Tail(up)
    /\ excused' = excused \cup run.pending
    /\ UNCHANGED <<msgs, run, queued, said, ready, upsets,
                   active, screen, http, skipped, unfetched>>

ServeUnsubscribe ==
    /\ ready /\ up # << >> /\ Head(up) = "unsub"
    /\ subs' = FALSE /\ up' = Tail(up)
    /\ UNCHANGED <<msgs, run, queued, said, down, ready, upsets,
                   active, screen, http, slips>>

-----------------------------------------------------------------------------
(* The browser's half of the socket *)

\* A segment for each messageId in `texts' that has none, the rest added to it.
Flushed ==
    [id \in DOMAIN live \cup DOMAIN buffer |->
        IF id \notin DOMAIN buffer THEN live[id]
        ELSE IF id \notin DOMAIN live THEN [text |-> buffer[id], stale |-> FALSE]
        ELSE [live[id] EXCEPT !.text = @ \cup buffer[id]]]

Stale(segments) == [id \in DOMAIN segments |-> [segments[id] EXCEPT !.stale = TRUE]]
Fresh(segments) == Restrict(segments, {id \in DOMAIN segments : ~segments[id].stale})

FetchAfter(seqs, whole) ==
    [at |-> "asked", after |-> IF whole THEN MaxSeq(seqs) ELSE 0, upTo |-> 0]

\* A request during a fetch is left to the fetch.
LoadHistoryBug(seqs, whole) ==
    IF fetch.at = "none" THEN fetch' = FetchAfter(seqs, whole) /\ UNCHANGED again
    ELSE UNCHANGED <<fetch, again>>

\* loadHistory: one fetch at a time, and another behind it when asked for.
LoadHistory(seqs, whole) ==
    IF fetch.at = "none" THEN fetch' = FetchAfter(seqs, whole) /\ UNCHANGED again
    ELSE again' = TRUE /\ UNCHANGED fetch

\* handleSync leaves the buffer of deltas as it is.
UnbufferedBug == buffer

\* deltaBuffer.delete: what is in the SYNC must not come out of the buffer again.
Unbuffered == NoText

ReadSync(f) ==
    /\ f.k = "sync"
    /\ buffer' = Unbuffered
    /\ live' = IF f.text = {} THEN NoText ELSE [id \in {0} |-> [text |-> f.text, stale |-> FALSE]]
    /\ IF f.last > MaxSeq(shown) \/ ~loaded THEN LoadHistory(shown, loaded)
       ELSE UNCHANGED <<fetch, again>>
    /\ UNCHANGED <<shown, loaded, timer>>

ReadDelta(f) ==
    /\ f.k = "delta"
    /\ buffer' = [id \in DOMAIN buffer \cup {f.id} |->
                    (IF id \in DOMAIN buffer THEN buffer[id] ELSE {})
                       \cup IF id = f.id THEN f.text ELSE {}]
    /\ UNCHANGED <<shown, loaded, live, timer, fetch, again>>

\* What is on the screen by now is in the message, or will be gone.
ReadPersisted(f) ==
    /\ f.k = "persisted"
    /\ live' = IF f.role = "assistant" THEN Stale(Flushed) ELSE Flushed
    /\ buffer' = NoText /\ timer' = TRUE
    /\ UNCHANGED <<shown, loaded, fetch, again>>

ReadFinished(f) ==
    /\ f.k = "finished"
    /\ live' = NoText /\ buffer' = NoText
    /\ timer' = (timer \/ f.last > MaxSeq(shown))
    /\ UNCHANGED <<shown, loaded, fetch, again>>

Read ==
    /\ down # << >>
    /\ LET f == Head(down) IN
       ReadSync(f) \/ ReadDelta(f) \/ ReadPersisted(f) \/ ReadFinished(f)
    /\ down' = Tail(down)
    /\ UNCHANGED <<gateway, up, ready, upsets, active, post, skipped, excused, unfetched>>

DeltaTimerFires ==
    /\ buffer # NoText
    /\ live' = Flushed /\ buffer' = NoText
    /\ UNCHANGED <<gateway, socket, active, shown, loaded, http, slips>>

HistoryTimerFires ==
    /\ timer /\ timer' = FALSE
    /\ LoadHistory(shown, loaded)
    /\ UNCHANGED <<gateway, socket, active, screen, post, slips>>

\* What the bound counts.
Upset == upsets < MaxUpsets /\ upsets' = upsets + 1

\* setActiveSession to this session, and to another or to a draft.
Activate ==
    /\ ~active /\ Len(up) < MaxAsks
    /\ active' = TRUE /\ up' = Append(up, "sub")
    /\ IF loaded THEN UNCHANGED <<fetch, again>> ELSE LoadHistory(shown, loaded)
    /\ UNCHANGED <<gateway, down, ready, upsets, screen, timer, post, slips>>

Deactivate ==
    /\ active /\ Len(up) < MaxAsks /\ Upset
    /\ active' = FALSE /\ up' = Append(up, "unsub")
    /\ UNCHANGED <<gateway, down, ready, screen, http, slips>>

\* Frames are lost both ways; requests made from now on wait for READY.
LoseSocket ==
    /\ ready /\ ready' = FALSE /\ Upset
    /\ down' = << >> /\ up' = << >> /\ subs' = FALSE
    /\ UNCHANGED <<msgs, run, queued, said, active, screen, http, slips>>

\* READY subscribes to nothing again: the queue of requests is all there is.
ResubscribedBug == << >>

Resubscribed == IF active THEN <<"sub">> ELSE << >>

\* READY: the store subscribes again before the client sends what has waited.
Reconnect ==
    /\ ~ready
    /\ ready' = TRUE /\ up' = Resubscribed \o up
    /\ IF active THEN LoadHistory(shown, loaded) ELSE UNCHANGED <<fetch, again>>
    /\ UNCHANGED <<gateway, down, upsets, active, screen, timer, post, slips>>

-----------------------------------------------------------------------------
(* HTTP: the gateway answers a request at once, whenever it gets it *)

AnswerFetch ==
    /\ fetch.at = "asked"
    /\ fetch' = [fetch EXCEPT !.at = "answered", !.upTo = Len(msgs)]
    /\ UNCHANGED <<gateway, socket, active, screen, timer, again, post, slips>>

\* finally does not start the loadHistory() that was asked for meanwhile.
FetchOverBug(seqs, whole) == fetch' = NoFetch /\ UNCHANGED again

\* finally: a loadHistory() that was asked for meanwhile starts.
FetchOver(seqs, whole) ==
    /\ fetch' = IF again THEN FetchAfter(seqs, whole) ELSE NoFetch
    /\ again' = FALSE

\* The messages are merged, or replace what there is, and stale text goes.
FetchReturns ==
    /\ fetch.at = "answered"
    /\ shown' = (IF fetch.after = 0 THEN {} ELSE shown) \cup (fetch.after + 1 .. fetch.upTo)
    /\ loaded' = TRUE
    /\ live' = Fresh(live)
    /\ unfetched' = FALSE /\ skipped' = (skipped \cup shown) \ shown'
    /\ FetchOver(shown', TRUE)
    /\ UNCHANGED <<gateway, socket, active, buffer, timer, post,
                   excused>>

\* A failure is only logged: nothing asks again.
FetchFails ==
    /\ fetch.at # "none" /\ Upset
    /\ unfetched' = TRUE
    /\ FetchOver(shown, loaded)
    /\ UNCHANGED <<gateway, down, up, ready, active, screen, timer, post,
                   skipped, excused>>

\* The page sends a message unless it shows a run, which it may miss.
SendMessage ==
    /\ active /\ post.at = "none"
    /\ post' = [NoPost EXCEPT !.at = "asked"]
    /\ UNCHANGED <<gateway, socket, active, screen, timer, fetch, again, slips>>

AnswerPost ==
    /\ post.at = "asked"
    /\ Submit
    /\ post' = IF run.on THEN [NoPost EXCEPT !.at = "queued"]
               ELSE [at |-> "message", seq |-> Len(msgs')]
    /\ UNCHANGED <<said, subs, up, ready, upsets, active, screen,
                   timer, fetch, again, slips>>

\* The message is merged into what is shown, and the session shown as running.
PostReturns ==
    /\ post.at = "message"
    /\ shown' = shown \cup {post.seq}
    /\ skipped' = (skipped \cup IF loaded THEN 1 .. post.seq ELSE {}) \ shown'
    /\ post' = NoPost
    /\ UNCHANGED <<gateway, socket, active, loaded, live, buffer, timer, fetch, again,
                   excused, unfetched>>

\* Queued, or failed.
PostOver ==
    /\ post.at # "none" /\ post' = NoPost
    /\ (post.at = "queued" /\ UNCHANGED upsets) \/ Upset
    /\ UNCHANGED <<gateway, down, up, ready, active, screen, timer, fetch, again, slips>>

Asked == Activate \/ Deactivate \/ SendMessage
Told  == Read \/ DeltaTimerFires \/ HistoryTimerFires \/ Reconnect \/ FetchReturns
Hub   == ServeSubscribe \/ ServeUnsubscribe

Next ==
    \/ OtherSubmits \/ ModelSpeaks \/ FlushDeltas \/ StepFinishes \/ DrainsQueue
    \/ FinishIdle \/ FinishCut
    \/ Hub \/ Told \/ Asked \/ AnswerFetch
    \/ AnswerPost \/ PostReturns \/ PostOver \/ FetchFails \/ LoseSocket

Spec == Init /\ [][Next]_vars /\ WF_vars(Hub \/ Told \/ AnswerFetch)

-----------------------------------------------------------------------------
(* Properties *)

SegmentType == [text : SUBSET Pieces, stale : BOOLEAN]

\* Every variable keeps its type; a loadHistory() asked for during another has one
\* to wait for, and text marked stale always has a fetch ahead that will drop it,
\* unless the last one failed (handleMessagePersisted, loadHistory's finally).
ViewTypeOK ==
    /\ \A m \in DOMAIN msgs : msgs[m] \subseteq Pieces
    /\ Len(msgs) + queued <= MaxMessages /\ said <= MaxPieces
    /\ run.pending \subseteq run.text /\ (run.text # {} => run.on)
    /\ Len(down) <= MaxFrames
    /\ shown \subseteq 1 .. MaxMessages
    /\ \A id \in DOMAIN live : live[id] \in SegmentType
    /\ \A id \in DOMAIN buffer : buffer[id] # {}
    /\ again => fetch.at # "none"
    /\ (\E id \in DOMAIN live : live[id].stale) => timer \/ fetch.at # "none" \/ unfetched

\* Nothing is under way that would still change what is shown.
AtRest ==
    /\ active /\ ready /\ up = << >> /\ down = << >>
    /\ run.pending = {} /\ buffer = NoText
    /\ ~timer /\ fetch = NoFetch /\ post = NoPost

\* A selected session comes to rest showing every message of the database and no
\* other, whatever was lost or overtook what.  Three slips: a loadHistory() that failed
\* is not repeated, one behind a sent message never asks for what that one has jumped
\* over, and one that was answered before it takes it off the screen (sendMessage,
\* loadHistory).
HistoryAgrees ==
    AtRest /\ ~unfetched => /\ shown \subseteq DOMAIN msgs
                           /\ DOMAIN msgs \ shown \subseteq skipped

ShownIn(p)  == {i \in shown : p \in msgs[i]}
StreamIn(p) == {id \in DOMAIN live : p \in live[id].text}

\* At rest each piece of text the model said is on the screen once, in a message or in
\* the text under way: SYNC, deltas, history and the marks of staleness neither lose
\* nor double it.  Excused are the pieces whose delta goes out behind their message
\* or their SYNC, and those a steered step has thrown away.
TextAgrees ==
    AtRest /\ ~unfetched /\ skipped = {} =>
        \A p \in 1 .. said \ excused : Cardinality(ShownIn(p)) + Cardinality(StreamIn(p)) = 1

\* A browser that stays on its session catches up with the database again and again.
CatchesUp ==
    []<>(DOMAIN msgs \subseteq shown \cup skipped \/ unfetched \/ ~active)

=============================================================================

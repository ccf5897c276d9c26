---------------------------- MODULE TmuxConnection ----------------------------
(***************************************************************************)
(* The control client of one device: LocalExternalTmuxConnection, where it *)
(* is a process, and SshExternalTmuxConnection, where it is a channel next *)
(* to the command channel of one ssh connection.  connect() starts the     *)
(* first client; a client that ends is followed by a restart, of which     *)
(* every wait is a step; a heartbeat kills a client that has gone silent.  *)
(* disconnect(), the tmux server's end or the ssh connection's may come at *)
(* any wait.                                                               *)
(*                                                                         *)
(* A start is a number: 1 is connect(), the others are restarts.  A wait   *)
(* that ends by its own time-out cannot be told from one that is slow.     *)
(***************************************************************************)
EXTENDS Integers

CONSTANTS MaxRestarts,  \* CONTROL_MAX_RESTARTS
          MaxFailures   \* bound: things that go wrong

ASSUME ConnectionAssumption == {MaxRestarts, MaxFailures} \subseteq Nat

VARIABLES
    kind,      \* local or ssh
    conn,      \* connected, manualDisconnect, closeNotified
    starts,    \* where each start is, and what became of its client
    control,   \* the start whose client is the current one, or 0
    count,     \* controlRestartCount
    beat,      \* the heartbeat's timer, the client it has asked, its time-out
    line,      \* the ssh connection and its command channel
    ended,     \* the runtime has ended: it calls nothing any more
    closes,    \* history: calls of onClose
    failures,
    slips      \* history: which of the code's known slips have happened

vars == <<kind, conn, starts, control, count, beat, line, ended, closes, failures, slips>>

Starts == 1 .. MaxFailures + 1

\* "dropped": a restart failed without an exit that would start the next;
\* "leaked": a client or an ssh connection was left open behind the runtime's end.
Slips == {"dropped", "leaked"}

Alive == {"up", "mute"}
NoBeat == [on |-> FALSE, asked |-> 0, timer |-> FALSE]

Init ==
    /\ kind \in {"local", "ssh"}
    /\ conn = [connected |-> FALSE, manual |-> FALSE, notified |-> FALSE]
    /\ starts = [i \in Starts |-> [at |-> IF i # 1 THEN "none" ELSE IF kind = "ssh" THEN "resolving" ELSE "preparing",
                                   client |-> "none"]]
    /\ control = 0 /\ count = 0 /\ beat = NoBeat /\ line = "none"
    /\ ended = FALSE /\ closes = 0 /\ failures = 0 /\ slips = {}

-----------------------------------------------------------------------------
Wanted == conn.connected /\ ~conn.manual

MayFail == failures < MaxFailures
Fails == MayFail /\ failures' = failures + 1

\* What a command over the command channel meets: a time-out, or no channel.
Breaks == IF line = "down" THEN UNCHANGED failures ELSE Fails
Answers == kind = "local" \/ line = "up"

\* A kill that reaches the client; a channel that is not open yet has nothing to stop.
Killed(c) == IF c \in Alive THEN "killed" ELSE c

\* The ssh connection takes every channel with it.
Hung == [i \in Starts |-> [starts[i] EXCEPT !.client = Killed(@)]]

\* The client is let go and not killed.
StopControlClientBug(s) == beat' = NoBeat /\ control' = 0 /\ starts' = s

\* stopControlClient, on the starts s
StopControlClient(s) ==
    /\ beat' = NoBeat /\ control' = 0
    /\ starts' = IF control = 0 THEN s ELSE [s EXCEPT ![control].client = Killed(@)]

\* closeNotified is not looked at.
TellsBug(manual) == ~manual

\* onClose is called, once, and not after a disconnect.
Tells(manual) == ~conn.notified /\ ~manual

\* shutdownInternal, on the starts s; with manual, disconnect
ShutdownInternal(s, manual) ==
    /\ conn' = [connected |-> FALSE, manual |-> manual, notified |-> conn.notified \/ Tells(manual)]
    /\ closes' = closes + (IF Tells(manual) THEN 1 ELSE 0)
    /\ ended' = TRUE
    /\ IF line = "up"
       THEN line' = "down" /\ beat' = NoBeat /\ control' = 0
            /\ starts' = [i \in Starts |-> [s[i] EXCEPT !.client = Killed(@)]]
       ELSE line' = line /\ StopControlClient(s)

At(i, where) == starts[i].at = where
Moved(i, where) == [starts EXCEPT ![i].at = where]

\* Nothing but the start itself moves on.
Goes(i, where) ==
    starts' = Moved(i, where) /\ UNCHANGED <<kind, conn, control, count, beat, line, ended, closes>>

-----------------------------------------------------------------------------
(* Starting a control client *)

\* A start ends in an exception: connect() is rejected, a restart is only logged.
Throws(i, slip) ==
    /\ starts' = Moved(i, IF i = 1 THEN "rejected" ELSE "over")
    /\ ended' = (ended \/ i = 1)
    /\ slips' = slips \cup (IF i = 1 THEN (IF line = "up" THEN {"leaked"} ELSE {}) ELSE IF Wanted THEN slip ELSE {})
    /\ UNCHANGED <<kind, conn, control, count, beat, line, closes>>

\* resolveSshConnectConfig, and a client connects, also behind a disconnect.
Resolved ==
    /\ At(1, "resolving")
    /\ \/ /\ starts' = Moved(1, "preparing") /\ line' = "up"
          /\ slips' = slips \cup (IF ended THEN {"leaked"} ELSE {})
          /\ UNCHANGED <<kind, conn, control, count, beat, ended, closes, failures>>
       \/ Fails /\ Throws(1, {})

\* The session is there and has its options.
Prepared ==
    /\ At(1, "preparing")
    /\ \/ Answers /\ Goes(1, "parking") /\ UNCHANGED <<failures, slips>>
       \/ IF kind = "ssh" THEN Breaks /\ Throws(1, {}) ELSE Fails /\ Throws(1, {})

\* The parking window is there: a client is spawned, whatever has happened since.
Parked(i) ==
    /\ At(i, "parking")
    /\ \/ /\ kind = "local"
          /\ starts' = [starts EXCEPT ![i] = [at |-> "attaching", client |-> "up"]]
          /\ control' = i
          /\ slips' = slips \cup (IF ended THEN {"leaked"} ELSE {})
          /\ UNCHANGED <<kind, conn, count, beat, line, ended, closes, failures>>
       \/ /\ kind = "local" /\ Fails /\ starts' = [Moved(i, "unparking") EXCEPT ![i].client = "void"]
          /\ UNCHANGED <<kind, conn, control, count, beat, line, ended, closes, slips>>
       \/ /\ kind = "ssh" /\ Answers
          /\ starts' = [starts EXCEPT ![i] = [at |-> "opening", client |-> "opening"]]
          /\ control' = i
          /\ UNCHANGED <<kind, conn, count, beat, line, ended, closes, failures, slips>>
       \/ kind = "ssh" /\ Breaks /\ Throws(i, {"dropped"})

\* The channel opens, or leaves a handle behind that never closes.
Opened(i) ==
    /\ At(i, "opening") /\ UNCHANGED <<kind, conn, control, count, beat, line, ended, closes, slips>>
    /\ \/ line = "up" /\ UNCHANGED failures /\ starts' = [starts EXCEPT ![i] = [at |-> "attaching", client |-> "up"]]
       \/ Breaks /\ starts' = [starts EXCEPT ![i] = [at |-> "unparking", client |-> "void"]]

\* The first answer of the client, or three seconds.
Attached(i) == At(i, "attaching") /\ Goes(i, "unparking") /\ UNCHANGED <<failures, slips>>

\* The client did not end meanwhile, and there is one.
StillCurrent(i) == control = i /\ starts[i].client # "void"

\* The heartbeat is forgotten.
NewBeatBug == NoBeat
NewBeat == [NoBeat EXCEPT !.on = TRUE]

\* The parking window is gone: the client is still the current one, or the start fails.
Unparked(i) ==
    /\ At(i, "unparking")
    /\ \/ /\ Answers /\ StillCurrent(i)
          /\ beat' = NewBeat
          /\ conn' = [conn EXCEPT !.connected = @ \/ i = 1]
          /\ starts' = Moved(i, IF i = 1 THEN "snapshot" ELSE "over")
          /\ UNCHANGED <<kind, control, count, line, ended, closes, failures, slips>>
       \/ /\ Answers /\ ~StillCurrent(i) /\ UNCHANGED failures
          /\ Throws(i, IF starts[i].client = "void" THEN {"dropped"} ELSE {})
       \/ kind = "ssh" /\ Breaks /\ Throws(i, {"dropped"})

\* The snapshot that ends connect(); over ssh its commands may time out.
FirstSnapshot ==
    /\ At(1, "snapshot")
    /\ \/ Answers /\ Goes(1, "over") /\ UNCHANGED <<failures, slips>>
       \/ kind = "ssh" /\ Breaks /\ Throws(1, {})

-----------------------------------------------------------------------------
(* The end of a control client, and the restart *)

\* A client that lived for long starts the count anew.
Counted(stable) == (IF stable THEN 0 ELSE count) + 1

GivesUp(s) == ShutdownInternal(s, conn.manual)

\* reconnectControlClient, up to its first wait, for the start i, on the starts s.
Reconnect(s, i) ==
    \E stable \in BOOLEAN :
        /\ count' = Counted(stable)
        /\ IF Counted(stable) > MaxRestarts
           THEN GivesUp([s EXCEPT ![i].at = "over"])
           ELSE /\ starts' = [s EXCEPT ![i].at = "delay"] /\ beat' = beat /\ control' = 0
                /\ UNCHANGED <<conn, line, ended, closes>>

NewStart(s) == CHOOSE i \in Starts : s[i].at = "none" /\ \A j \in Starts : s[j].at = "none" => i <= j

\* handleControlClientExit, handleControlChannelClose
ClientEnds(i) ==
    LET s == [starts EXCEPT ![i].client = "gone"] IN
    /\ \/ starts[i].client = "killed" /\ UNCHANGED failures
       \/ starts[i].client \in Alive /\ Fails
    /\ \/ control # i /\ starts' = s /\ UNCHANGED <<conn, control, count, beat, line, ended, closes>>
       \/ /\ control = i /\ ~Wanted /\ starts' = s /\ control' = 0
          /\ UNCHANGED <<conn, count, beat, line, ended, closes>>
       \/ control = i /\ Wanted /\ Reconnect(s, NewStart(s))
    /\ UNCHANGED <<kind, slips>>

Delayed(i) == At(i, "delay") /\ Goes(i, IF Wanted THEN "probing" ELSE "over") /\ UNCHANGED <<failures, slips>>

\* startControlClient does not clear the old heartbeat.
ClearedBug == beat
Cleared == NoBeat

\* has-session has answered.
Probed(i) ==
    /\ At(i, "probing") /\ kind' = kind
    /\ \/ /\ Answers /\ ~Wanted /\ Goes(i, "over") /\ UNCHANGED <<failures, slips>>
       \/ /\ Answers /\ Wanted /\ starts' = Moved(i, "parking") /\ beat' = Cleared
          /\ UNCHANGED <<conn, control, count, line, ended, closes, failures, slips>>
       \/ /\ Answers /\ Fails /\ ShutdownInternal(Moved(i, "over"), conn.manual)  \* the session is gone
          /\ UNCHANGED <<count, slips>>
       \/ /\ kind = "local" /\ Fails  \* no process could be spawned
          /\ count' = IF count > 0 THEN count - 1 ELSE 0
          /\ starts' = Moved(i, IF Wanted THEN "backoff" ELSE "over")
          /\ UNCHANGED <<conn, control, beat, line, ended, closes, slips>>
       \/ kind = "ssh" /\ Breaks /\ Throws(i, {"dropped"})

\* The two seconds are over.
BackedOff(i) == At(i, "backoff") /\ Reconnect(starts, i) /\ UNCHANGED <<kind, failures, slips>>

-----------------------------------------------------------------------------
(* The heartbeat *)

\* sendHeartbeat
SendHeartbeat ==
    /\ beat.on /\ control # 0 /\ beat.asked = 0 /\ Wanted
    /\ beat' = [beat EXCEPT !.asked = control, !.timer = TRUE]
    /\ UNCHANGED <<kind, conn, starts, control, count, line, ended, closes, failures, slips>>

OnHeartbeatResponse ==
    /\ beat.asked # 0 /\ control = beat.asked /\ starts[control].client = "up"
    /\ beat' = [beat EXCEPT !.asked = 0, !.timer = FALSE]
    /\ UNCHANGED <<kind, conn, starts, control, count, line, ended, closes, failures, slips>>

\* Ten seconds without an answer: the current client is killed.
HeartbeatTimesOut ==
    /\ beat.timer /\ beat' = [beat EXCEPT !.timer = FALSE]
    /\ IF control # 0 /\ starts[control].client = "up" THEN Fails ELSE UNCHANGED failures
    /\ starts' = IF beat.asked # 0 /\ Wanted /\ control # 0
                 THEN [starts EXCEPT ![control].client = Killed(@)] ELSE starts
    /\ UNCHANGED <<kind, conn, control, count, line, ended, closes, slips>>

\* A client falls silent.
Stalls(i) ==
    /\ starts[i].client = "up" /\ Fails
    /\ starts' = [starts EXCEPT ![i].client = "mute"]
    /\ UNCHANGED <<kind, conn, control, count, beat, line, ended, closes, slips>>

-----------------------------------------------------------------------------
(* Ends *)

\* disconnect, which the runtime calls once, and not after its end
Disconnect ==
    /\ ~ended
    /\ ShutdownInternal(starts, TRUE)
    /\ UNCHANGED <<kind, count, failures, slips>>

\* A command or a snapshot finds the tmux server gone.
ServerGone ==
    /\ Wanted /\ Fails
    /\ ShutdownInternal(starts, FALSE)
    /\ UNCHANGED <<kind, count, slips>>

\* The ssh connection or its command channel closes.
SshLost ==
    /\ line = "up" /\ Fails
    /\ IF conn.manual
       THEN /\ line' = "down" /\ starts' = Hung
            /\ UNCHANGED <<conn, control, beat, ended, closes>>
       ELSE ShutdownInternal(starts, FALSE)
    /\ UNCHANGED <<kind, count, slips>>

-----------------------------------------------------------------------------
StartStep(i) == Parked(i) \/ Opened(i) \/ Attached(i) \/ Unparked(i) \/ Delayed(i) \/ Probed(i) \/ BackedOff(i)

Next ==
    \/ Resolved \/ Prepared \/ FirstSnapshot
    \/ \E i \in Starts : StartStep(i) \/ ClientEnds(i) \/ Stalls(i)
    \/ SendHeartbeat \/ OnHeartbeatResponse \/ HeartbeatTimesOut
    \/ Disconnect \/ ServerGone \/ SshLost

\* Waits end, timers fire and a killed client dies.  What goes wrong is not fair.
Fairness ==
    /\ WF_vars(Resolved) /\ WF_vars(Prepared) /\ WF_vars(FirstSnapshot)
    /\ \A i \in Starts : WF_vars(StartStep(i)) /\ WF_vars(starts[i].client = "killed" /\ ClientEnds(i))
    /\ WF_vars(SendHeartbeat) /\ WF_vars(HeartbeatTimesOut)

Spec == Init /\ [][Next]_vars /\ Fairness

-----------------------------------------------------------------------------
(* Properties *)

\* Types; onClose is called once at most, and when it was, or a connection that was
\* made is over without its runtime asking for it, the two agree.
ConnTypeOK ==
    /\ kind \in {"local", "ssh"}
    /\ conn \in [connected : BOOLEAN, manual : BOOLEAN, notified : BOOLEAN]
    /\ starts \in [Starts -> [at : {"none", "resolving", "preparing", "parking", "opening", "attaching", "unparking",
                                    "snapshot", "delay", "probing", "backoff", "over", "rejected"},
                              client : Alive \cup {"none", "opening", "void", "killed", "gone"}]]
    /\ control \in Starts \cup {0} /\ count \in 0 .. MaxRestarts + 1
    /\ beat \in [on : BOOLEAN, asked : Starts \cup {0}, timer : BOOLEAN]
    /\ line \in {"none", "up", "down"} /\ ended \in BOOLEAN
    /\ closes \in 0 .. 1 /\ failures \in 0 .. MaxFailures /\ slips \subseteq Slips
    /\ At(1, "over") /\ ~conn.connected => conn.manual \/ closes = 1
    /\ closes = 1 => ~conn.connected

\* However starts overlap, no control client runs but the current one, and when the
\* runtime has ended none does and the ssh connection is closed; unless the code
\* started one behind a disconnect, or connect() failed with the connection open.
OneClient ==
    /\ \A i \in Starts : starts[i].client \in Alive => i = control
    /\ ended /\ "leaked" \notin slips => line # "up" /\ \A i \in Starts : starts[i].client \notin Alive

\* A heartbeat that was sent to one client never times out on another, which a
\* restart may have put in its place meanwhile.
KillsItsOwn == beat.asked # 0 /\ control # 0 => beat.asked = control

\* A client that ends or falls silent is replaced by one that serves, or the
\* connection ends; unless a restart failed in a way that nothing follows up.
Serves == control # 0 /\ starts[control].client = "up"
Recovers == Wanted ~> Serves \/ ~Wanted \/ "dropped" \in slips

=============================================================================

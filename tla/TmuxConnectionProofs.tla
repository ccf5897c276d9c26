------------------------- MODULE TmuxConnectionProofs -------------------------
(***************************************************************************)
(* Theorems about TmuxConnection, for any number of restarts and any       *)
(* number of things that go wrong, over a local process and over ssh.      *)
(***************************************************************************)
EXTENDS TmuxConnection, WellFoundedInduction, TLAPS

-----------------------------------------------------------------------------
(* The invariant of the induction                                          *)

\* connect() before it has made the connection
Early == {"resolving", "preparing", "parking", "opening", "attaching", "unparking"}

\* A start that has yet to make its client
Waiting == {"resolving", "preparing", "parking", "delay", "probing", "backoff"}

StartType == [at : {"none", "resolving", "preparing", "parking", "opening", "attaching", "unparking",
                    "snapshot", "delay", "probing", "backoff", "over", "rejected"},
              client : Alive \cup {"none", "opening", "void", "killed", "gone"}]

TypeInv ==
    /\ kind \in {"local", "ssh"}
    /\ conn \in [connected : BOOLEAN, manual : BOOLEAN, notified : BOOLEAN]
    /\ starts \in [Starts -> StartType]
    /\ control \in Starts \cup {0} /\ count \in 0 .. MaxRestarts + 1
    /\ beat \in [on : BOOLEAN, asked : Starts \cup {0}, timer : BOOLEAN]
    /\ line \in {"none", "up", "down"} /\ ended \in BOOLEAN
    /\ closes \in 0 .. 1 /\ failures \in 0 .. MaxFailures /\ slips \subseteq Slips

\* connect() and a restart go through different places.
PlacesInv ==
    /\ starts[1].at \in Early \cup {"snapshot", "over", "rejected"}
    /\ \A i \in Starts : i # 1 => starts[i].at \notin {"resolving", "preparing", "snapshot", "rejected"}

\* While connect() has not made the connection there is no other start, no
\* heartbeat, and only the end of the ssh connection can have been told.
EarlyInv ==
    starts[1].at \in Early =>
        /\ ~conn.connected /\ count = 0 /\ beat.asked = 0
        /\ \A i \in Starts : i # 1 => starts[i].at = "none"
        /\ conn.notified => kind = "ssh" /\ line = "down"

\* One start at a time has yet to make its client, and then no client is current;
\* when it spawns one, nothing is left of the last one's heartbeat.
WaitingInv ==
    \A i \in Starts : starts[i].at \in Waiting =>
        /\ \A j \in Starts : starts[j].at \in Waiting => i = j
        /\ control = 0
        /\ starts[i].at = "parking" => beat.asked = 0

\* The current client is one that a start has made; a channel that opens is the
\* current client's, or its connection is closed.
ClientInv ==
    /\ control # 0 => starts[control].at \notin Waiting \cup {"none"}
    /\ \A i \in Starts :
        /\ starts[i].client \in Alive => i = control
        /\ starts[i].at = "opening" <=> starts[i].client = "opening"
        /\ starts[i].at = "opening" => kind = "ssh" /\ line # "none" /\ (control = i \/ line = "down")

\* The ssh connection, and what hangs on it
LineInv ==
    /\ kind = "local" => line = "none" /\ starts[1].at # "resolving"
    /\ starts[1].at = "resolving" => line = "none"
    /\ kind = "ssh" /\ line # "up" => \A i \in Starts : starts[i].client \notin Alive
    /\ ended /\ "leaked" \notin slips => line # "up" /\ \A i \in Starts : starts[i].client \notin Alive

\* onClose
CloseInv ==
    /\ conn.notified <=> closes = 1
    /\ closes = 1 => ~conn.connected
    /\ starts[1].at \in {"snapshot", "over"} /\ ~conn.connected => conn.manual \/ closes = 1

\* Whoever has given up does not restart again.
CountInv ==
    count = MaxRestarts + 1 => ~conn.connected /\ \A i \in Starts : starts[i].at \notin Waiting

\* Every restart has a failure of its own that the bound counts, so that there is
\* a number left for the next.
Doomed == control # 0 /\ (starts[control].client = "mute" \/ (starts[control].client = "killed" /\ ~conn.manual))
BudgetInv ==
    \A i \in Starts : starts[i].at # "none" => i <= failures + 1 /\ (Doomed => i <= failures)

BeatInv == beat.asked # 0 /\ control # 0 => beat.asked = control

IInv == /\ TypeInv /\ PlacesInv /\ EarlyInv /\ WaitingInv /\ ClientInv
        /\ LineInv /\ CloseInv /\ CountInv /\ BudgetInv /\ BeatInv


-----------------------------------------------------------------------------
(* What the helpers make of the starts                                     *)

LEMMA MovedFacts ==
    ASSUME TypeInv, NEW i \in Starts, NEW r \in StartType, NEW x, x = r.at
    PROVE  /\ Moved(i, x) \in [Starts -> StartType]
           /\ \A j \in Starts : /\ Moved(i, x)[j].at = IF j = i THEN x ELSE starts[j].at
                                /\ Moved(i, x)[j].client = starts[j].client
<1>1. [starts[i] EXCEPT !.at = x] \in StartType
  BY DEF TypeInv, StartType
<1> QED
  BY <1>1 DEF TypeInv, StartType, Moved

\* Whatever the kind of connection, no client outlives shutdownInternal that was
\* the current one, or hung on the ssh connection.
LEMMA ShutdownFacts ==
    ASSUME TypeInv, NEW s \in [Starts -> StartType], NEW m \in BOOLEAN, ShutdownInternal(s, m),
           \A i \in Starts : s[i].client \in Alive => i = control
    PROVE  /\ conn' = [connected |-> FALSE, manual |-> m, notified |-> conn.notified \/ Tells(m)]
           /\ closes' = closes + (IF Tells(m) THEN 1 ELSE 0)
           /\ ended' = TRUE /\ control' = 0 /\ beat' = NoBeat
           /\ line' = IF line = "up" THEN "down" ELSE line
           /\ starts' \in [Starts -> StartType]
           /\ \A i \in Starts : /\ starts'[i].at = s[i].at
                                /\ starts'[i].client = Killed(s[i].client)
<1>1. \A i \in Starts : /\ [s[i] EXCEPT !.client = Killed(@)] \in StartType
                        /\ [s[i] EXCEPT !.client = Killed(@)].at = s[i].at
                        /\ [s[i] EXCEPT !.client = Killed(@)].client = Killed(s[i].client)
  BY DEF StartType, Killed, Alive
<1>2. CASE line = "up"
  <2>1. starts' = [i \in Starts |-> [s[i] EXCEPT !.client = Killed(@)]]
    BY <1>2 DEF ShutdownInternal
  <2> QED
    BY <1>1, <1>2, <2>1 DEF ShutdownInternal
<1>3. CASE line # "up"
  <2>1. starts' = IF control = 0 THEN s ELSE [s EXCEPT ![control] = [s[control] EXCEPT !.client = Killed(@)]]
    BY <1>3 DEF ShutdownInternal, StopControlClient, TypeInv
  <2>2. \A i \in Starts : i # control => Killed(s[i].client) = s[i].client
    BY DEF Killed
  <2> DEFINE Killing(f) == f \in [Starts -> StartType] /\ \A i \in Starts : /\ f[i].at = s[i].at
                                                           /\ f[i].client = Killed(s[i].client)
  <2>3. Killing(starts')
    <3>1. CASE control = 0
      <4>1. \A i \in Starts : i # control
        BY <3>1 DEF Starts
      <4> QED
        BY <2>1, <2>2, <3>1, <4>1
    <3>2. CASE control \in Starts
      <4> DEFINE r == [s[control] EXCEPT !.client = Killed(@)]
      <4>1. r \in StartType /\ r.at = s[control].at /\ r.client = Killed(s[control].client)
        BY <1>1, <3>2
      <4>2. starts' = [s EXCEPT ![control] = r]
        BY <2>1, <3>2 DEF Starts
      <4> HIDE DEF r
      <4> QED
        BY <2>2, <3>2, <4>1, <4>2
    <3> QED
      BY <3>1, <3>2 DEF TypeInv
  <2> QED
    BY <1>3, <2>3 DEF ShutdownInternal, StopControlClient
<1> QED
  BY <1>2, <1>3

\* More failures leave a start its number.
LEMMA BudgetGrows ==
    \A m, n, j \in Nat : m <= n /\ j <= m + 1 => j <= n + 1
OBVIOUS

-----------------------------------------------------------------------------
(* A start moves on to another place.                                      *)

LEMMA MovingKeeps ==
    ASSUME IInv, NEW i \in Starts, NEW x, starts' = Moved(i, x),
           x \in {"preparing", "parking", "unparking", "probing", "backoff", "over", "rejected"},
           starts[i].at \notin {"none", "opening"},
           UNCHANGED <<kind, conn, control, line, closes>>,
           beat' = beat \/ beat' = NoBeat,
           x = "parking" => beat'.asked = 0,
           count' \in 0 .. count, failures' \in 0 .. MaxFailures, failures <= failures',
           slips \subseteq slips', slips' \subseteq Slips, ended' \in BOOLEAN,
           x \in Waiting => starts[i].at \in Waiting,
           i = 1 => /\ x \in Early => starts[i].at \in Early
                    /\ x \notin {"probing", "backoff"}
                    /\ x = "over" => starts[i].at = "snapshot",
           i # 1 => x \notin {"preparing", "rejected"},
           ended' /\ "leaked" \notin slips' /\ ~(ended /\ "leaked" \notin slips) =>
                line # "up" /\ \A j \in Starts : starts[j].client \notin Alive
    PROVE  IInv'
<1>1. TypeInv
  BY DEF IInv
<1>2. \E r \in StartType : r.at = x
  <2>1. [at |-> x, client |-> "none"] \in StartType
    BY DEF StartType
  <2> QED
    BY <2>1
<1>3. /\ starts' \in [Starts -> StartType]
      /\ \A j \in Starts : /\ starts'[j].at = IF j = i THEN x ELSE starts[j].at
                           /\ starts'[j].client = starts[j].client
  BY <1>1, <1>2, MovedFacts
<1>4. 1 \in Starts
  BY ConnectionAssumption DEF Starts
<1>5. TypeInv'
  <2>1. count' \in 0 .. MaxRestarts + 1 /\ failures' \in 0 .. MaxFailures
    BY <1>1, ConnectionAssumption DEF TypeInv
  <2>2. NoBeat \in [on : BOOLEAN, asked : Starts \cup {0}, timer : BOOLEAN]
    BY DEF NoBeat
  <2> QED
    BY <1>1, <1>3, <2>1, <2>2 DEF TypeInv
<1>6. PlacesInv' /\ EarlyInv' /\ WaitingInv'
  <2>1. PlacesInv'
    BY <1>3, <1>4 DEF IInv, PlacesInv, Early, Waiting
  <2>2. EarlyInv'
    BY <1>1, <1>3, <1>4 DEF IInv, EarlyInv, Early, NoBeat, TypeInv
  <2>3. WaitingInv'
    BY <1>1, <1>3 DEF IInv, WaitingInv, NoBeat, Waiting
  <2> QED
    BY <2>1, <2>2, <2>3
<1>7. ClientInv'
  BY <1>1, <1>3 DEF IInv, ClientInv, TypeInv, Waiting
<1>8. LineInv'
  BY <1>1, <1>3, <1>4 DEF IInv, LineInv
<1>9. CloseInv'
  BY <1>3, <1>4 DEF IInv, CloseInv, PlacesInv, Early
<1>10. CountInv'
  BY <1>1, <1>3, ConnectionAssumption DEF IInv, CountInv, TypeInv
<1>11. BudgetInv'
  <2>1. Doomed' => Doomed
    BY <1>1, <1>3 DEF Doomed, TypeInv
  <2>2. \A j \in Starts : starts'[j].at # "none" => starts[j].at # "none"
    BY <1>3
  <2>3. ASSUME NEW j \in Starts, starts'[j].at # "none"
        PROVE  j <= failures' + 1 /\ (Doomed' => j <= failures')
    <3>1. j <= failures + 1
      BY <2>2, <2>3 DEF IInv, BudgetInv
    <3>2. failures \in Nat /\ failures' \in Nat /\ failures <= failures' /\ j \in Nat
      BY <1>1, ConnectionAssumption DEF TypeInv, Starts
    <3>3. j <= failures' + 1
      BY <3>1, <3>2, ConnectionAssumption
    <3>4. ASSUME Doomed' PROVE j <= failures'
      <4>1. j <= failures
        BY <2>1, <2>2, <2>3, <3>4 DEF IInv, BudgetInv
      <4> QED
        BY <3>2, <4>1
    <3> QED
      BY <3>3, <3>4
  <2> QED
    BY <2>3 DEF BudgetInv
<1>12. BeatInv'
  BY <1>1, <1>3 DEF IInv, BeatInv, NoBeat
<1> QED
  BY <1>5, <1>6, <1>7, <1>8, <1>9, <1>10, <1>11, <1>12 DEF IInv

-----------------------------------------------------------------------------
(* The runtime shuts the connection down; s is what became of the starts   *)
(* before.                                                                 *)

LEMMA ShuttingKeeps ==
    ASSUME IInv, NEW s \in [Starts -> StartType], NEW m \in BOOLEAN, ShutdownInternal(s, m),
           UNCHANGED <<kind, slips>>,
           \A i \in Starts :
              /\ s[i].at = starts[i].at \/ (i # 1 /\ starts[i].at # "opening" /\ s[i].at = "over")
              /\ s[i].client = starts[i].client \/ (starts[i].client # "opening" /\ s[i].client = "gone")
              /\ s[i].at # "none" => i <= failures' + 1,
           failures' \in 0 .. MaxFailures, count' \in 0 .. MaxRestarts + 1,
           starts[1].at \in Early => s = starts /\ count' = 0 /\ (m \/ line = "up"),
           count' = MaxRestarts + 1 => \A i \in Starts : s[i].at \notin Waiting
    PROVE  IInv'
<1>1. TypeInv /\ ClientInv
  BY DEF IInv
<1>2. /\ conn' = [connected |-> FALSE, manual |-> m, notified |-> conn.notified \/ Tells(m)]
      /\ closes' = closes + (IF Tells(m) THEN 1 ELSE 0)
      /\ ended' = TRUE /\ control' = 0 /\ beat' = NoBeat
      /\ line' = IF line = "up" THEN "down" ELSE line
      /\ starts' \in [Starts -> StartType]
      /\ \A i \in Starts : /\ starts'[i].at = s[i].at
                           /\ starts'[i].client = Killed(s[i].client)
  <2>1. \A i \in Starts : s[i].client \in Alive => i = control
    BY <1>1 DEF ClientInv, Alive
  <2> QED
    BY <1>1, <2>1, ShutdownFacts
<1>3. /\ \A i \in Starts : /\ starts'[i].client \notin Alive
                           /\ starts'[i].client = "opening" <=> starts[i].client = "opening"
      /\ \A i \in Starts : starts'[i].at = "opening" <=> starts[i].at = "opening"
  BY <1>2 DEF Killed, Alive
<1>4. 1 \in Starts /\ starts'[1].at = starts[1].at
  <2>1. 1 \in Starts
    BY ConnectionAssumption DEF Starts
  <2> QED
    BY <1>2, <2>1
<1> DEFINE told == conn.notified \/ Tells(m)
<1>13. conn'.connected = FALSE /\ conn'.manual = m /\ conn'.notified = told
  BY <1>2
<1>5. TypeInv'
  <2>1. closes' \in 0 .. 1
    BY <1>1, <1>2 DEF IInv, CloseInv, TypeInv, Tells
  <2> QED
    BY <1>1, <1>2, <2>1 DEF TypeInv, NoBeat, Tells
<1>6. PlacesInv' /\ EarlyInv' /\ WaitingInv'
  <2>1. PlacesInv'
    BY <1>2, <1>4 DEF IInv, PlacesInv
  <2>2. EarlyInv'
    <3> SUFFICES ASSUME starts[1].at \in Early PROVE EarlyInv'
      BY <1>4 DEF EarlyInv
    <3>1. \A i \in Starts : i # 1 => starts'[i].at = "none"
      BY <1>2 DEF IInv, EarlyInv
    <3>2. count' = 0 /\ beat'.asked = 0
      BY <1>2 DEF NoBeat
    <3>3. conn'.notified => kind' = "ssh" /\ line' = "down"
      BY <1>1, <1>2, <1>13 DEF IInv, EarlyInv, LineInv, TypeInv, Tells
    <3> QED
      BY <1>13, <3>1, <3>2, <3>3 DEF EarlyInv
  <2>3. WaitingInv'
    BY <1>2 DEF IInv, WaitingInv, NoBeat, Waiting
  <2> QED
    BY <2>1, <2>2, <2>3
<1>7. ClientInv'
  BY <1>1, <1>2, <1>3 DEF ClientInv, TypeInv
<1>8. LineInv'
  BY <1>1, <1>2, <1>3, <1>4 DEF IInv, LineInv, TypeInv
<1>9. CloseInv'
  <2>1. CASE Tells(m)
    <3>1. closes = 0
      BY <1>1, <2>1 DEF IInv, CloseInv, Tells, TypeInv
    <3>2. closes' = 1 /\ told
      BY <1>2, <2>1, <3>1
    <3> QED
      BY <1>13, <3>2 DEF CloseInv
  <2>2. CASE ~Tells(m)
    <3>1. closes' = closes /\ told = conn.notified
      BY <1>1, <1>2, <2>2 DEF TypeInv
    <3> QED
      BY <1>13, <2>2, <3>1 DEF IInv, CloseInv, Tells
  <2> QED
    BY <2>1, <2>2
<1>10. CountInv'
  BY <1>2 DEF CountInv
<1>11. BudgetInv'
  BY <1>2 DEF BudgetInv, Doomed
<1>12. BeatInv'
  BY <1>2 DEF BeatInv
<1> QED
  BY <1>5, <1>6, <1>7, <1>8, <1>9, <1>10, <1>11, <1>12 DEF IInv

-----------------------------------------------------------------------------
(* A start i makes its client, or something becomes of its client: it is   *)
(* at x with the client c from now on.                                     *)

LEMMA ClientKeeps ==
    ASSUME IInv, NEW i \in Starts, NEW x, NEW c, starts' \in [Starts -> StartType],
           \A j \in Starts : /\ starts'[j].at = IF j = i THEN x ELSE starts[j].at
                             /\ starts'[j].client = IF j = i THEN c ELSE starts[j].client,
           UNCHANGED <<kind, conn, line, closes, count, ended>>,
           beat' \in [on : BOOLEAN, asked : Starts \cup {0}, timer : BOOLEAN], beat'.asked = beat.asked,
           failures' \in 0 .. MaxFailures, failures <= failures',
           slips \subseteq slips', slips' \subseteq Slips,
           \/ x = starts[i].at
           \/ starts[i].at = "parking" /\ x \in {"opening", "attaching", "unparking"}
           \/ starts[i].at = "opening" /\ x \in {"attaching", "unparking"},
           x = "opening" <=> c = "opening",
           \/ control' = control
           \/ control' = i /\ starts[i].at = "parking" /\ x # "parking"
           \/ control' = 0 /\ control = i /\ c = "gone",
           x = "opening" /\ x # starts[i].at => kind = "ssh" /\ line = "up" /\ control' = i,
           c \in Alive => control' = i /\ (kind = "ssh" => line = "up"),
           c \in Alive /\ ended /\ "leaked" \notin slips' => starts[i].client \in Alive \/ line = "up",
           Doomed' => Doomed \/ failures' = failures + 1
    PROVE  IInv'
<1>1. TypeInv
  BY DEF IInv
<1>2. 1 \in Starts
  BY ConnectionAssumption DEF Starts
<1>3. \A j \in Starts : starts'[j].at \in Waiting => starts[j].at \in Waiting
  BY DEF Waiting
<1>4. starts[i].at = "parking" => control = 0 /\ beat.asked = 0
  BY DEF IInv, WaitingInv, Waiting
<1>5. TypeInv'
  <2>1. control' \in Starts \cup {0}
    BY <1>1 DEF TypeInv
  <2> QED
    BY <1>1, <2>1 DEF TypeInv
<1>6. PlacesInv' /\ EarlyInv' /\ WaitingInv'
  <2>1. PlacesInv'
    BY <1>2 DEF IInv, PlacesInv, Early
  <2>2. EarlyInv'
    BY <1>2 DEF IInv, EarlyInv, Early
  <2>3. WaitingInv'
    BY <1>3 DEF IInv, WaitingInv, Waiting
  <2> QED
    BY <2>1, <2>2, <2>3
<1>7. ClientInv'
  <2>1. control' # 0 => starts'[control'].at \notin Waiting \cup {"none"}
    BY <1>1, <1>3 DEF IInv, ClientInv, TypeInv, Waiting
  <2>2. ASSUME NEW j \in Starts, starts'[j].client \in Alive PROVE j = control'
    BY <1>4, <2>2 DEF IInv, ClientInv, Alive, Starts
  <2>3. ASSUME NEW j \in Starts
        PROVE  /\ starts'[j].at = "opening" <=> starts'[j].client = "opening"
               /\ starts'[j].at = "opening" => kind' = "ssh" /\ line' # "none" /\ (control' = j \/ line' = "down")
    <3>1. CASE j = i
      BY <1>4, <3>1 DEF IInv, ClientInv, Starts
    <3>2. CASE j # i
      BY <1>4, <3>2 DEF IInv, ClientInv, Starts
    <3> QED
      BY <3>1, <3>2
  <2> QED
    BY <2>1, <2>2, <2>3 DEF ClientInv
<1>8. LineInv'
  <2>1. starts'[1].at = "resolving" <=> starts[1].at = "resolving"
    BY <1>2
  <2>2. \A j \in Starts : starts'[j].client \in Alive => j = i \/ starts[j].client \in Alive
    OBVIOUS
  <2> QED
    BY <1>1, <2>1, <2>2 DEF IInv, LineInv, TypeInv
<1>9. CloseInv'
  BY <1>2 DEF IInv, CloseInv
<1>10. CountInv'
  BY <1>3 DEF IInv, CountInv
<1>11. BudgetInv'
  <2> SUFFICES ASSUME NEW j \in Starts, starts'[j].at # "none"
               PROVE  j <= failures' + 1 /\ (Doomed' => j <= failures')
    BY DEF BudgetInv
  <2>1. failures \in Nat /\ failures' \in Nat /\ j \in Nat
    BY <1>1, ConnectionAssumption DEF TypeInv, Starts
  <2>2. j <= failures + 1
    BY DEF IInv, BudgetInv
  <2>3. j <= failures' + 1
    BY <2>1, <2>2, BudgetGrows
  <2>4. ASSUME Doomed' PROVE j <= failures'
    <3>1. CASE Doomed
      <4>1. j <= failures
        BY <3>1 DEF IInv, BudgetInv
      <4> QED
        BY <2>1, <4>1, ConnectionAssumption
    <3>2. CASE failures' = failures + 1
      BY <2>1, <2>2, <3>2, ConnectionAssumption
    <3> QED
      BY <2>4, <3>1, <3>2
  <2> QED
    BY <2>3, <2>4
<1>12. BeatInv'
  BY <1>4 DEF IInv, BeatInv
<1> QED
  BY <1>5, <1>6, <1>7, <1>8, <1>9, <1>10, <1>11, <1>12 DEF IInv

-----------------------------------------------------------------------------
(* A restart begins: its start has a number that no start has had, or it   *)
(* waited for no process to be spawned.                                    *)

LEMMA ReconnectKeeps ==
    ASSUME IInv, NEW s \in [Starts -> StartType], NEW i \in Starts, i # 1, Reconnect(s, i),
           UNCHANGED <<kind, slips>>,
           count <= MaxRestarts, failures' \in 0 .. MaxFailures, failures <= failures',
           starts[1].at \notin Early, i <= failures' + 1,
           starts[i].at \in {"none", "backoff"},
           \A j \in Starts : /\ j # i => starts[j].at \notin Waiting
                             /\ s[j].at = starts[j].at
                             /\ s[j].client = starts[j].client \/ (starts[j].client # "opening" /\ s[j].client = "gone")
                             /\ s[j].client \notin Alive
                             /\ s[j].client = "opening" => line = "down"
    PROVE  IInv'
<1>1. TypeInv /\ 1 \in Starts
  BY ConnectionAssumption DEF IInv, Starts
<1>2. PICK stable \in BOOLEAN :
        /\ count' = Counted(stable)
        /\ IF Counted(stable) > MaxRestarts
           THEN GivesUp([s EXCEPT ![i].at = "over"])
           ELSE /\ starts' = [s EXCEPT ![i].at = "delay"] /\ beat' = beat /\ control' = 0
                /\ UNCHANGED <<conn, line, ended, closes>>
  BY DEF Reconnect
<1>3. count' \in 0 .. MaxRestarts + 1 /\ (count' > MaxRestarts <=> count' = MaxRestarts + 1)
  BY <1>1, <1>2, ConnectionAssumption DEF Counted, TypeInv
<1>4. \A j \in Starts : starts[j].at # "none" => j <= failures' + 1
  <2> SUFFICES ASSUME NEW j \in Starts, starts[j].at # "none" PROVE j <= failures' + 1
    OBVIOUS
  <2>1. j <= failures + 1
    BY DEF IInv, BudgetInv
  <2>2. failures \in Nat /\ failures' \in Nat /\ j \in Nat
    BY <1>1, ConnectionAssumption DEF TypeInv, Starts
  <2> QED
    BY <2>1, <2>2, ConnectionAssumption
<1>5. CASE count' > MaxRestarts
  <2> DEFINE t == [s EXCEPT ![i].at = "over"]
  <2>1. /\ t \in [Starts -> StartType]
        /\ \A j \in Starts : t[j].client = s[j].client /\ t[j].at = IF j = i THEN "over" ELSE s[j].at
    BY DEF StartType
  <2>2. ShutdownInternal(t, conn.manual) /\ conn.manual \in BOOLEAN
    BY <1>1, <1>2, <1>5 DEF GivesUp, TypeInv
  <2> HIDE DEF t
  <2>3. \A j \in Starts : t[j].at \notin Waiting
    BY <2>1 DEF Waiting
  <2>4. \A j \in Starts :
              /\ t[j].at = starts[j].at \/ (j # 1 /\ starts[j].at # "opening" /\ t[j].at = "over")
              /\ t[j].client = starts[j].client \/ (starts[j].client # "opening" /\ t[j].client = "gone")
              /\ t[j].at # "none" => j <= failures' + 1
    BY <1>4, <2>1
  <2> QED
    BY <1>3, <2>1, <2>2, <2>3, <2>4, ShuttingKeeps
<1>6. CASE ~(count' > MaxRestarts)
  <2>1. /\ starts' = [s EXCEPT ![i].at = "delay"] /\ beat' = beat /\ control' = 0
        /\ UNCHANGED <<conn, line, ended, closes>>
    BY <1>2, <1>6
  <2>2. /\ starts' \in [Starts -> StartType]
        /\ \A j \in Starts : /\ starts'[j].client = s[j].client
                             /\ starts'[j].at = IF j = i THEN "delay" ELSE starts[j].at
    BY <2>1 DEF StartType
  <2>3. starts'[1].at = starts[1].at
    BY <1>1, <2>2
  <2>4. TypeInv'
    BY <1>1, <1>3, <2>1, <2>2 DEF TypeInv
  <2>5. PlacesInv' /\ EarlyInv'
    BY <2>2, <2>3 DEF IInv, PlacesInv, EarlyInv
  <2>6. WaitingInv'
    BY <2>1, <2>2 DEF WaitingInv
  <2>7. ClientInv'
    BY <1>1, <2>1, <2>2 DEF IInv, ClientInv, TypeInv
  <2>8. LineInv'
    BY <2>1, <2>2, <2>3 DEF IInv, LineInv
  <2>9. CloseInv'
    BY <2>1, <2>3 DEF IInv, CloseInv
  <2>10. CountInv'
    BY <1>3, <1>6 DEF CountInv
  <2>11. BudgetInv'
    BY <1>4, <2>1, <2>2 DEF BudgetInv, Doomed
  <2>12. BeatInv'
    BY <2>1 DEF BeatInv
  <2> QED
    BY <2>4, <2>5, <2>6, <2>7, <2>8, <2>9, <2>10, <2>11, <2>12 DEF IInv
<1> QED
  BY <1>5, <1>6

-----------------------------------------------------------------------------
(* The actions                                                             *)

\* A start that fails while no client is up, or leaves an open ssh connection behind.
LEMMA ThrowsKeeps ==
    ASSUME IInv, NEW i \in Starts, NEW slip \in SUBSET Slips, Throws(i, slip),
           starts[i].at \notin {"none", "opening", "over", "rejected"},
           failures' \in 0 .. MaxFailures, failures <= failures',
           i = 1 /\ line # "up" => \A j \in Starts : starts[j].client \notin Alive
    PROVE  IInv'
<1> DEFINE x == IF i = 1 THEN "rejected" ELSE "over"
<1>1. /\ starts' = Moved(i, x) /\ ended' = (ended \/ i = 1)
      /\ slips' = slips \cup (IF i = 1 THEN (IF line = "up" THEN {"leaked"} ELSE {}) ELSE IF Wanted THEN slip ELSE {})
      /\ UNCHANGED <<kind, conn, control, count, beat, line, closes>>
  BY DEF Throws
<1>2. slips \subseteq slips' /\ slips' \subseteq Slips /\ ended' \in BOOLEAN /\ count \in 0 .. count
  BY <1>1, ConnectionAssumption DEF IInv, TypeInv, Slips
<1>3. ended' /\ "leaked" \notin slips' /\ ~(ended /\ "leaked" \notin slips) =>
         line # "up" /\ \A j \in Starts : starts[j].client \notin Alive
  BY <1>1
<1>4. x \notin Waiting /\ x \notin Early
  BY DEF Waiting, Early
<1> HIDE DEF Waiting, Early
<1> QED
  BY <1>1, <1>2, <1>3, <1>4, MovingKeeps

\* What Fails and Breaks leave of the bound.
LEMMA FailureFacts ==
    ASSUME TypeInv
    PROVE  /\ failures \in 0 .. MaxFailures /\ failures <= failures
           /\ Fails \/ Breaks => failures' \in 0 .. MaxFailures /\ failures <= failures'
           /\ Fails => failures' = failures + 1
           /\ UNCHANGED failures => failures' \in 0 .. MaxFailures /\ failures <= failures'
BY ConnectionAssumption DEF TypeInv, Fails, MayFail, Breaks

LEMMA GoesKeeps ==
    ASSUME IInv, NEW i \in Starts, NEW x, Goes(i, x), UNCHANGED <<failures, slips>>,
           x \in {"parking", "unparking", "probing", "over"},
           starts[i].at \notin {"none", "opening"},
           x = "parking" => beat.asked = 0,
           x \in Waiting => starts[i].at \in Waiting,
           i = 1 => /\ x \in Early => starts[i].at \in Early
                    /\ x # "probing"
                    /\ x = "over" => starts[i].at = "snapshot"
    PROVE  IInv'
<1>1. /\ starts' = Moved(i, x)
      /\ UNCHANGED <<kind, conn, control, count, beat, line, ended, closes>>
  BY DEF Goes
<1>2. /\ count' \in 0 .. count /\ failures' \in 0 .. MaxFailures /\ failures <= failures'
      /\ slips' \subseteq Slips /\ ended' \in BOOLEAN
  BY <1>1, ConnectionAssumption DEF IInv, TypeInv
<1> HIDE DEF Waiting, Early
<1> QED
  BY <1>1, <1>2, MovingKeeps

\* connect() on its way to the first client
LEMMA ConnectKeeps == ASSUME IInv, Resolved \/ Prepared \/ FirstSnapshot PROVE IInv'
<1>1. TypeInv /\ 1 \in Starts /\ {} \in SUBSET Slips
  BY ConnectionAssumption DEF IInv, Starts
<1>2. starts[1].at \in {"resolving", "preparing"} =>
         starts[1].at \in Waiting /\ starts[1].at \in Early /\ control = 0 /\ beat.asked = 0
  BY <1>1 DEF IInv, WaitingInv, EarlyInv, Waiting, Early
<1>3. kind = "ssh" /\ line # "up" => \A j \in Starts : starts[j].client \notin Alive
  BY DEF IInv, LineInv
<1>4. control = 0 => \A j \in Starts : starts[j].client \notin Alive
  BY DEF IInv, ClientInv, Starts
<1>5. CASE Resolved
  <2>1. CASE Fails /\ Throws(1, {})
    BY <1>1, <1>2, <1>4, <1>5, <2>1, ThrowsKeeps, FailureFacts DEF Resolved, At
  <2>2. CASE /\ starts' = Moved(1, "preparing") /\ line' = "up"
             /\ slips' = slips \cup (IF ended THEN {"leaked"} ELSE {})
             /\ UNCHANGED <<kind, conn, control, count, beat, ended, closes, failures>>
    <3>1. /\ starts' \in [Starts -> StartType]
          /\ \A j \in Starts : /\ starts'[j].at = IF j = 1 THEN "preparing" ELSE starts[j].at
                               /\ starts'[j].client = starts[j].client
      <4>1. [at |-> "preparing", client |-> "none"] \in StartType
        BY DEF StartType
      <4> QED
        BY <1>1, <2>2, <4>1, MovedFacts
    <3>2. starts[1].at = "resolving" /\ line = "none" /\ starts'[1].at = "preparing" /\ kind = "ssh"
      BY <1>1, <1>5, <3>1 DEF Resolved, At, IInv, LineInv, TypeInv
    <3>3. TypeInv'
      BY <1>1, <2>2, <3>1 DEF TypeInv, Slips
    <3>4. PlacesInv' /\ EarlyInv' /\ WaitingInv'
      BY <1>2, <2>2, <3>1, <3>2 DEF IInv, PlacesInv, EarlyInv, WaitingInv, Early, Waiting
    <3>5. ClientInv'
      BY <1>2, <1>4, <2>2, <3>1, <3>2 DEF IInv, ClientInv
    <3>6. LineInv'
      BY <1>2, <1>4, <2>2, <3>1, <3>2 DEF LineInv
    <3>7. CloseInv' /\ CountInv'
      BY <1>1, <2>2, <3>1, <3>2, ConnectionAssumption DEF IInv, CloseInv, CountInv, EarlyInv, Early
    <3>8. BudgetInv' /\ BeatInv'
      BY <1>2, <2>2, <3>1, <3>2 DEF IInv, BudgetInv, BeatInv, Doomed
    <3> QED
      BY <3>3, <3>4, <3>5, <3>6, <3>7, <3>8 DEF IInv
  <2> QED
    BY <1>5, <2>1, <2>2 DEF Resolved
<1>6. CASE Prepared
  <2>1. starts[1].at = "preparing"
    BY <1>6 DEF Prepared, At
  <2>2. CASE Goes(1, "parking") /\ UNCHANGED <<failures, slips>>
    BY <1>1, <1>2, <2>1, <2>2, GoesKeeps
  <2>3. CASE (Fails \/ Breaks) /\ Throws(1, {})
    BY <1>1, <1>2, <1>4, <2>1, <2>3, ThrowsKeeps, FailureFacts
  <2> QED
    BY <1>6, <2>2, <2>3 DEF Prepared
<1>7. CASE FirstSnapshot
  <2>1. starts[1].at = "snapshot"
    BY <1>7 DEF FirstSnapshot, At
  <2>2. CASE Goes(1, "over") /\ UNCHANGED <<failures, slips>>
    BY <1>1, <2>1, <2>2, GoesKeeps DEF Waiting, Early
  <2>3. CASE kind = "ssh" /\ Breaks /\ Throws(1, {})
    BY <1>1, <1>3, <2>1, <2>3, ThrowsKeeps, FailureFacts
  <2> QED
    BY <1>7, <2>2, <2>3 DEF FirstSnapshot
<1> QED
  BY <1>5, <1>6, <1>7

\* The client is spawned, or opened.
LEMMA SpawnKeeps == ASSUME IInv, NEW i \in Starts, Parked(i) \/ Opened(i) PROVE IInv'
<1>1. TypeInv
  BY DEF IInv
<1>2. kind = "ssh" /\ line # "up" => \A j \in Starts : starts[j].client \notin Alive
  BY DEF IInv, LineInv
<1>3. starts[i].at = "parking" => control = 0
  BY DEF IInv, WaitingInv, Waiting
<1>4. control = 0 => \A j \in Starts : starts[j].client \notin Alive
  BY DEF IInv, ClientInv, Starts
<1>5. ASSUME NEW x \in {"opening", "attaching", "unparking"}, NEW c \in {"opening", "up", "void"},
             \/ starts' = [starts EXCEPT ![i] = [at |-> x, client |-> c]]
             \/ starts' = [Moved(i, x) EXCEPT ![i].client = c]
      PROVE  /\ starts' \in [Starts -> StartType]
             /\ \A j \in Starts : /\ starts'[j].at = IF j = i THEN x ELSE starts[j].at
                                  /\ starts'[j].client = IF j = i THEN c ELSE starts[j].client
  <2>1. [at |-> x, client |-> c] \in StartType
    BY DEF StartType, Alive
  <2>2. /\ Moved(i, x) \in [Starts -> StartType]
        /\ \A j \in Starts : /\ Moved(i, x)[j].at = IF j = i THEN x ELSE starts[j].at
                             /\ Moved(i, x)[j].client = starts[j].client
    BY <1>1, <2>1, MovedFacts
  <2>3. CASE starts' = [starts EXCEPT ![i] = [at |-> x, client |-> c]]
    BY <1>1, <2>1, <2>3 DEF TypeInv
  <2>4. CASE starts' = [Moved(i, x) EXCEPT ![i].client = c]
    BY <1>5, <2>2, <2>4 DEF StartType, Alive
  <2> QED
    BY <1>5, <2>3, <2>4
<1>6. beat \in [on : BOOLEAN, asked : Starts \cup {0}, timer : BOOLEAN] /\ slips \subseteq Slips
  BY <1>1 DEF TypeInv
<1>7. CASE Parked(i)
  <2>1. starts[i].at = "parking"
    BY <1>7 DEF Parked, At
  <2>2. CASE /\ kind = "local"
             /\ starts' = [starts EXCEPT ![i] = [at |-> "attaching", client |-> "up"]]
             /\ control' = i
             /\ slips' = slips \cup (IF ended THEN {"leaked"} ELSE {})
             /\ UNCHANGED <<kind, conn, count, beat, line, ended, closes, failures>>
    <3>1. /\ starts' \in [Starts -> StartType]
          /\ \A j \in Starts : /\ starts'[j].at = IF j = i THEN "attaching" ELSE starts[j].at
                               /\ starts'[j].client = IF j = i THEN "up" ELSE starts[j].client
      BY <1>5, <2>2
    <3>2. ~Doomed' /\ "up" \in Alive /\ slips' \subseteq Slips
      BY <1>6, <2>2, <3>1 DEF Doomed, Alive, Slips
    <3> HIDE DEF Doomed
    <3> QED
      BY <1>1, <1>6, <2>1, <2>2, <3>1, <3>2, ClientKeeps, FailureFacts
  <2>3. CASE /\ kind = "local" /\ Fails /\ starts' = [Moved(i, "unparking") EXCEPT ![i].client = "void"]
             /\ UNCHANGED <<kind, conn, control, count, beat, line, ended, closes, slips>>
    <3>1. /\ starts' \in [Starts -> StartType]
          /\ \A j \in Starts : /\ starts'[j].at = IF j = i THEN "unparking" ELSE starts[j].at
                               /\ starts'[j].client = IF j = i THEN "void" ELSE starts[j].client
      BY <1>5, <2>3
    <3>2. ~Doomed' /\ "void" \notin Alive
      BY <1>3, <2>1, <2>3 DEF Doomed, Alive
    <3>3. failures' \in 0 .. MaxFailures /\ failures <= failures'
      BY <1>1, <2>3, FailureFacts
    <3>4. /\ UNCHANGED <<kind, conn, control, beat, line, closes, count, ended>>
          /\ slips \subseteq slips' /\ slips' \subseteq Slips
      BY <1>6, <2>3
    <3>5. beat' \in [on : BOOLEAN, asked : Starts \cup {0}, timer : BOOLEAN] /\ beat'.asked = beat.asked
      BY <1>6, <3>4
    <3> HIDE DEF Doomed, Alive, Slips, IInv
    <3>6. \/ "unparking" = starts[i].at
          \/ starts[i].at = "parking" /\ "unparking" \in {"opening", "attaching", "unparking"}
          \/ starts[i].at = "opening" /\ "unparking" \in {"attaching", "unparking"}
      BY <2>1
    <3>7. Doomed' => Doomed \/ failures' = failures + 1
      BY <3>2
    <3>8. /\ "unparking" = "opening" <=> "void" = "opening"
          /\ "unparking" = "opening" /\ "unparking" # starts[i].at => kind = "ssh" /\ line = "up" /\ control' = i
          /\ \/ control' = control
             \/ control' = i /\ starts[i].at = "parking" /\ "unparking" # "parking"
             \/ control' = 0 /\ control = i /\ "void" = "gone"
      BY <3>4
    <3>9. /\ "void" \in Alive => control' = i /\ (kind = "ssh" => line = "up")
          /\ "void" \in Alive /\ ended /\ "leaked" \notin slips' => starts[i].client \in Alive \/ line = "up"
      BY <3>2
    <3> QED
      BY <3>1, <3>3, <3>4, <3>5, <3>6, <3>7, <3>8, <3>9, ClientKeeps, SMTT(30)
  <2>4. CASE /\ kind = "ssh" /\ Answers
             /\ starts' = [starts EXCEPT ![i] = [at |-> "opening", client |-> "opening"]]
             /\ control' = i
             /\ UNCHANGED <<kind, conn, count, beat, line, ended, closes, failures, slips>>
    <3>1. /\ starts' \in [Starts -> StartType]
          /\ \A j \in Starts : /\ starts'[j].at = IF j = i THEN "opening" ELSE starts[j].at
                               /\ starts'[j].client = IF j = i THEN "opening" ELSE starts[j].client
      BY <1>5, <2>4
    <3>2. ~Doomed' /\ "opening" \notin Alive /\ line = "up"
      BY <2>4, <3>1 DEF Doomed, Alive, Answers
    <3> HIDE DEF Doomed
    <3> QED
      BY <1>1, <1>6, <2>1, <2>4, <3>1, <3>2, ClientKeeps, FailureFacts
  <2>5. CASE kind = "ssh" /\ Breaks /\ Throws(i, {"dropped"})
    <3>1. {"dropped"} \in SUBSET Slips
      BY DEF Slips
    <3> QED
      BY <1>1, <1>2, <2>1, <2>5, <3>1, ThrowsKeeps, FailureFacts
  <2> QED
    BY <1>7, <2>2, <2>3, <2>4, <2>5 DEF Parked
<1>8. CASE Opened(i)
  <2>1. starts[i].at = "opening" /\ UNCHANGED <<kind, conn, control, count, beat, line, ended, closes, slips>>
    BY <1>8 DEF Opened, At
  <2>2. CASE line = "up" /\ UNCHANGED failures /\ starts' = [starts EXCEPT ![i] = [at |-> "attaching", client |-> "up"]]
    <3>1. /\ starts' \in [Starts -> StartType]
          /\ \A j \in Starts : /\ starts'[j].at = IF j = i THEN "attaching" ELSE starts[j].at
                               /\ starts'[j].client = IF j = i THEN "up" ELSE starts[j].client
      BY <1>5, <2>2
    <3>2. control = i
      BY <2>1, <2>2 DEF IInv, ClientInv
    <3>3. ~Doomed' /\ "up" \in Alive
      BY <2>1, <3>1, <3>2 DEF Doomed, Alive
    <3> HIDE DEF Doomed
    <3> QED
      BY <1>1, <1>6, <2>1, <2>2, <3>1, <3>2, <3>3, ClientKeeps, FailureFacts
  <2>3. CASE Breaks /\ starts' = [starts EXCEPT ![i] = [at |-> "unparking", client |-> "void"]]
    <3>1. /\ starts' \in [Starts -> StartType]
          /\ \A j \in Starts : /\ starts'[j].at = IF j = i THEN "unparking" ELSE starts[j].at
                               /\ starts'[j].client = IF j = i THEN "void" ELSE starts[j].client
      BY <1>5, <2>3
    <3>2. (Doomed' => Doomed) /\ "void" \notin Alive
      BY <1>1, <2>1, <3>1 DEF Doomed, Alive, TypeInv
    <3> HIDE DEF Doomed
    <3> QED
      BY <1>1, <1>6, <2>1, <2>3, <3>1, <3>2, ClientKeeps, FailureFacts
  <2> QED
    BY <1>8, <2>1, <2>2, <2>3 DEF Opened
<1> QED
  BY <1>7, <1>8

\* The client is attached, and the start is over.
LEMMA AttachKeeps == ASSUME IInv, NEW i \in Starts, Attached(i) \/ Unparked(i) PROVE IInv'
<1>1. TypeInv /\ 1 \in Starts /\ {} \in SUBSET Slips /\ {"dropped"} \in SUBSET Slips
  BY ConnectionAssumption DEF IInv, Starts, Slips
<1>2. kind = "ssh" /\ line # "up" => \A j \in Starts : starts[j].client \notin Alive
  BY DEF IInv, LineInv
<1>3. CASE Attached(i)
  BY <1>3, GoesKeeps DEF Attached, At, Waiting, Early
<1>4. CASE Unparked(i)
  <2>1. starts[i].at = "unparking"
    BY <1>4 DEF Unparked, At
  <2>2. CASE /\ Answers /\ StillCurrent(i)
             /\ beat' = NewBeat
             /\ conn' = [conn EXCEPT !.connected = @ \/ i = 1]
             /\ starts' = Moved(i, IF i = 1 THEN "snapshot" ELSE "over")
             /\ UNCHANGED <<kind, control, count, line, ended, closes, failures, slips>>
    <3> DEFINE x == IF i = 1 THEN "snapshot" ELSE "over"
    <3>1. /\ starts' \in [Starts -> StartType]
          /\ \A j \in Starts : /\ starts'[j].at = IF j = i THEN x ELSE starts[j].at
                               /\ starts'[j].client = starts[j].client
      <4>1. [at |-> x, client |-> "none"] \in StartType
        BY DEF StartType
      <4> QED
        BY <1>1, <2>2, <4>1, MovedFacts
    <3>2. /\ conn' \in [connected : BOOLEAN, manual : BOOLEAN, notified : BOOLEAN]
          /\ conn'.connected = (conn.connected \/ i = 1) /\ conn'.manual = conn.manual /\ conn'.notified = conn.notified
      BY <1>1, <2>2 DEF TypeInv
    <3>3. /\ beat' \in [on : BOOLEAN, asked : Starts \cup {0}, timer : BOOLEAN] /\ beat'.asked = 0
      BY <2>2 DEF NewBeat, NoBeat
    <3>4. i = 1 => /\ ~conn.notified /\ closes # 1 /\ count = 0
                   /\ \A j \in Starts : j # 1 => starts[j].at = "none"
      BY <2>1, <2>2 DEF IInv, EarlyInv, CloseInv, Early, Answers
    <3>5. TypeInv'
      BY <1>1, <2>2, <3>1, <3>2, <3>3 DEF TypeInv
    <3>6. PlacesInv' /\ EarlyInv' /\ WaitingInv'
      <4>1. PlacesInv'
        BY <1>1, <3>1 DEF IInv, PlacesInv
      <4>2. EarlyInv'
        <5>1. starts'[1].at \notin Early
          BY <1>1, <2>1, <3>1 DEF IInv, EarlyInv, Early
        <5> QED
          BY <5>1 DEF EarlyInv
      <4>3. WaitingInv'
        BY <2>2, <3>1, <3>3 DEF IInv, WaitingInv, Waiting
      <4> QED
        BY <4>1, <4>2, <4>3
    <3>7. ClientInv'
      BY <1>1, <2>1, <2>2, <3>1 DEF IInv, ClientInv, TypeInv, Waiting
    <3>8. LineInv'
      BY <1>1, <2>1, <2>2, <3>1 DEF IInv, LineInv
    <3>9. CloseInv'
      BY <1>1, <2>1, <2>2, <3>1, <3>2, <3>4 DEF IInv, CloseInv
    <3>10. CountInv'
      <4>1. CASE i = 1
        <5>1. count' # MaxRestarts + 1
          BY <2>2, <3>4, <4>1, ConnectionAssumption
        <5> QED
          BY <5>1 DEF CountInv
      <4>2. CASE i # 1
        <5>1. \A j \in Starts : starts'[j].at \in Waiting => starts[j].at \in Waiting
          BY <3>1 DEF Waiting
        <5> QED
          BY <1>1, <2>2, <3>2, <4>2, <5>1 DEF IInv, CountInv, TypeInv
      <4> QED
        BY <4>1, <4>2
    <3>11. BudgetInv'
      <4>1. Doomed' => Doomed
        BY <1>1, <2>2, <3>1, <3>2 DEF Doomed, TypeInv
      <4>2. \A j \in Starts : starts'[j].at # "none" => starts[j].at # "none"
        BY <2>1, <3>1
      <4> QED
        BY <2>2, <4>1, <4>2 DEF IInv, BudgetInv
    <3>12. BeatInv'
      BY <3>3 DEF BeatInv
    <3> QED
      BY <3>5, <3>6, <3>7, <3>8, <3>9, <3>10, <3>11, <3>12 DEF IInv
  <2>3. CASE /\ Answers /\ ~StillCurrent(i) /\ UNCHANGED failures
             /\ Throws(i, IF starts[i].client = "void" THEN {"dropped"} ELSE {})
    <3>1. i = 1 /\ line # "up" => \A j \in Starts : starts[j].client \notin Alive
      <4> SUFFICES ASSUME i = 1, line # "up", NEW j \in Starts, starts[j].client \in Alive PROVE FALSE
        OBVIOUS
      <4>1. j = control /\ starts[control].at \notin Waiting \cup {"none"}
        BY <1>1 DEF IInv, ClientInv, Starts
      <4>2. control = 1
        BY <2>1, <4>1 DEF IInv, EarlyInv, Early
      <4> QED
        BY <2>3, <4>1, <4>2 DEF StillCurrent, Alive
    <3> QED
      BY <1>1, <2>1, <2>3, <3>1, ThrowsKeeps, FailureFacts
  <2>4. CASE kind = "ssh" /\ Breaks /\ Throws(i, {"dropped"})
    BY <1>1, <1>2, <2>1, <2>4, ThrowsKeeps, FailureFacts
  <2> QED
    BY <1>4, <2>2, <2>3, <2>4 DEF Unparked
<1> QED
  BY <1>3, <1>4

\* A restart waits, asks for the session, and waits again.
LEMMA RestartKeeps == ASSUME IInv, NEW i \in Starts, Delayed(i) \/ Probed(i) \/ BackedOff(i) PROVE IInv'
<1>1. TypeInv /\ 1 \in Starts /\ {"dropped"} \in SUBSET Slips
  BY ConnectionAssumption DEF IInv, Starts, Slips
<1>2. starts[i].at \in {"delay", "probing", "backoff"}
  BY DEF Delayed, Probed, BackedOff, At
<1>3. i # 1 /\ starts[i].at \in Waiting /\ starts[1].at \notin Early
  BY <1>1, <1>2 DEF IInv, PlacesInv, EarlyInv, Early, Waiting
<1>4. control = 0 /\ count # MaxRestarts + 1 /\ \A j \in Starts : j # i => starts[j].at \notin Waiting
  BY <1>3 DEF IInv, WaitingInv, CountInv
<1>5. \A j \in Starts : starts[j].client \notin Alive
  BY <1>4 DEF IInv, ClientInv, Starts
<1>6. CASE Delayed(i)
  <2>1. CASE Wanted
    BY <1>2, <1>3, <1>6, <2>1, GoesKeeps DEF Delayed, Waiting
  <2>2. CASE ~Wanted
    <3>1. "over" \notin Waiting
      BY DEF Waiting
    <3> QED
      BY <1>2, <1>3, <1>6, <2>2, <3>1, GoesKeeps DEF Delayed
  <2> QED
    BY <2>1, <2>2
<1>7. CASE Probed(i)
  <2>1. starts[i].at = "probing" /\ kind' = kind
    BY <1>7 DEF Probed, At
  <2>2. "over" \notin Waiting /\ "backoff" \notin Early /\ {"parking", "backoff"} \subseteq Waiting
    BY DEF Waiting, Early
  <2>3. CASE Goes(i, "over") /\ UNCHANGED <<failures, slips>>
    BY <1>3, <2>1, <2>2, <2>3, GoesKeeps
  <2>4. CASE /\ starts' = Moved(i, "parking") /\ beat' = Cleared
             /\ UNCHANGED <<conn, control, count, line, ended, closes, failures, slips>>
    <3>1. /\ count' \in 0 .. count /\ failures' \in 0 .. MaxFailures /\ failures <= failures'
          /\ slips' \subseteq Slips /\ ended' \in BOOLEAN
      BY <1>1, <2>4, ConnectionAssumption DEF TypeInv
    <3>2. beat' = NoBeat /\ beat'.asked = 0
      BY <2>4 DEF Cleared, NoBeat
    <3> HIDE DEF Waiting, Early
    <3> QED
      BY <1>3, <2>1, <2>2, <2>4, <3>1, <3>2, MovingKeeps
  <2>5. CASE /\ Fails /\ ShutdownInternal(Moved(i, "over"), conn.manual)
             /\ UNCHANGED <<count, slips>>
    <3> DEFINE s == Moved(i, "over")
    <3>1. /\ s \in [Starts -> StartType]
          /\ \A j \in Starts : s[j].at = (IF j = i THEN "over" ELSE starts[j].at) /\ s[j].client = starts[j].client
      <4>1. [at |-> "over", client |-> "none"] \in StartType
        BY DEF StartType
      <4> QED
        BY <1>1, <4>1, MovedFacts
    <3>2. failures' \in 0 .. MaxFailures /\ failures <= failures' /\ count' \in 0 .. MaxRestarts + 1
      BY <1>1, <2>5, FailureFacts DEF TypeInv
    <3>3. \A j \in Starts : starts[j].at # "none" => j <= failures' + 1
      <4> SUFFICES ASSUME NEW j \in Starts, starts[j].at # "none" PROVE j <= failures' + 1
        OBVIOUS
      <4>1. failures \in Nat /\ failures' \in Nat /\ j \in Nat
        BY <1>1, <3>2, ConnectionAssumption DEF TypeInv, Starts
      <4> QED
        BY <3>2, <4>1, BudgetGrows DEF IInv, BudgetInv
    <3>4. ShutdownInternal(s, conn.manual) /\ conn.manual \in BOOLEAN
      BY <1>1, <2>5 DEF TypeInv
    <3> HIDE DEF s
    <3>5. \A j \in Starts :
              /\ s[j].at = starts[j].at \/ (j # 1 /\ starts[j].at # "opening" /\ s[j].at = "over")
              /\ s[j].client = starts[j].client
              /\ s[j].at # "none" => j <= failures' + 1
      BY <1>2, <1>3, <3>1, <3>3
    <3> QED
      BY <1>3, <1>4, <2>1, <2>5, <3>1, <3>2, <3>4, <3>5, ShuttingKeeps
  <2>6. CASE /\ kind = "local" /\ Fails
             /\ count' = IF count > 0 THEN count - 1 ELSE 0
             /\ starts' = Moved(i, IF Wanted THEN "backoff" ELSE "over")
             /\ UNCHANGED <<conn, control, beat, line, ended, closes, slips>>
    <3> DEFINE x == IF Wanted THEN "backoff" ELSE "over"
    <3>1. /\ count' \in 0 .. count /\ slips' \subseteq Slips /\ ended' \in BOOLEAN
      BY <1>1, <2>6, ConnectionAssumption DEF TypeInv
    <3>2. failures' \in 0 .. MaxFailures /\ failures <= failures'
      BY <1>1, <2>6, FailureFacts
    <3>3. x \in {"backoff", "over"} /\ starts' = Moved(i, x)
      BY <2>6
    <3> HIDE DEF x, Waiting, Early
    <3> QED
      BY <1>3, <2>1, <2>6, <3>1, <3>2, <3>3, MovingKeeps
  <2>7. CASE kind = "ssh" /\ Breaks /\ Throws(i, {"dropped"})
    BY <1>1, <1>5, <2>1, <2>7, ThrowsKeeps, FailureFacts
  <2> QED
    BY <1>7, <2>1, <2>3, <2>4, <2>5, <2>6, <2>7 DEF Probed
<1>8. CASE BackedOff(i)
  <2>1. starts[i].at = "backoff" /\ Reconnect(starts, i) /\ UNCHANGED <<kind, failures, slips>>
    BY <1>8 DEF BackedOff, At
  <2>2. count <= MaxRestarts /\ failures' \in 0 .. MaxFailures /\ failures <= failures' /\ i <= failures' + 1
    BY <1>1, <1>4, <2>1, ConnectionAssumption DEF IInv, BudgetInv, TypeInv
  <2>3. \A j \in Starts : starts[j].client = "opening" => line = "down"
    BY <1>4 DEF IInv, ClientInv, Starts
  <2> QED
    BY <1>1, <1>3, <1>4, <1>5, <2>1, <2>2, <2>3, ReconnectKeeps DEF TypeInv
<1> QED
  BY <1>6, <1>7, <1>8

\* A restart takes the least number that no start has had.
LEMMA NewStartFacts ==
    ASSUME NEW s, NEW n \in Starts, s[n].at = "none"
    PROVE  NewStart(s) \in Starts /\ s[NewStart(s)].at = "none" /\ NewStart(s) <= n
<1> DEFINE T == {i \in Starts : s[i].at = "none"}
<1>1. Starts \subseteq Nat
  BY ConnectionAssumption DEF Starts
<1>2. PICK m \in T : \A j \in T : ~(<<j, m>> \in OpToRel(<, Nat))
  <2>1. T \subseteq Nat /\ T # {}
    BY <1>1
  <2> QED
    BY <2>1, NatLessThanWellFounded, WFMin
<1>3. ASSUME NEW j \in T PROVE m <= j
  <2>1. <<j, m>> \in Nat \X Nat /\ <<j, m>>[1] = j /\ <<j, m>>[2] = m
    BY <1>1
  <2>2. ~(j < m) /\ j \in Nat /\ m \in Nat
    BY <1>1, <1>2, <2>1 DEF OpToRel
  <2> HIDE DEF T
  <2> QED
    BY <2>2
<1>4. \E i \in Starts : s[i].at = "none" /\ \A j \in Starts : s[j].at = "none" => i <= j
  BY <1>3
<1> QED
  BY <1>4 DEF NewStart

\* A client ends: an old one, one that nobody wants any more, or the current one.
LEMMA ClientEndsKeeps == ASSUME IInv, NEW i \in Starts, ClientEnds(i) PROVE IInv'
<1> DEFINE s == [starts EXCEPT ![i].client = "gone"]
<1>1. TypeInv /\ 1 \in Starts /\ Starts \subseteq Nat
  BY ConnectionAssumption DEF IInv, Starts
<1>2. /\ s \in [Starts -> StartType]
      /\ \A j \in Starts : /\ s[j].at = starts[j].at
                           /\ s[j].client = IF j = i THEN "gone" ELSE starts[j].client
  BY <1>1 DEF TypeInv, StartType
<1>3. starts[i].client \in Alive \cup {"killed"} /\ UNCHANGED <<kind, slips>>
  BY DEF ClientEnds
<1>4. failures' \in 0 .. MaxFailures /\ failures <= failures'
  BY <1>1, FailureFacts DEF ClientEnds
<1>5. starts[i].at # "opening" /\ "gone" \notin Alive /\ starts[i].client # "opening"
  BY <1>3 DEF IInv, ClientInv, Alive
<1> HIDE DEF s
<1>6. CASE control # i \/ ~Wanted
  <2>1. /\ starts' = s /\ UNCHANGED <<conn, count, beat, line, ended, closes>>
        /\ control' = control \/ (control' = 0 /\ control = i)
    BY <1>6 DEF ClientEnds, s
  <2>2. Doomed' => Doomed
    BY <1>1, <1>2, <2>1 DEF Doomed, TypeInv, Wanted
  <2>3. /\ beat' \in [on : BOOLEAN, asked : Starts \cup {0}, timer : BOOLEAN] /\ beat'.asked = beat.asked
        /\ slips \subseteq slips' /\ slips' \subseteq Slips
    BY <1>1, <1>3, <2>1 DEF TypeInv
  <2>4. /\ starts' \in [Starts -> StartType]
        /\ \A j \in Starts : /\ starts'[j].at = IF j = i THEN starts[i].at ELSE starts[j].at
                             /\ starts'[j].client = IF j = i THEN "gone" ELSE starts[j].client
    BY <1>2, <2>1
  <2> HIDE DEF Doomed, Alive
  <2>7. PICK x : x = starts[i].at
    OBVIOUS
  <2>8. PICK c : c = "gone"
    OBVIOUS
  <2>9. /\ \A j \in Starts : /\ starts'[j].at = IF j = i THEN x ELSE starts[j].at
                             /\ starts'[j].client = IF j = i THEN c ELSE starts[j].client
        /\ x = "opening" <=> c = "opening"
        /\ x = "opening" /\ x # starts[i].at => kind = "ssh" /\ line = "up" /\ control' = i
        /\ c \in Alive => control' = i /\ (kind = "ssh" => line = "up")
        /\ c \in Alive /\ ended /\ "leaked" \notin slips' => starts[i].client \in Alive \/ line = "up"
        /\ \/ control' = control
           \/ control' = i /\ starts[i].at = "parking" /\ x # "parking"
           \/ control' = 0 /\ control = i /\ c = "gone"
    BY <1>5, <2>1, <2>4, <2>7, <2>8
  <2>10. UNCHANGED <<kind, conn, line, closes, count, ended>>
    BY <1>3, <2>1
  <2>11. \/ x = starts[i].at
         \/ starts[i].at = "parking" /\ x \in {"opening", "attaching", "unparking"}
         \/ starts[i].at = "opening" /\ x \in {"attaching", "unparking"}
    BY <2>7
  <2>12. Doomed' => Doomed \/ failures' = failures + 1
    BY <2>2
  <2> HIDE DEF Doomed, StartType, Slips
  <2> QED
    BY <1>4, <2>3, <2>4, <2>9, <2>10, <2>11, <2>12, ClientKeeps
<1>7. CASE control = i /\ Wanted
  <2>1. Reconnect(s, NewStart(s))
    BY <1>7 DEF ClientEnds, s
  <2>2. count <= MaxRestarts /\ starts[1].at \notin Early /\ \A j \in Starts : starts[j].at \notin Waiting
    <3>1. count # MaxRestarts + 1 /\ starts[1].at \notin Early
      BY <1>7 DEF IInv, CountInv, EarlyInv, Wanted
    <3>2. \A j \in Starts : starts[j].at \notin Waiting
      BY <1>1, <1>7 DEF IInv, WaitingInv, Starts
    <3> QED
      BY <1>1, <3>1, <3>2, ConnectionAssumption DEF TypeInv
  <2>3. \A j \in Starts : /\ s[j].client = starts[j].client \/ (starts[j].client # "opening" /\ s[j].client = "gone")
                          /\ s[j].client \notin Alive
                          /\ s[j].client = "opening" => line = "down"
    <3>1. \A j \in Starts : j # i => starts[j].client \notin Alive /\ (starts[j].client = "opening" => line = "down")
      BY <1>7 DEF IInv, ClientInv
    <3> QED
      BY <1>2, <1>5, <3>1
  <2>4. \A j \in Starts : starts[j].at # "none" => j <= failures + 1
    BY DEF IInv, BudgetInv
  <2>5. failures \in Nat /\ failures' \in Nat /\ failures <= MaxFailures
    BY <1>1, <1>4, ConnectionAssumption DEF TypeInv
  <2>6. failures' + 1 \in Starts /\ starts[failures' + 1].at = "none"
    <3>1. CASE starts[i].client \in Alive /\ Fails
      <4>1. failures' = failures + 1 /\ failures + 2 \in Starts
        BY <2>5, <3>1, ConnectionAssumption DEF Fails, MayFail, Starts
      <4>2. ~(failures + 2 <= failures + 1)
        BY <2>5
      <4> QED
        BY <2>4, <2>5, <4>1, <4>2
    <3>2. CASE starts[i].client = "killed" /\ UNCHANGED failures
      <4>1. Doomed
        BY <1>7, <3>2 DEF Doomed, Wanted, Starts
      <4>2. \A j \in Starts : starts[j].at # "none" => j <= failures
        BY <4>1 DEF IInv, BudgetInv
      <4>3. failures' + 1 \in Starts /\ ~(failures' + 1 <= failures)
        BY <2>5, <3>2, ConnectionAssumption DEF Starts
      <4> QED
        BY <4>2, <4>3
    <3> QED
      BY <3>1, <3>2 DEF ClientEnds
  <2>7. NewStart(s) \in Starts /\ starts[NewStart(s)].at = "none" /\ NewStart(s) <= failures' + 1
    BY <1>2, <2>6, NewStartFacts
  <2>8. NewStart(s) # 1
    BY <2>7 DEF IInv, PlacesInv, Early
  <2> QED
    BY <1>2, <1>3, <1>4, <2>1, <2>2, <2>3, <2>7, <2>8, ReconnectKeeps
<1> QED
  BY <1>6, <1>7

\* A client falls silent, and the heartbeat finds that out.
LEMMA SilenceKeeps == ASSUME IInv, (\E i \in Starts : Stalls(i)) \/ HeartbeatTimesOut PROVE IInv'
<1>1. TypeInv
  BY DEF IInv
<1>2. ASSUME NEW i \in Starts, NEW c \in {"mute", "killed"}, starts' = [starts EXCEPT ![i].client = c]
      PROVE  /\ starts' \in [Starts -> StartType]
             /\ \A j \in Starts : /\ starts'[j].at = IF j = i THEN starts[i].at ELSE starts[j].at
                                  /\ starts'[j].client = IF j = i THEN c ELSE starts[j].client
  BY <1>1, <1>2 DEF TypeInv, StartType, Alive
<1>3. ASSUME NEW i \in Starts, Stalls(i) PROVE IInv'
  <2>1. /\ starts[i].client = "up" /\ Fails /\ starts' = [starts EXCEPT ![i].client = "mute"]
        /\ UNCHANGED <<kind, conn, control, count, beat, line, ended, closes, slips>>
    BY <1>3 DEF Stalls
  <2>2. control = i /\ starts[i].at # "opening" /\ (kind = "ssh" => line = "up")
    BY <1>1, <2>1 DEF IInv, ClientInv, LineInv, Alive, TypeInv
  <2>3. failures' \in 0 .. MaxFailures /\ failures <= failures' /\ failures' = failures + 1
    BY <1>1, <2>1, FailureFacts
  <2>4. /\ beat' \in [on : BOOLEAN, asked : Starts \cup {0}, timer : BOOLEAN] /\ beat'.asked = beat.asked
        /\ slips \subseteq slips' /\ slips' \subseteq Slips
    BY <1>1, <2>1 DEF TypeInv
  <2>5. /\ starts' \in [Starts -> StartType]
        /\ \A j \in Starts : /\ starts'[j].at = IF j = i THEN starts[i].at ELSE starts[j].at
                             /\ starts'[j].client = IF j = i THEN "mute" ELSE starts[j].client
    BY <1>2, <2>1
  <2>6. starts[i].client \in Alive
    BY <2>1 DEF Alive
  <2> HIDE DEF Doomed, Alive, StartType, Slips
  <2> QED
    BY <2>1, <2>2, <2>3, <2>4, <2>5, <2>6, ClientKeeps
<1>4. CASE HeartbeatTimesOut
  <2>1. /\ beat.timer /\ beat' = [beat EXCEPT !.timer = FALSE]
        /\ IF control # 0 /\ starts[control].client = "up" THEN Fails ELSE UNCHANGED failures
        /\ UNCHANGED <<kind, conn, control, count, line, ended, closes, slips>>
    BY <1>4 DEF HeartbeatTimesOut
  <2>2. /\ beat' \in [on : BOOLEAN, asked : Starts \cup {0}, timer : BOOLEAN] /\ beat'.asked = beat.asked
        /\ slips \subseteq slips' /\ slips' \subseteq Slips
    BY <1>1, <2>1 DEF TypeInv
  <2>3. failures' \in 0 .. MaxFailures /\ failures <= failures'
    BY <1>1, <2>1, FailureFacts
  <2>4. CASE starts' = starts
    <3>1. Doomed' => Doomed
      BY <2>1, <2>4 DEF Doomed
    <3>2. TypeInv'
      BY <1>1, <2>1, <2>2, <2>3, <2>4 DEF TypeInv
    <3>3. PlacesInv' /\ EarlyInv' /\ WaitingInv' /\ ClientInv' /\ LineInv' /\ CloseInv' /\ CountInv' /\ BeatInv'
      BY <2>1, <2>2, <2>4
      DEF IInv, PlacesInv, EarlyInv, WaitingInv, ClientInv, LineInv, CloseInv, CountInv, BeatInv
    <3>4. BudgetInv'
      <4>1. failures \in Nat /\ failures' \in Nat /\ Starts \subseteq Nat
        BY <1>1, <2>3, ConnectionAssumption DEF TypeInv, Starts
      <4>2. \A m, n, j \in Nat : m <= n /\ j <= m => j <= n
        OBVIOUS
      <4> HIDE DEF Doomed
      <4> QED
        BY <2>3, <2>4, <3>1, <4>1, <4>2, BudgetGrows DEF IInv, BudgetInv
    <3> QED
      BY <3>2, <3>3, <3>4 DEF IInv
  <2>5. CASE starts' # starts
    <3> DEFINE i == control
    <3>1. i \in Starts /\ control # 0 /\ Wanted /\ starts' = [starts EXCEPT ![i].client = Killed(@)]
      BY <1>1, <1>4, <2>5 DEF HeartbeatTimesOut, TypeInv
    <3>2. starts[i].client \in Alive
      <4> SUFFICES ASSUME starts[i].client \notin Alive PROVE FALSE
        OBVIOUS
      <4>1. starts' = starts
        BY <1>1, <3>1 DEF Killed, TypeInv, StartType
      <4> QED
        BY <2>5, <4>1
    <3>3. starts' = [starts EXCEPT ![i].client = "killed"]
      BY <3>1, <3>2 DEF Killed
    <3>4. /\ starts' \in [Starts -> StartType]
          /\ \A j \in Starts : /\ starts'[j].at = IF j = i THEN starts[i].at ELSE starts[j].at
                               /\ starts'[j].client = IF j = i THEN "killed" ELSE starts[j].client
      BY <1>2, <3>1, <3>3
    <3>5. Doomed \/ failures' = failures + 1
      BY <1>1, <2>1, <3>1, <3>2, FailureFacts DEF Doomed, Alive
    <3>6. starts[i].at # "opening" /\ "killed" \notin Alive
      BY <3>1, <3>2 DEF IInv, ClientInv, Alive
    <3>7. UNCHANGED <<kind, conn, line, closes, count, ended>> /\ control' = control
      BY <2>1
    <3>8. PICK x : x = starts[i].at
      OBVIOUS
    <3>9. PICK c : c = "killed"
      OBVIOUS
    <3>10. /\ \A j \in Starts : /\ starts'[j].at = IF j = i THEN x ELSE starts[j].at
                                /\ starts'[j].client = IF j = i THEN c ELSE starts[j].client
           /\ x # "opening" /\ c # "opening" /\ c \notin Alive
      BY <3>4, <3>6, <3>8, <3>9
    <3>11. i \in Starts /\ starts' \in [Starts -> StartType]
      BY <3>1, <3>4
    <3>12. \/ control' = control
           \/ control' = i /\ starts[i].at = "parking" /\ x # "parking"
           \/ control' = 0 /\ control = i /\ c = "gone"
      BY <3>7
    <3> HIDE DEF i, Doomed, Alive, StartType, Slips, IInv, Starts
    <3>13. \/ x = starts[i].at
           \/ starts[i].at = "parking" /\ x \in {"opening", "attaching", "unparking"}
           \/ starts[i].at = "opening" /\ x \in {"attaching", "unparking"}
      BY <3>8
    <3>14. (x = "opening") <=> (c = "opening")
      BY <3>10
    <3>15. (x = "opening" /\ x # starts[i].at) => (kind = "ssh" /\ line = "up" /\ control' = i)
      BY <3>10
    <3>16. c \in Alive => (control' = i /\ (kind = "ssh" => line = "up"))
      BY <3>10
    <3>17. (c \in Alive /\ ended /\ "leaked" \notin slips') => (starts[i].client \in Alive \/ line = "up")
      BY <3>10
    <3>18. Doomed' => (Doomed \/ failures' = failures + 1)
      BY <3>5
    <3>19. \A j \in Starts : /\ starts'[j].at = IF j = i THEN x ELSE starts[j].at
                             /\ starts'[j].client = IF j = i THEN c ELSE starts[j].client
      BY <3>10
    <3> QED
      BY <2>2, <2>3, <3>7, <3>11, <3>12, <3>13, <3>14, <3>15, <3>16, <3>17, <3>18, <3>19, ClientKeeps, SMTT(60)
  <2> QED
    BY <2>4, <2>5
<1> QED
  BY <1>3, <1>4

\* A heartbeat is sent, or answered.
LEMMA HeartbeatKeeps == ASSUME IInv, SendHeartbeat \/ OnHeartbeatResponse PROVE IInv'
<1>1. TypeInv
  BY DEF IInv
<1>2. /\ UNCHANGED <<kind, conn, starts, control, count, line, ended, closes, failures, slips>>
      /\ beat' \in [on : BOOLEAN, asked : Starts \cup {0}, timer : BOOLEAN]
      /\ beat'.asked = 0 \/ (Wanted /\ control # 0 /\ beat'.asked = control)
  BY <1>1 DEF SendHeartbeat, OnHeartbeatResponse, TypeInv
<1>3. TypeInv' /\ BeatInv'
  BY <1>1, <1>2 DEF TypeInv, BeatInv
<1>4. EarlyInv' /\ WaitingInv'
  BY <1>2 DEF IInv, EarlyInv, WaitingInv, Wanted
<1>5. PlacesInv' /\ ClientInv' /\ LineInv' /\ CloseInv' /\ CountInv'
  BY <1>2 DEF IInv, PlacesInv, ClientInv, LineInv, CloseInv, CountInv
<1>6. BudgetInv'
  <2>1. Doomed' = Doomed
    BY <1>2 DEF Doomed
  <2> HIDE DEF Doomed
  <2> QED
    BY <1>2, <2>1 DEF IInv, BudgetInv
<1> QED
  BY <1>3, <1>4, <1>5, <1>6 DEF IInv

\* The runtime lets the connection go, or the tmux server or the ssh connection ends it.
LEMMA EndKeeps == ASSUME IInv, Disconnect \/ ServerGone \/ SshLost PROVE IInv'
<1>1. TypeInv /\ 1 \in Starts
  BY ConnectionAssumption DEF IInv, Starts
<1>2. /\ failures' \in 0 .. MaxFailures /\ failures <= failures' /\ count' \in 0 .. MaxRestarts + 1
      /\ UNCHANGED <<kind, count, slips>>
  BY <1>1, FailureFacts DEF Disconnect, ServerGone, SshLost, TypeInv
<1>3. \A j \in Starts : starts[j].at # "none" => j <= failures' + 1
  <2> SUFFICES ASSUME NEW j \in Starts, starts[j].at # "none" PROVE j <= failures' + 1
    OBVIOUS
  <2>1. failures \in Nat /\ failures' \in Nat /\ j \in Nat
    BY <1>1, <1>2, ConnectionAssumption DEF TypeInv, Starts
  <2> QED
    BY <1>2, <2>1, BudgetGrows DEF IInv, BudgetInv
<1>4. starts[1].at \in Early => count' = 0 /\ ~Wanted
  BY <1>2 DEF IInv, EarlyInv, Wanted
<1>5. count' = MaxRestarts + 1 => \A i \in Starts : starts[i].at \notin Waiting
  BY <1>2 DEF IInv, CountInv
<1>6. ASSUME NEW m \in BOOLEAN, ShutdownInternal(starts, m), m \/ line = "up" \/ Wanted PROVE IInv'
  <2> HIDE DEF Waiting, Early
  <2> QED
    BY <1>1, <1>2, <1>3, <1>4, <1>5, <1>6, ShuttingKeeps DEF TypeInv
<1>7. CASE Disconnect \/ ServerGone
  BY <1>6, <1>7 DEF Disconnect, ServerGone
<1>8. CASE SshLost
  <2>1. CASE ~conn.manual
    BY <1>6, <1>8, <2>1 DEF SshLost
  <2>2. CASE conn.manual
    <3>1. /\ line = "up" /\ line' = "down" /\ starts' = Hung
          /\ UNCHANGED <<kind, conn, control, count, beat, ended, closes, slips>>
      BY <1>8, <2>2 DEF SshLost
    <3>2. /\ starts' \in [Starts -> StartType]
          /\ \A i \in Starts : starts'[i].at = starts[i].at /\ starts'[i].client = Killed(starts[i].client)
      <4>1. \A i \in Starts : /\ [starts[i] EXCEPT !.client = Killed(@)] \in StartType
                              /\ [starts[i] EXCEPT !.client = Killed(@)].at = starts[i].at
                              /\ [starts[i] EXCEPT !.client = Killed(@)].client = Killed(starts[i].client)
        BY <1>1 DEF TypeInv, StartType, Killed, Alive
      <4> QED
        BY <3>1, <4>1 DEF Hung
    <3>3. \A i \in Starts : /\ starts'[i].client \notin Alive
                            /\ starts'[i].client = "opening" <=> starts[i].client = "opening"
      BY <3>2 DEF Killed, Alive
    <3>4. starts'[1].at = starts[1].at
      BY <1>1, <3>2
    <3>5. TypeInv'
      BY <1>1, <1>2, <3>1, <3>2 DEF TypeInv
    <3>6. PlacesInv' /\ EarlyInv' /\ WaitingInv'
      <4>1. PlacesInv'
        BY <3>2, <3>4 DEF IInv, PlacesInv
      <4>2. EarlyInv'
        BY <1>1, <3>1, <3>2, <3>4 DEF IInv, EarlyInv, LineInv, TypeInv
      <4>3. WaitingInv'
        BY <3>1, <3>2 DEF IInv, WaitingInv
      <4> QED
        BY <4>1, <4>2, <4>3
    <3>7. ClientInv'
      BY <1>1, <3>1, <3>2, <3>3 DEF IInv, ClientInv, TypeInv
    <3>8. LineInv'
      BY <1>1, <3>1, <3>3, <3>4 DEF IInv, LineInv, TypeInv
    <3>9. CloseInv' /\ BeatInv'
      BY <3>1, <3>4 DEF IInv, CloseInv, BeatInv
    <3>10. CountInv'
      BY <3>1, <3>2 DEF IInv, CountInv
    <3>11. BudgetInv'
      <4>1. ~Doomed'
        BY <1>1, <2>2, <3>1, <3>3 DEF Doomed, Alive, TypeInv
      <4> HIDE DEF Doomed
      <4> QED
        BY <1>3, <3>2, <4>1 DEF BudgetInv
    <3> QED
      BY <3>5, <3>6, <3>7, <3>8, <3>9, <3>10, <3>11 DEF IInv
  <2> QED
    BY <2>1, <2>2
<1> QED
  BY <1>7, <1>8

-----------------------------------------------------------------------------
(* The theorems                                                            *)

LEMMA InitInv == Init => IInv
<1> SUFFICES ASSUME Init PROVE IInv
  OBVIOUS
<1>1. 1 \in Starts /\ 0 \notin Starts /\ Starts \subseteq Nat
  BY ConnectionAssumption DEF Starts
<1>2. starts[1].at = IF kind = "ssh" THEN "resolving" ELSE "preparing"
  BY <1>1 DEF Init
<1>3. \A i \in Starts : (i # 1 => starts[i].at = "none") /\ starts[i].client = "none"
  BY DEF Init
<1>4. TypeInv
  <2>1. starts \in [Starts -> StartType]
    BY DEF Init, StartType
  <2>2. 0 \in 0 .. MaxRestarts + 1 /\ 0 \in 0 .. MaxFailures /\ 0 \in 0 .. 1
    BY ConnectionAssumption
  <2>3. conn \in [connected : BOOLEAN, manual : BOOLEAN, notified : BOOLEAN]
    BY DEF Init
  <2> QED
    BY <2>1, <2>2, <2>3 DEF Init, TypeInv, NoBeat
<1>5. PlacesInv /\ EarlyInv /\ WaitingInv
  BY <1>2, <1>3 DEF Init, PlacesInv, EarlyInv, WaitingInv, Early, Waiting, NoBeat
<1>6. ClientInv /\ LineInv
  BY <1>1, <1>2, <1>3 DEF Init, ClientInv, LineInv, Alive
<1>7. CloseInv /\ CountInv /\ BeatInv
  BY <1>2, ConnectionAssumption DEF Init, CloseInv, CountInv, BeatInv
<1>8. BudgetInv
  BY <1>1, <1>3, ConnectionAssumption DEF Init, BudgetInv, Doomed
<1> QED
  BY <1>4, <1>5, <1>6, <1>7, <1>8 DEF IInv

LEMMA NextInv == IInv /\ [Next]_vars => IInv'
<1> SUFFICES ASSUME IInv, [Next]_vars PROVE IInv'
  OBVIOUS
<1>1. CASE Resolved \/ Prepared \/ FirstSnapshot
  BY <1>1, ConnectKeeps
<1>2. ASSUME NEW i \in Starts, StartStep(i) PROVE IInv'
  BY <1>2, SpawnKeeps, AttachKeeps, RestartKeeps DEF StartStep
<1>3. ASSUME NEW i \in Starts, ClientEnds(i) PROVE IInv'
  BY <1>3, ClientEndsKeeps
<1>4. CASE (\E i \in Starts : Stalls(i)) \/ HeartbeatTimesOut
  BY <1>4, SilenceKeeps
<1>5. CASE SendHeartbeat \/ OnHeartbeatResponse
  BY <1>5, HeartbeatKeeps
<1>6. CASE Disconnect \/ ServerGone \/ SshLost
  BY <1>6, EndKeeps
<1>7. CASE UNCHANGED vars
  BY <1>7 DEF vars, IInv, TypeInv, PlacesInv, EarlyInv, WaitingInv, ClientInv, LineInv, CloseInv, CountInv,
              BudgetInv, Doomed, BeatInv
<1> QED
  BY <1>1, <1>2, <1>3, <1>4, <1>5, <1>6, <1>7 DEF Next

LEMMA Invariance == Spec => []IInv
BY InitInv, NextInv, PTL DEF Spec

\* However often the control client is restarted, and whatever goes wrong
\* meanwhile, every variable keeps its type, the runtime is told of the end of the
\* connection at most once, and a connection that was made does not end untold.
THEOREM ConnectionTypes == Spec => []ConnTypeOK
<1>1. IInv => ConnTypeOK
  BY DEF IInv, TypeInv, CloseInv, ConnTypeOK, StartType, At
<1> QED
  BY <1>1, Invariance, PTL

\* However the steps of an old start, of a restart and of disconnect() overlap,
\* no control client runs beside the current one; and none, nor the ssh
\* connection, outlives the end of the runtime but through the two known leaks.
THEOREM OneClientRuns == Spec => []OneClient
<1>1. IInv => OneClient
  BY DEF IInv, ClientInv, LineInv, OneClient
<1> QED
  BY <1>1, Invariance, PTL

\* A heartbeat's time-out kills the client that it asked, never the one that a
\* restart has put in its place: startControlClient clears the heartbeat in time.
THEOREM HeartbeatKillsItsOwn == Spec => []KillsItsOwn
<1>1. IInv => KillsItsOwn
  BY DEF IInv, BeatInv, KillsItsOwn
<1> QED
  BY <1>1, Invariance, PTL

=============================================================================

---------------------------- MODULE RuntimeHolders ----------------------------
(***************************************************************************)
(* Who holds the shared runtime of one device: the WebSocket server for    *)
(* its sockets, the push supervisor, and borrowers that take it for one    *)
(* piece of work (an agent run, a request that reads a screen).  Each      *)
(* acquires, waits for connect(), listens for the runtime's end, and       *)
(* releases; they meet only in the registry.                               *)
(*                                                                         *)
(* Requests, socket events, timers and the connection's own events come    *)
(* one at a time and each runs to the end of what it can do without        *)
(* waiting for the outside: a holder told of the runtime's end, or whose   *)
(* connect() has settled, goes on before anything else is served (Quiet).  *)
(* Operators named ...Bug are plausible mistakes in the operator after     *)
(* them, for the checks that show the properties notice.                   *)
(***************************************************************************)
EXTENDS RuntimeRegistry, FiniteSets

CONSTANTS Sockets,      \* browser sockets
          Borrowers,    \* agent runs and requests that borrow the runtime
          MaxRetries,   \* sshReconnectMaxRetries
          Entries,      \* names for the WebSocket server's device entries
          NoEntry

ASSUME HoldersAssumption == MaxRetries \in Nat /\ NoEntry \notin Entries

VARIABLES
    reg,        \* the registry
    open,       \* sockets that are open
    told,       \* what a socket was last told of the device
    conns,      \* the entry in `connections', NoEntry if none
    ent,        \* DeviceConnectionEntry, by name
    create,     \* the entry under way in pendingConnectionEntries
    retries,    \* reconnect callbacks waiting for their new runtime
    push,       \* the push supervisor's entry for the device
    pushJobs,   \* the supervisor's async functions that are waiting
    lent,       \* lent[b]: what b has borrowed
    notices,    \* listeners yet to be told of the end of a runtime
    lost,       \* history: listening entries replaced in `connections', by runtime
    strays,     \* history: references the supervisor forgot, by runtime
    silenced,   \* history: an older connect has cleared the newer runtime of the
                \*   supervisor's entry, and no reconnect was scheduled since
    slips       \* history: which of the code's known slips have happened

ws      == <<open, told, conns, ent, create, retries, lost>>
pushing == <<push, pushJobs, strays, silenced>>
vars    == <<reg, ws, pushing, lent, notices, slips>>

Tidings == {"nothing", "connected", "error", "reconnecting", "reconnected",
            "reconnect_failed", "disconnected", "left"}

\* "misled": sockets are told they are connected by an entry whose runtime is
\* gone; "dropped": an entry in `connections' was replaced; "stolen": a live
\* runtime was released twice by one holder.
Slips == {"misled", "dropped", "stolen"}

NewEntry   == [rt |-> 0, clients |-> {}, attached |-> FALSE, attempts |-> 0, timer |-> FALSE]
NoCreation == [rt |-> 0, first |-> {}, waiting |-> {}]
NoPush     == [is |-> "new", rt |-> 0, timer |-> FALSE]
NoLoan     == [rt |-> 0, waits |-> FALSE]

Init ==
    /\ reg = NoRuntimes
    /\ open = {} /\ told = [s \in Sockets |-> "nothing"]
    /\ conns = NoEntry /\ ent = [e \in Entries |-> NewEntry]
    /\ create = NoCreation /\ retries = {}
    /\ push = NoPush /\ pushJobs = {}
    /\ lent = [b \in Borrowers |-> NoLoan]
    /\ notices = {} /\ slips = {}
    /\ lost = [r \in Runtimes |-> 0] /\ strays = [r \in Runtimes |-> 0]
    /\ silenced = FALSE

Tell(hears, who, what) == [s \in Sockets |-> IF s \in who \cap open THEN what ELSE hears[s]]

Settled(r) == reg.promise[r] \in {"ok", "failed"}

\* Those who wait for connect() go on once the listeners have been told.
GoesOn(r) == Settled(r) /\ notices = {}

\* Nothing that can go on without the outside is left to do.
Quiet == /\ notices = {}
         /\ create.rt # 0 => ~Settled(create.rt)
         /\ \A j \in retries : ~Settled(j.rt)
         /\ \A j \in pushJobs : j.at = "connect" => ~Settled(j.rt)

\* acquire() and at once connect().
AcquireConnected(g) == Connect(Acquire(g), Acquire(g).current)

-----------------------------------------------------------------------------
(* Sockets *)

HandleOpen(s) ==
    /\ Quiet /\ s \notin open
    /\ open' = open \cup {s}
    /\ UNCHANGED <<reg, told, conns, ent, create, retries, lost, pushing, lent, notices, slips>>

JoinEntry(s) ==
    /\ conns # NoEntry
    /\ ent' = [ent EXCEPT ![conns].clients = @ \cup {s}]
    /\ told' = Tell(told, {s}, "connected")
    /\ slips' = IF ent[conns].attached THEN slips ELSE slips \cup {"misled"}
    /\ UNCHANGED <<reg, create>>

AwaitCreation(s) ==
    /\ conns = NoEntry /\ create.rt # 0
    /\ create' = [create EXCEPT !.waiting = @ \cup {s}]
    /\ told' = Tell(told, {s}, "nothing")
    /\ UNCHANGED <<reg, ent, slips>>

StartCreation(s) ==
    /\ conns = NoEntry /\ create.rt = 0 /\ CanAcquire(reg)
    /\ reg' = AcquireConnected(reg)
    /\ create' = [rt |-> reg'.current, first |-> {s}, waiting |-> {s}]
    /\ told' = Tell(told, {s}, "nothing")
    /\ UNCHANGED <<ent, slips>>

HandleDeviceConnect(s) ==
    /\ Quiet /\ s \in open
    /\ JoinEntry(s) \/ AwaitCreation(s) \/ StartCreation(s)
    /\ UNCHANGED <<open, conns, retries, lost, pushing, lent, notices>>

\* An entry that is let go keeps its reconnect timer.
RetiredBug(e) == [ent[e] EXCEPT !.rt = 0, !.attached = FALSE]

\* An entry taken out of `connections'; a reconnect callback may still know it.
Retired(e) == IF \E j \in retries : j.ent = e
              THEN [ent[e] EXCEPT !.rt = 0, !.attached = FALSE, !.timer = FALSE]
              ELSE NewEntry

\* The entry is let go with the first socket that leaves, not with the last.
ReleaseConnectionEntryBug(rest) ==
    /\ ent' = [ent EXCEPT ![conns] = [Retired(conns) EXCEPT !.clients = {}]]
    /\ reg' = Release(reg, ent[conns].rt)
    /\ conns' = NoEntry

\* The socket leaves the entry; the last one lets the entry go with its
\* reference.  A socket that still waits for a creation is in no entry.
ReleaseConnectionEntry(rest) ==
    IF rest # {} THEN /\ ent' = [ent EXCEPT ![conns].clients = rest]
                      /\ UNCHANGED <<reg, conns>>
    ELSE /\ ent' = [ent EXCEPT ![conns] = [Retired(conns) EXCEPT !.clients = {}]]
         /\ reg' = Release(reg, ent[conns].rt)
         /\ conns' = NoEntry

HandleDeviceDisconnect(s) ==
    /\ Quiet /\ s \in open
    /\ IF conns = NoEntry THEN UNCHANGED <<ent, reg, conns>>
       ELSE ReleaseConnectionEntry(ent[conns].clients \ {s})
    /\ told' = Tell(told, {s}, "left")
    /\ UNCHANGED <<open, create, retries, lost, pushing, lent, notices, slips>>

HandleClose(s) ==
    /\ Quiet /\ s \in open
    /\ IF conns = NoEntry \/ s \notin ent[conns].clients THEN UNCHANGED <<ent, reg, conns>>
       ELSE ReleaseConnectionEntry(ent[conns].clients \ {s})
    /\ open' = open \ {s} /\ told' = Tell(told, {s}, "nothing")
    /\ UNCHANGED <<create, retries, lost, pushing, lent, notices, slips>>

-----------------------------------------------------------------------------
(* Device entries *)

\* connections.set: what the map held is forgotten, its listener and all.
Replaces(e, new) ==
    /\ conns' = e
    /\ ent' = [x \in Entries |-> IF x = e THEN new ELSE IF x = conns THEN Retired(x) ELSE ent[x]]
    /\ IF conns # NoEntry /\ ent[conns].attached
       THEN lost' = [lost EXCEPT ![ent[conns].rt] = @ + 1]
       ELSE UNCHANGED lost
    /\ slips' = slips
          \cup (IF conns = NoEntry \/ (conns = e /\ ~ent[conns].attached) THEN {} ELSE {"dropped"})
          \cup (IF Terminated(reg, new.rt) THEN {"misled"} ELSE {})

Unused == {e \in Entries : e # conns /\ \A j \in retries : j.ent # e}

\* createDeviceConnectionEntry returns, and each DEVICE_CONNECT that waited adds
\* its socket, whatever became of it.  Only the first hears of a failure.
CreationSettles ==
    /\ create.rt # 0 /\ GoesOn(create.rt)
    /\ IF reg.promise[create.rt] = "ok"
       THEN /\ \E e \in Unused :
                  Replaces(e, [NewEntry EXCEPT !.rt = create.rt, !.attached = TRUE,
                                               !.clients = create.waiting])
            /\ told' = Tell(told, create.waiting, "connected")
            /\ UNCHANGED reg
       ELSE /\ reg' = Release(reg, create.rt)
            /\ told' = Tell(told, create.first, "error")
            /\ UNCHANGED <<conns, ent, lost, slips>>
    /\ create' = NoCreation
    /\ UNCHANGED <<open, retries, pushing, lent, notices>>

\* handleConnectionClose, for whatever entry is in `connections' by now; g and
\* hears are what the caller has made of the registry and of `told'.
HandleConnectionClose(g, hears) ==
    IF conns = NoEntry THEN reg' = g /\ told' = hears /\ UNCHANGED <<conns, ent>>
    ELSE LET c == ent[conns] IN
         /\ reg' = Release(g, c.rt)
         /\ IF c.clients # {} /\ c.attempts < MaxRetries
            THEN /\ ent' = [ent EXCEPT ![conns] = [c EXCEPT !.attached = FALSE,
                                             !.attempts = @ + 1, !.timer = TRUE]]
                 /\ told' = Tell(hears, c.clients, "reconnecting")
                 /\ UNCHANGED conns
            ELSE /\ ent' = [ent EXCEPT ![conns] = Retired(conns)]
                 /\ told' = Tell(hears, c.clients, "disconnected")
                 /\ conns' = NoEntry

\* A listener of the server, of an entry or of a creation or retry under way,
\* hears the end.  Taking an entry's listener away spares it the call.
WsHearsEnd ==
    \E n \in notices :
        /\ n[1] # "push"
        /\ HandleConnectionClose(reg, told)
        /\ notices' = {m \in notices \ {n} : m[1] = "entry" => conns = NoEntry}
        /\ UNCHANGED <<open, create, retries, lost, pushing, lent, slips>>

\* The reconnect timer.  An entry that has left `connections' is not retried.
ReconnectTimerFires ==
    /\ Quiet /\ conns # NoEntry /\ ent[conns].timer
    /\ ent' = [ent EXCEPT ![conns].timer = FALSE]
    /\ IF ent[conns].clients = {} THEN UNCHANGED <<reg, retries>>
       ELSE /\ CanAcquire(reg) /\ reg' = AcquireConnected(reg)
            /\ \E s \in ent[conns].clients :
                 retries' = retries \cup {[ent |-> conns, rt |-> reg'.current, first |-> s]}
    /\ UNCHANGED <<open, told, conns, create, lost, pushing, lent, notices, slips>>

RetryFails(e, g, hears) ==
    IF ent[e].attempts < MaxRetries THEN HandleConnectionClose(g, hears)
    ELSE /\ reg' = g
         /\ told' = Tell(hears, ent[e].clients, "reconnect_failed")
         /\ UNCHANGED <<conns, ent>>

\* The reconnect callback goes on: it does not look at `connections' again.
RetrySettles(j) ==
    /\ GoesOn(j.rt)
    /\ IF reg.promise[j.rt] = "ok"
       THEN /\ Replaces(j.ent, [ent[j.ent] EXCEPT !.rt = j.rt, !.attached = TRUE, !.timer = FALSE])
            /\ told' = Tell(told, ent[j.ent].clients, "reconnected")
            /\ UNCHANGED reg
       ELSE LET g     == Release(reg, j.rt)
                hears == Tell(told, {j.first}, "error") IN
            /\ RetryFails(j.ent, g, hears)
            /\ UNCHANGED <<lost, slips>>
    /\ retries' = retries \ {j}
    /\ UNCHANGED <<open, create, pushing, lent, notices>>

-----------------------------------------------------------------------------
(* The push supervisor *)

\* connectEntry of the supervisor's entry, in the registry g.
PushConnects(g, jobs) ==
    /\ CanAcquire(g) /\ reg' = AcquireConnected(g)
    /\ push' = [is |-> "on", rt |-> reg'.current, timer |-> FALSE]
    /\ pushJobs' = jobs \cup {[at |-> "connect", rt |-> reg'.current, own |-> TRUE, fresh |-> TRUE]}

\* teardownEntry: jobs that wait no longer find their entry.
TornDown == IF push.rt = 0 THEN reg ELSE Release(reg, push.rt)
Disowned == {[j EXCEPT !.own = FALSE] : j \in pushJobs}

\* Bound: of jobs that have been overtaken there is one of a kind.
OneOfAKind(jobs, were) == Cardinality(jobs) = Cardinality(were)

PushUpsert ==
    /\ Quiet /\ push.is = "new"
    /\ PushConnects(reg, pushJobs)
    /\ UNCHANGED <<ws, strays, silenced, lent, notices, slips>>

PushReconnect ==
    /\ Quiet /\ push.is = "on" /\ OneOfAKind(Disowned, pushJobs)
    /\ PushConnects(TornDown, Disowned)
    /\ silenced' = FALSE
    /\ UNCHANGED <<ws, strays, lent, notices, slips>>

PushRemove ==
    /\ Quiet /\ push.is = "on" /\ OneOfAKind(Disowned, pushJobs)
    /\ reg' = TornDown /\ pushJobs' = Disowned
    /\ push' = [is |-> "gone", rt |-> 0, timer |-> FALSE]
    /\ silenced' = FALSE
    /\ UNCHANGED <<ws, strays, lent, notices, slips>>

\* connect() has come back.  After success an entry that was torn down or
\* rescheduled meanwhile has its runtime released, again if it was torn down.
PushConnectSettles(j) ==
    /\ j.at = "connect" /\ GoesOn(j.rt)
    /\ LET current == j.own /\ j.fresh
           again   == ~current /\ reg.promise[j.rt] = "ok" IN
       /\ reg' = IF again THEN Release(reg, j.rt) ELSE reg
       /\ slips' = IF again /\ j.fresh /\ Alive(reg, j.rt) THEN slips \cup {"stolen"} ELSE slips
       /\ push' = IF again /\ j.own THEN [push EXCEPT !.rt = 0] ELSE push
       /\ strays' = IF again /\ j.own /\ push.rt # 0
                    THEN [strays EXCEPT ![push.rt] = @ + 1] ELSE strays
       /\ silenced' = (silenced \/ (again /\ j.own /\ push.rt # 0))
       /\ pushJobs' = (pushJobs \ {j}) \cup
              IF current /\ reg.promise[j.rt] = "failed" THEN {[j EXCEPT !.at = "failed"]} ELSE {}
    /\ UNCHANGED <<ws, lent, notices>>

PushHearsEnd ==
    \E n \in notices :
        /\ n[1] = "push"
        /\ pushJobs' = pushJobs \cup {[at |-> "closed", rt |-> n[2], own |-> TRUE, fresh |-> TRUE]}
        /\ notices' = notices \ {n}
        /\ UNCHANGED <<reg, ws, push, strays, silenced, lent, slips>>

\* The supervisor schedules a reconnect after a failed connect() only.
ScheduleReconnectBug(j) == [push EXCEPT !.rt = 0, !.timer = @ \/ j.at = "failed"]

ScheduleReconnect(j) == [push EXCEPT !.rt = 0, !.timer = TRUE]

\* The alert about a failed connect() or a closed runtime has been sent: the
\* runtime is released and a reconnect scheduled (which makes older jobs stale).
PushAlertSent(j) ==
    /\ Quiet /\ j.at \in {"failed", "closed"}
    /\ reg' = Release(reg, j.rt)
    /\ push' = IF j.own THEN ScheduleReconnect(j) ELSE push
    /\ pushJobs' = {IF j.own /\ i.own THEN [i EXCEPT !.fresh = FALSE] ELSE i : i \in pushJobs \ {j}}
    /\ OneOfAKind(pushJobs', pushJobs \ {j})
    /\ strays' = IF j.own /\ push.rt \notin {0, j.rt}
                     /\ ~ \E i \in pushJobs : i.at = "connect" /\ i.own /\ i.rt = push.rt
                 THEN [strays EXCEPT ![push.rt] = @ + 1] ELSE strays
    /\ silenced' = (silenced /\ ~j.own)
    /\ UNCHANGED <<ws, lent, notices, slips>>

PushTimerFires ==
    /\ Quiet /\ push.timer
    /\ PushConnects(reg, pushJobs)
    /\ UNCHANGED <<ws, strays, silenced, lent, notices, slips>>

-----------------------------------------------------------------------------
(* Borrowers, and the runtime itself *)

\* An agent run only acquires; a request that reads a screen also connects.
Borrow(b) ==
    /\ Quiet /\ lent[b].rt = 0 /\ CanAcquire(reg)
    /\ \E waits \in BOOLEAN :
        /\ reg' = IF waits THEN AcquireConnected(reg) ELSE Acquire(reg)
        /\ lent' = [lent EXCEPT ![b] = [rt |-> reg'.current, waits |-> waits]]
    /\ UNCHANGED <<ws, pushing, notices, slips>>

GiveBack(b) ==
    /\ Quiet /\ lent[b].rt # 0
    /\ lent[b].waits => Settled(lent[b].rt)
    /\ reg' = Release(reg, lent[b].rt)
    /\ lent' = [lent EXCEPT ![b] = NoLoan]
    /\ UNCHANGED <<ws, pushing, notices, slips>>

ConnectSettles(r) ==
    /\ Quiet /\ reg.promise[r] = "pending"
    /\ \E ok \in BOOLEAN : reg' = Settle(reg, r, ok)
    /\ UNCHANGED <<ws, pushing, lent, notices, slips>>

Listeners(r) ==
    {<<"entry", 0, 0>> : e \in {e \in Entries : e = conns /\ ent[e].attached /\ ent[e].rt = r}}
    \cup {<<"create", 0, 0>> : x \in {create.rt} \cap {r}}
    \cup {<<"retry", j.ent, j.first>> : j \in {j \in retries : j.rt = r}}
    \cup {<<"lost", k, 0>> : k \in 1 .. lost[r]}
    \cup {<<"push", r, 0>> : x \in {push.rt} \cap {r}}

\* The connection is lost: onClose to every listener, and the runtime is dead.
\* A connect() under way comes back at once, with an error or, when only its
\* last command failed, without.
RuntimeEnds(r) ==
    /\ Quiet /\ reg.life[r] \in {"connecting", "up"}
    /\ IF reg.life[r] = "up" THEN reg' = Lose(reg, r)
       ELSE \E ok \in BOOLEAN : reg' = Settle(Lose(reg, r), r, ok)
    /\ notices' = Listeners(r)
    /\ UNCHANGED <<ws, pushing, lent, slips>>

Next ==
    \/ \E s \in Sockets : \/ HandleOpen(s) \/ HandleClose(s)
                          \/ HandleDeviceConnect(s) \/ HandleDeviceDisconnect(s)
    \/ CreationSettles \/ WsHearsEnd \/ ReconnectTimerFires
    \/ \E j \in retries : RetrySettles(j)
    \/ PushUpsert \/ PushReconnect \/ PushRemove \/ PushHearsEnd \/ PushTimerFires
    \/ \E j \in pushJobs : PushConnectSettles(j) \/ PushAlertSent(j)
    \/ \E b \in Borrowers : Borrow(b) \/ GiveBack(b)
    \/ \E r \in Runtimes : ConnectSettles(r) \/ RuntimeEnds(r)

Spec == Init /\ [][Next]_vars

-----------------------------------------------------------------------------
(* Properties *)

Jobs == [at : {"connect", "failed", "closed"}, rt : Runtimes, own : BOOLEAN, fresh : BOOLEAN]

\* Every variable keeps its type; only the entry in `connections' has a timer,
\* and then no listener; sockets wait only for a creation that is under way.
HoldersTypeOK ==
    /\ reg \in Registries
    /\ open \subseteq Sockets /\ told \in [Sockets -> Tidings]
    /\ conns \in Entries \cup {NoEntry}
    /\ ent \in [Entries -> [rt : 0 .. MaxRuntimes, clients : SUBSET Sockets, attached : BOOLEAN,
                            attempts : 0 .. MaxRetries, timer : BOOLEAN]]
    /\ create \in [rt : 0 .. MaxRuntimes, first : SUBSET Sockets, waiting : SUBSET Sockets]
    /\ retries \subseteq [ent : Entries, rt : Runtimes, first : Sockets]
    /\ push \in [is : {"new", "on", "gone"}, rt : 0 .. MaxRuntimes, timer : BOOLEAN]
    /\ pushJobs \subseteq Jobs
    /\ lent \in [Borrowers -> [rt : 0 .. MaxRuntimes, waits : BOOLEAN]]
    /\ lost \in [Runtimes -> Nat] /\ strays \in [Runtimes -> Nat]
    /\ silenced \in BOOLEAN /\ slips \subseteq Slips
    /\ \A e \in Entries : ent[e].timer => e = conns /\ ~ent[e].attached
    /\ create.waiting # {} => create.rt # 0

\* The device never has two live runtimes (two tmux clients that both resize,
\* park and answer), and the live one is the one the registry hands out.
OneRuntime == \A r \in Runtimes : Alive(reg, r) => r = reg.current

\* Who holds r: listening entries, those that wait for it, borrowers, and the
\* references that nobody will ever give back.
Holders(r) ==
    {<<"entry", e>> : e \in {e \in Entries : e = conns /\ ent[e].attached /\ ent[e].rt = r}}
    \cup {<<"create", 0>> : x \in {create.rt} \cap {r}}
    \cup {<<"retry", j>> : j \in {j \in retries : j.rt = r}}
    \cup {<<"lost", k>> : k \in 1 .. lost[r]}
    \cup {<<"push", 0>> : x \in {push.rt} \cap {r}}
    \cup {<<"job", j>> : j \in {j \in pushJobs : j.at = "connect" /\ ~j.fresh /\ j.rt = r}}
    \cup {<<"stray", k>> : k \in 1 .. strays[r]}
    \cup {<<"borrower", b>> : b \in {b \in Borrowers : lent[b].rt = r}}

\* The reference count of a live runtime is the number of those that hold it,
\* until the supervisor has released one twice.
CountsAreHolders ==
    "stolen" \notin slips =>
        \A r \in Runtimes : Alive(reg, r) => reg.refs[r] = Cardinality(Holders(r))

\* The registry shuts a runtime down only when nobody holds it.
ShutWhenUnheld == \A r \in Runtimes : reg.life[r] = "shut" => Holders(r) = {}
ShutWhenUnheldOrStolen == "stolen" \in slips \/ ShutWhenUnheld

\* A socket that was told it is connected is a client of the entry, and the
\* entry listens to a live runtime, unless a slip has misled or dropped it.
ConnectedIsServed ==
    Quiet /\ slips = {} =>
        \A s \in open : told[s] \in {"connected", "reconnected"} =>
            conns # NoEntry /\ s \in ent[conns].clients /\ ent[conns].attached
                /\ Alive(reg, ent[conns].rt)

\* A socket that was told its device is reconnecting is a client of an entry
\* with a retry ahead of it or under way.
RetryIsUnderWay ==
    Quiet /\ "dropped" \notin slips =>
        \A s \in open : told[s] = "reconnecting" =>
            /\ conns # NoEntry /\ s \in ent[conns].clients
            /\ ent[conns].timer \/ \E j \in retries : j.ent = conns

\* What a socket was last told of its device is true.
ToldIsTrue == ConnectedIsServed /\ RetryIsUnderWay

\* The supervisor never gives up on a device: its entry listens to a live runtime,
\* or is connecting, alerting, or waiting for its timer.  There are two ways to
\* sleep: the runtime was shut by a double release ("stolen"), or an older connect
\* came back after a newer one had begun and cleared the newer one's runtime
\* (silenced), so that neither its success nor its end is taken for the entry's.
\* The second lasts until an alert schedules a reconnect after all, or the device
\* is reconnected by hand.
PushNeverSleeps ==
    Quiet /\ push.is = "on" /\ "stolen" \notin slips =>
        \/ push.timer
        \/ push.rt # 0 /\ Alive(reg, push.rt)
        \/ \E j \in pushJobs : j.own
        \/ silenced

=============================================================================

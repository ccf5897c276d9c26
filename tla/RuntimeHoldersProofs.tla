------------------------- MODULE RuntimeHoldersProofs -------------------------
(***************************************************************************)
(* Theorems about RuntimeHolders, for every set of sockets, borrowers and  *)
(* entries, every number of retries and any number of runtimes.            *)
(***************************************************************************)
EXTENDS RuntimeHolders, RegistryProofs, FiniteSetTheorems, FunctionTheorems

-----------------------------------------------------------------------------
(* Whoever acts, the registry stays as it should be: one step per action   *)
(* that calls it.                                                          *)

LEMMA AcquireConnectedKeepsRegistry ==
    ASSUME NEW g, RegistryOK(g), CanAcquire(g)
    PROVE  RegistryOK(AcquireConnected(g)) /\ AcquireConnected(g).current \in Runtimes
BY AcquireKeepsRegistry, ConnectKeepsRegistry DEF AcquireConnected

\* The runtime of an entry that is let go, or whose end was heard, is released.
LEMMA EntriesKeepRegistry ==
    ASSUME RegistryOK(reg), NEW g, RegistryOK(g)
    PROVE  /\ \A rest : ReleaseConnectionEntry(rest) => RegistryOK(reg')
           /\ \A hears : HandleConnectionClose(g, hears) => RegistryOK(reg')
           /\ \A e, hears : RetryFails(e, g, hears) => RegistryOK(reg')
<1>1. \A rest : ReleaseConnectionEntry(rest) => RegistryOK(reg')
  BY ReleaseKeepsRegistry DEF ReleaseConnectionEntry
<1>2. \A hears : HandleConnectionClose(g, hears) => RegistryOK(reg')
  BY ReleaseKeepsRegistry DEF HandleConnectionClose
<1>3. \A e, hears : RetryFails(e, g, hears) => RegistryOK(reg')
  BY <1>2 DEF RetryFails
<1> QED
  BY <1>1, <1>2, <1>3

LEMMA SocketsKeepRegistry ==
    ASSUME RegistryOK(reg), NEW s \in Sockets,
           HandleOpen(s) \/ HandleClose(s) \/ HandleDeviceConnect(s) \/ HandleDeviceDisconnect(s)
    PROVE  RegistryOK(reg')
<1>1. CASE HandleOpen(s)
  BY <1>1 DEF HandleOpen
<1>2. CASE HandleClose(s)
  BY <1>2, EntriesKeepRegistry DEF HandleClose
<1>3. CASE HandleDeviceConnect(s)
  BY <1>3, AcquireConnectedKeepsRegistry
     DEF HandleDeviceConnect, JoinEntry, AwaitCreation, StartCreation
<1>4. CASE HandleDeviceDisconnect(s)
  BY <1>4, EntriesKeepRegistry DEF HandleDeviceDisconnect
<1> QED
  BY <1>1, <1>2, <1>3, <1>4

LEMMA ServerKeepsRegistry ==
    ASSUME RegistryOK(reg),
           CreationSettles \/ WsHearsEnd \/ ReconnectTimerFires \/ \E j \in retries : RetrySettles(j)
    PROVE  RegistryOK(reg')
<1>1. CASE CreationSettles
  BY <1>1, ReleaseKeepsRegistry DEF CreationSettles
<1>2. CASE WsHearsEnd
  BY <1>2, EntriesKeepRegistry DEF WsHearsEnd
<1>3. CASE ReconnectTimerFires
  BY <1>3, AcquireConnectedKeepsRegistry DEF ReconnectTimerFires
<1>4. CASE \E j \in retries : RetrySettles(j)
  BY <1>4, ReleaseKeepsRegistry, EntriesKeepRegistry DEF RetrySettles
<1> QED
  BY <1>1, <1>2, <1>3, <1>4

LEMMA PushKeepsRegistry ==
    ASSUME RegistryOK(reg),
           \/ PushUpsert \/ PushReconnect \/ PushRemove \/ PushHearsEnd \/ PushTimerFires
           \/ \E j \in pushJobs : PushConnectSettles(j) \/ PushAlertSent(j)
    PROVE  RegistryOK(reg')
<1>1. ASSUME NEW g, RegistryOK(g), NEW jobs, PushConnects(g, jobs)
      PROVE  RegistryOK(reg')
  BY <1>1, AcquireConnectedKeepsRegistry DEF PushConnects
<1>2. RegistryOK(TornDown)
  BY ReleaseKeepsRegistry DEF TornDown
<1>3. CASE PushUpsert \/ PushReconnect \/ PushTimerFires
  BY <1>1, <1>2, <1>3 DEF PushUpsert, PushReconnect, PushTimerFires
<1>4. CASE PushRemove
  BY <1>2, <1>4 DEF PushRemove
<1>5. CASE PushHearsEnd
  BY <1>5 DEF PushHearsEnd
<1>6. CASE \E j \in pushJobs : PushConnectSettles(j) \/ PushAlertSent(j)
  BY <1>6, ReleaseKeepsRegistry DEF PushConnectSettles, PushAlertSent
<1> QED
  BY <1>3, <1>4, <1>5, <1>6

LEMMA OthersKeepRegistry ==
    ASSUME RegistryOK(reg),
           \/ \E b \in Borrowers : Borrow(b) \/ GiveBack(b)
           \/ \E r \in Runtimes : ConnectSettles(r) \/ RuntimeEnds(r)
    PROVE  RegistryOK(reg')
<1>1. ASSUME NEW b \in Borrowers, Borrow(b) \/ GiveBack(b)
      PROVE  RegistryOK(reg')
  <2>1. CASE Borrow(b)
    <3>1. CanAcquire(reg) /\ reg' \in {AcquireConnected(reg), Acquire(reg)}
      BY <2>1 DEF Borrow
    <3> QED
      BY <3>1, AcquireKeepsRegistry, AcquireConnectedKeepsRegistry
  <2>2. CASE GiveBack(b)
    BY <2>2, ReleaseKeepsRegistry DEF GiveBack
  <2> QED
    BY <1>1, <2>1, <2>2
<1>2. CASE \E r \in Runtimes : ConnectSettles(r) \/ RuntimeEnds(r)
  BY <1>2, EndingKeepsRegistry DEF ConnectSettles, RuntimeEnds
<1> QED
  BY <1>1, <1>2

\* The invariant of the induction.
RegInv == RegistryOK(reg)

LEMMA NextRegistry == RegInv /\ [Next]_vars => RegInv'
<1> SUFFICES ASSUME RegistryOK(reg), [Next]_vars PROVE RegistryOK(reg')
  BY DEF RegInv
<1>1. CASE UNCHANGED vars
  BY <1>1 DEF vars
<1>2. CASE Next
  BY <1>2, SocketsKeepRegistry, ServerKeepsRegistry, PushKeepsRegistry, OthersKeepRegistry DEF Next
<1> QED
  BY <1>1, <1>2

-----------------------------------------------------------------------------
(* What every variable keeps to                                            *)

Ents == [rt : 0 .. MaxRuntimes, clients : SUBSET Sockets, attached : BOOLEAN,
         attempts : 0 .. MaxRetries, timer : BOOLEAN]

\* Only the entry in `connections' listens or has a timer, not both; and it has
\* a runtime, or had one.
EntriesOK ==
    /\ conns \in Entries \cup {NoEntry} /\ ent \in [Entries -> Ents]
    /\ \A e \in Entries : ent[e].timer => e = conns /\ ~ent[e].attached
    /\ \A e \in Entries : ent[e].attached => e = conns
    /\ conns # NoEntry => ent[conns].rt # 0

SocketsOK ==
    /\ open \subseteq Sockets /\ told \in [Sockets -> Tidings]
    /\ create \in [rt : 0 .. MaxRuntimes, first : SUBSET Sockets, waiting : SUBSET Sockets]
    /\ create.waiting # {} => create.rt # 0
    /\ retries \subseteq [ent : Entries, rt : Runtimes, first : Sockets] /\ IsFiniteSet(retries)
    /\ lost \in [Runtimes -> Nat]

\* An entry that waits for its timer has no runtime and no connect() of its own
\* that counts; one that is not there has no jobs.
PushOK ==
    /\ push \in [is : {"new", "on", "gone"}, rt : 0 .. MaxRuntimes, timer : BOOLEAN]
    /\ pushJobs \subseteq Jobs /\ IsFiniteSet(pushJobs)
    /\ strays \in [Runtimes -> Nat]
    /\ push.is = "new" => pushJobs = {} /\ push.rt = 0 /\ ~push.timer
    /\ push.is = "gone" => (\A j \in pushJobs : ~j.own) /\ push.rt = 0 /\ ~push.timer
    /\ push.timer => push.rt = 0 /\ \A j \in pushJobs : ~(j.at = "connect" /\ j.own /\ j.fresh)

LoansOK == /\ lent \in [Borrowers -> [rt : 0 .. MaxRuntimes, waits : BOOLEAN]]
           /\ IsFiniteSet({b \in Borrowers : lent[b].rt # 0})

NoticesOK == \A n \in notices : n[1] = "push" => n[2] = push.rt /\ push.rt # 0

TypeInv == /\ RegistryOK(reg) /\ SocketsOK /\ EntriesOK /\ PushOK /\ LoansOK /\ NoticesOK
           /\ slips \subseteq Slips /\ silenced \in BOOLEAN

\* Runtimes are numbers, and 0 is none of them.
LEMMA RuntimesAre ==
    /\ 0 \in 0 .. MaxRuntimes /\ 0 \notin Runtimes /\ Runtimes \subseteq 0 .. MaxRuntimes
    /\ \A r \in 0 .. MaxRuntimes : r # 0 => r \in Runtimes
BY MaxRuntimesAssumption DEF Runtimes

LEMMA TellIsTidings ==
    ASSUME NEW hears \in [Sockets -> Tidings], NEW who, NEW what \in Tidings
    PROVE  Tell(hears, who, what) \in [Sockets -> Tidings]
BY DEF Tell

LEMMA NewEntryFits == NewEntry \in Ents /\ NewEntry.rt = 0 /\ ~NewEntry.attached /\ ~NewEntry.timer
BY RuntimesAre, HoldersAssumption DEF NewEntry, Ents

LEMMA RetiredFits ==
    ASSUME ent \in [Entries -> Ents], NEW e \in Entries
    PROVE  Retired(e) \in Ents /\ Retired(e).rt = 0 /\ ~Retired(e).attached /\ ~Retired(e).timer
BY RuntimesAre, NewEntryFits DEF Retired, Ents

\* An entry is taken out of `connections', or put into it.
LEMMA ReleasingFits ==
    ASSUME EntriesOK, conns # NoEntry, NEW rest \in SUBSET Sockets, ReleaseConnectionEntry(rest)
    PROVE  EntriesOK' /\ conns' \in {conns, NoEntry}
<1>0. conns \in Entries /\ NoEntry \notin Entries
  BY HoldersAssumption DEF EntriesOK
<1>1. CASE rest # {}
  <2>1. /\ ent' = [ent EXCEPT ![conns].clients = rest] /\ conns' = conns
    BY <1>1 DEF ReleaseConnectionEntry
  <2>2. /\ ent' \in [Entries -> Ents]
        /\ \A e \in Entries : /\ ent'[e].timer = ent[e].timer /\ ent'[e].attached = ent[e].attached
                              /\ ent'[e].rt = ent[e].rt
    BY <1>0, <2>1 DEF EntriesOK, Ents
  <2> QED
    BY <1>0, <2>1, <2>2 DEF EntriesOK
<1>2. CASE rest = {}
  <2> DEFINE x == [Retired(conns) EXCEPT !.clients = {}]
  <2>1. /\ ent' = [ent EXCEPT ![conns] = x] /\ conns' = NoEntry
    BY <1>2 DEF ReleaseConnectionEntry
  <2>2. x \in Ents /\ ~x.attached /\ ~x.timer
    <3>1. Retired(conns) \in Ents /\ ~Retired(conns).attached /\ ~Retired(conns).timer
      BY <1>0, RetiredFits DEF EntriesOK
    <3> QED
      BY <3>1 DEF Ents
  <2> HIDE DEF x
  <2> QED
    BY <1>0, <2>1, <2>2 DEF EntriesOK
<1> QED
  BY <1>1, <1>2

LEMMA ClosingFits ==
    ASSUME EntriesOK, NEW g, NEW hears \in [Sockets -> Tidings], HandleConnectionClose(g, hears)
    PROVE  EntriesOK' /\ told' \in [Sockets -> Tidings] /\ conns' \in {conns, NoEntry}
<1>0. NoEntry \notin Entries
  BY HoldersAssumption
<1>1. CASE conns = NoEntry
  BY <1>1 DEF HandleConnectionClose, EntriesOK
<1>2. CASE conns # NoEntry
  <2>1. conns \in Entries /\ ent[conns] \in Ents
    BY <1>2 DEF EntriesOK
  <2>2. told' \in [Sockets -> Tidings]
    BY <1>2, TellIsTidings DEF HandleConnectionClose, Tidings
  <2>3. CASE ent[conns].clients # {} /\ ent[conns].attempts < MaxRetries
    <3> DEFINE x == [ent[conns] EXCEPT !.attached = FALSE, !.attempts = @ + 1, !.timer = TRUE]
    <3>1. ent' = [ent EXCEPT ![conns] = x] /\ conns' = conns
      BY <1>2, <2>3 DEF HandleConnectionClose
    <3>2. ent[conns].attempts + 1 \in 0 .. MaxRetries
      BY <2>1, <2>3, HoldersAssumption DEF Ents
    <3>3. x \in Ents /\ ~x.attached /\ x.rt = ent[conns].rt
      BY <2>1, <3>2 DEF Ents
    <3> HIDE DEF x
    <3> QED
      BY <2>1, <2>2, <3>1, <3>3 DEF EntriesOK
  <2>4. CASE ~(ent[conns].clients # {} /\ ent[conns].attempts < MaxRetries)
    <3>1. ent' = [ent EXCEPT ![conns] = Retired(conns)] /\ conns' = NoEntry
      BY <1>2, <2>4 DEF HandleConnectionClose
    <3>2. Retired(conns) \in Ents /\ ~Retired(conns).attached /\ ~Retired(conns).timer
      BY <2>1, RetiredFits DEF EntriesOK
    <3> QED
      BY <1>0, <2>1, <2>2, <3>1, <3>2 DEF EntriesOK
  <2> QED
    BY <2>3, <2>4
<1> QED
  BY <1>1, <1>2

LEMMA ReplacingFits ==
    ASSUME EntriesOK, lost \in [Runtimes -> Nat], slips \subseteq Slips,
           NEW e \in Entries, NEW new \in Ents, new.attached, ~new.timer, new.rt # 0, Replaces(e, new)
    PROVE  /\ EntriesOK' /\ lost' \in [Runtimes -> Nat] /\ slips' \subseteq Slips
           /\ conns' = e /\ ent'[e] = new /\ slips \subseteq slips'
<1>0. NoEntry \notin Entries /\ ent \in [Entries -> Ents]
  BY HoldersAssumption DEF EntriesOK
<1>1. /\ conns' = e
      /\ ent' = [x \in Entries |-> IF x = e THEN new ELSE IF x = conns THEN Retired(x) ELSE ent[x]]
  BY DEF Replaces
<1>2. \A x \in Entries : Retired(x) \in Ents /\ ~Retired(x).attached /\ ~Retired(x).timer
  BY <1>0, RetiredFits
<1>3. EntriesOK'
  <2>1. ent' \in [Entries -> Ents]
    BY <1>0, <1>1, <1>2
  <2>2. ASSUME NEW x \in Entries
        PROVE  (ent'[x].timer => x = conns' /\ ~ent'[x].attached) /\ (ent'[x].attached => x = conns')
    BY <1>1, <1>2 DEF EntriesOK
  <2> QED
    BY <1>0, <1>1, <2>1, <2>2 DEF EntriesOK
<1>4. lost' \in [Runtimes -> Nat]
  <2>1. CASE conns # NoEntry /\ ent[conns].attached
    <3> DEFINE k == ent[conns].rt
    <3>1. lost' = [lost EXCEPT ![k] = lost[k] + 1]
      BY <2>1 DEF Replaces
    <3> HIDE DEF k
    <3>2. k \in Runtimes => lost[k] + 1 \in Nat
      OBVIOUS
    <3> QED
      BY <3>1, <3>2
  <2>2. CASE ~(conns # NoEntry /\ ent[conns].attached)
    BY <2>2 DEF Replaces
  <2> QED
    BY <2>1, <2>2
<1>5. slips' \subseteq Slips /\ slips \subseteq slips'
  BY DEF Replaces, Slips
<1> QED
  BY <1>1, <1>3, <1>4, <1>5

-----------------------------------------------------------------------------
(* Every variable keeps to it: one lemma for each group of actions         *)

\* The runtime that is acquired.
LEMMA AcquiredIsRuntime ==
    ASSUME NEW g, RegistryOK(g), CanAcquire(g), reg' = AcquireConnected(g)
    PROVE  RegistryOK(reg') /\ reg'.current \in Runtimes
BY AcquireConnectedKeepsRegistry

LEMMA SocketsKeepTypes ==
    ASSUME TypeInv, NEW s \in Sockets,
           HandleOpen(s) \/ HandleClose(s) \/ HandleDeviceConnect(s) \/ HandleDeviceDisconnect(s)
    PROVE  TypeInv'
<1>0. RegistryOK(reg')
  BY SocketsKeepRegistry DEF TypeInv
<1>1. /\ PushOK' /\ LoansOK' /\ NoticesOK'
      /\ lost' = lost /\ retries' = retries /\ silenced' \in BOOLEAN
  BY DEF TypeInv, PushOK, LoansOK, NoticesOK, pushing,
         HandleOpen, HandleClose, HandleDeviceConnect, HandleDeviceDisconnect
<1>2. \A e \in Entries : ent[e].clients \ {s} \in SUBSET Sockets
  BY DEF TypeInv, EntriesOK, Ents
<1>3. EntriesOK'
  <2>1. CASE UNCHANGED <<conns, ent>>
    BY <2>1 DEF TypeInv, EntriesOK
  <2>2. ASSUME conns # NoEntry, ReleaseConnectionEntry(ent[conns].clients \ {s}) PROVE EntriesOK'
    <3>1. conns \in Entries
      BY <2>2 DEF TypeInv, EntriesOK
    <3> QED
      BY <1>2, <2>2, <3>1, ReleasingFits DEF TypeInv
  <2>3. CASE HandleDeviceConnect(s)
    <3>1. CASE JoinEntry(s)
      <4>1. /\ conns \in Entries /\ conns' = conns
            /\ ent' = [ent EXCEPT ![conns].clients = @ \cup {s}]
        BY <2>3, <3>1 DEF TypeInv, EntriesOK, JoinEntry, HandleDeviceConnect
      <4>2. /\ ent' \in [Entries -> Ents]
            /\ \A e \in Entries : /\ ent'[e].timer = ent[e].timer /\ ent'[e].attached = ent[e].attached
                                  /\ ent'[e].rt = ent[e].rt
        BY <4>1 DEF TypeInv, EntriesOK, Ents
      <4> QED
        BY <4>1, <4>2 DEF TypeInv, EntriesOK
    <3>2. CASE AwaitCreation(s) \/ StartCreation(s)
      BY <2>1, <2>3, <3>2 DEF AwaitCreation, StartCreation, HandleDeviceConnect
    <3> QED
      BY <2>3, <3>1, <3>2 DEF HandleDeviceConnect
  <2> QED
    BY <2>1, <2>2, <2>3 DEF HandleOpen, HandleClose, HandleDeviceDisconnect
<1>4. SocketsOK' /\ slips' \subseteq Slips
  <2>1. open' \subseteq Sockets /\ slips' \subseteq Slips
    BY DEF TypeInv, SocketsOK, HandleOpen, HandleClose, HandleDeviceConnect, HandleDeviceDisconnect,
           JoinEntry, AwaitCreation, StartCreation, Slips
  <2>2. told' \in [Sockets -> Tidings]
    BY TellIsTidings DEF TypeInv, SocketsOK, HandleOpen, HandleClose, HandleDeviceConnect,
       HandleDeviceDisconnect, JoinEntry, AwaitCreation, StartCreation, Tidings
  <2>3. /\ create' \in [rt : 0 .. MaxRuntimes, first : SUBSET Sockets, waiting : SUBSET Sockets]
        /\ create'.waiting # {} => create'.rt # 0
    <3>1. CASE create' = create
      BY <3>1 DEF TypeInv, SocketsOK
    <3>2. CASE AwaitCreation(s)
      BY <3>2 DEF TypeInv, SocketsOK, AwaitCreation
    <3>3. CASE StartCreation(s)
      <4>1. reg'.current \in Runtimes
        BY <3>3, AcquiredIsRuntime DEF StartCreation, TypeInv
      <4> HIDE DEF TypeInv
      <4> QED
        BY <3>3, <4>1, RuntimesAre DEF StartCreation
    <3> QED
      BY <3>1, <3>2, <3>3 DEF HandleOpen, HandleClose, HandleDeviceConnect, HandleDeviceDisconnect, JoinEntry
  <2> QED
    BY <1>1, <2>1, <2>2, <2>3 DEF TypeInv, SocketsOK
<1> QED
  BY <1>0, <1>1, <1>3, <1>4 DEF TypeInv

LEMMA ServerKeepsTypes ==
    ASSUME TypeInv,
           CreationSettles \/ WsHearsEnd \/ ReconnectTimerFires \/ \E j \in retries : RetrySettles(j)
    PROVE  TypeInv'
<1>0. RegistryOK(reg')
  BY ServerKeepsRegistry DEF TypeInv
<1>1. /\ PushOK' /\ LoansOK' /\ open' = open /\ silenced' \in BOOLEAN
  BY DEF TypeInv, PushOK, LoansOK, pushing, CreationSettles, WsHearsEnd, ReconnectTimerFires, RetrySettles
<1>2. NoticesOK'
  <2>1. notices' \subseteq notices /\ push' = push
    BY DEF pushing, CreationSettles, WsHearsEnd, ReconnectTimerFires, RetrySettles
  <2> QED
    BY <2>1 DEF TypeInv, NoticesOK
<1>3. CASE CreationSettles
  <2>1. /\ create.rt \in 0 .. MaxRuntimes /\ create.rt # 0 /\ create.waiting \in SUBSET Sockets
    BY <1>3 DEF TypeInv, SocketsOK, CreationSettles
  <2>2. create' = NoCreation /\ retries' = retries
    BY <1>3 DEF CreationSettles
  <2>3. /\ create' \in [rt : 0 .. MaxRuntimes, first : SUBSET Sockets, waiting : SUBSET Sockets]
        /\ create'.waiting = {}
    BY <2>2, RuntimesAre DEF NoCreation
  <2>4. told' \in [Sockets -> Tidings]
    BY <1>3, TellIsTidings DEF TypeInv, SocketsOK, CreationSettles, Tidings
  <2>5. CASE reg.promise[create.rt] = "ok"
    <3> DEFINE new == [NewEntry EXCEPT !.rt = create.rt, !.attached = TRUE, !.clients = create.waiting]
    <3>1. PICK e \in Entries : Replaces(e, new)
      BY <1>3, <2>5 DEF CreationSettles, Unused
    <3>2. new \in Ents /\ new.attached /\ ~new.timer /\ new.rt # 0
      BY <2>1, NewEntryFits DEF Ents
    <3> HIDE DEF new
    <3> QED
      BY <1>0, <1>1, <1>2, <2>2, <2>3, <2>4, <3>1, <3>2, ReplacingFits DEF TypeInv, SocketsOK
  <2>6. CASE reg.promise[create.rt] # "ok"
    <3>1. UNCHANGED <<conns, ent, lost, slips>>
      BY <1>3, <2>6 DEF CreationSettles
    <3> QED
      BY <1>0, <1>1, <1>2, <2>2, <2>3, <2>4, <3>1 DEF TypeInv, SocketsOK, EntriesOK
  <2> QED
    BY <2>5, <2>6
<1>4. CASE WsHearsEnd
  <2>1. HandleConnectionClose(reg, told) /\ UNCHANGED <<create, retries, lost, slips>>
    BY <1>4 DEF WsHearsEnd
  <2>2. EntriesOK' /\ told' \in [Sockets -> Tidings]
    BY <2>1, ClosingFits DEF TypeInv, SocketsOK
  <2> QED
    BY <1>0, <1>1, <1>2, <2>1, <2>2 DEF TypeInv, SocketsOK
<1>5. CASE ReconnectTimerFires
  <2>1. /\ conns \in Entries /\ conns' = conns /\ ent' = [ent EXCEPT ![conns].timer = FALSE]
        /\ ent[conns] \in Ents
        /\ UNCHANGED <<told, create, lost, slips>>
    BY <1>5 DEF TypeInv, EntriesOK, ReconnectTimerFires
  <2>2. EntriesOK'
    <3>1. /\ ent' \in [Entries -> Ents]
          /\ \A e \in Entries : /\ ent'[e].timer => ent[e].timer
                                /\ ent'[e].attached = ent[e].attached /\ ent'[e].rt = ent[e].rt
      BY <2>1 DEF TypeInv, EntriesOK, Ents
    <3> QED
      BY <2>1, <3>1 DEF TypeInv, EntriesOK
  <2>3. retries' \subseteq [ent : Entries, rt : Runtimes, first : Sockets] /\ IsFiniteSet(retries')
    <3>1. CASE retries' = retries
      BY <3>1 DEF TypeInv, SocketsOK
    <3>2. CASE ent[conns].clients # {}
      <4>1. reg'.current \in Runtimes
        BY <1>5, <3>2, AcquiredIsRuntime DEF ReconnectTimerFires, TypeInv
      <4>2. PICK s \in ent[conns].clients :
               retries' = retries \cup {[ent |-> conns, rt |-> reg'.current, first |-> s]}
        BY <1>5, <3>2 DEF ReconnectTimerFires
      <4>3. s \in Sockets
        BY <2>1 DEF Ents
      <4> DEFINE j == [ent |-> conns, rt |-> reg'.current, first |-> s]
      <4>4. j \in [ent : Entries, rt : Runtimes, first : Sockets] /\ retries' = retries \cup {j}
        BY <2>1, <4>1, <4>2, <4>3
      <4> HIDE DEF j
      <4>5. IsFiniteSet(retries \cup {j})
        BY FS_AddElement DEF TypeInv, SocketsOK
      <4> QED
        BY <4>4, <4>5 DEF TypeInv, SocketsOK
    <3> QED
      BY <1>5, <3>1, <3>2 DEF ReconnectTimerFires
  <2> QED
    BY <1>0, <1>1, <1>2, <2>1, <2>2, <2>3 DEF TypeInv, SocketsOK
<1>6. CASE \E j \in retries : RetrySettles(j)
  <2>1. PICK j \in retries : RetrySettles(j)
    BY <1>6
  <2>2. /\ j.ent \in Entries /\ j.rt \in Runtimes /\ j.rt # 0 /\ ent[j.ent] \in Ents
        /\ retries' = retries \ {j} /\ create' = create
    BY <2>1, RuntimesAre DEF TypeInv, SocketsOK, EntriesOK, RetrySettles
  <2>3. retries' \subseteq [ent : Entries, rt : Runtimes, first : Sockets] /\ IsFiniteSet(retries')
    BY <2>2, FS_RemoveElement DEF TypeInv, SocketsOK
  <2>4. CASE reg.promise[j.rt] = "ok"
    <3> DEFINE new == [ent[j.ent] EXCEPT !.rt = j.rt, !.attached = TRUE, !.timer = FALSE]
    <3>1. Replaces(j.ent, new) /\ told' = Tell(told, ent[j.ent].clients, "reconnected")
      BY <2>1, <2>4 DEF RetrySettles
    <3>2. new \in Ents /\ new.attached /\ ~new.timer /\ new.rt # 0
      BY <2>2, RuntimesAre DEF Ents
    <3> HIDE DEF new
    <3>3. told' \in [Sockets -> Tidings]
      BY <3>1, TellIsTidings DEF Tidings, TypeInv, SocketsOK
    <3> QED
      BY <1>0, <1>1, <1>2, <2>2, <2>3, <3>1, <3>2, <3>3, ReplacingFits DEF TypeInv, SocketsOK
  <2>5. CASE reg.promise[j.rt] # "ok"
    <3> DEFINE g == Release(reg, j.rt)
               hears == Tell(told, {j.first}, "error")
    <3>1. RetryFails(j.ent, g, hears) /\ UNCHANGED <<lost, slips>>
      BY <2>1, <2>5 DEF RetrySettles
    <3>2. hears \in [Sockets -> Tidings]
      BY TellIsTidings DEF Tidings, TypeInv, SocketsOK
    <3> HIDE DEF g, hears
    <3>3. EntriesOK' /\ told' \in [Sockets -> Tidings]
      <4>1. CASE HandleConnectionClose(g, hears)
        BY <3>2, <4>1, ClosingFits DEF TypeInv
      <4>2. CASE ~HandleConnectionClose(g, hears)
        <5>1. told' = Tell(hears, ent[j.ent].clients, "reconnect_failed") /\ UNCHANGED <<conns, ent>>
          BY <3>1, <4>2 DEF RetryFails
        <5>2. told' \in [Sockets -> Tidings]
          BY <3>2, <5>1, TellIsTidings DEF Tidings
        <5> QED
          BY <5>1, <5>2 DEF TypeInv, EntriesOK
      <4> QED
        BY <4>1, <4>2
    <3> QED
      BY <1>0, <1>1, <1>2, <2>2, <2>3, <3>1, <3>3 DEF TypeInv, SocketsOK
  <2> QED
    BY <2>4, <2>5
<1> QED
  BY <1>3, <1>4, <1>5, <1>6

\* What the supervisor keeps to when it connects, after it has disowned the jobs
\* of the entry it tore down, or there were none that count.
LEMMA ConnectingFits ==
    ASSUME NEW g, RegistryOK(g), NEW jobs, jobs \subseteq Jobs, IsFiniteSet(jobs), PushConnects(g, jobs),
           strays' \in [Runtimes -> Nat]
    PROVE  /\ PushOK' /\ push'.is = "on" /\ push'.rt \in Runtimes
           /\ RegistryOK(reg')
<1> DEFINE j == [at |-> "connect", rt |-> reg'.current, own |-> TRUE, fresh |-> TRUE]
<1>1. RegistryOK(reg') /\ reg'.current \in Runtimes
  BY AcquiredIsRuntime DEF PushConnects
<1>2. /\ push' = [is |-> "on", rt |-> reg'.current, timer |-> FALSE] /\ pushJobs' = jobs \cup {j}
  BY DEF PushConnects
<1>3. j \in Jobs
  BY <1>1 DEF Jobs
<1> HIDE DEF j
<1>4. pushJobs' \subseteq Jobs /\ IsFiniteSet(pushJobs')
  BY <1>2, <1>3, FS_AddElement
<1> QED
  BY <1>1, <1>2, <1>4, RuntimesAre DEF PushOK

LEMMA DisownedFits ==
    ASSUME pushJobs \subseteq Jobs, IsFiniteSet(pushJobs)
    PROVE  Disowned \subseteq Jobs /\ IsFiniteSet(Disowned) /\ \A j \in Disowned : ~j.own
<1>1. \A j \in pushJobs : [j EXCEPT !.own = FALSE] \in Jobs /\ ~[j EXCEPT !.own = FALSE].own
  BY DEF Jobs
<1> DEFINE f == [j \in pushJobs |-> [j EXCEPT !.own = FALSE]]
<1>2. Disowned = {f[j] : j \in pushJobs}
  BY DEF Disowned
<1>3. f \in Surjection(pushJobs, Disowned)
  BY <1>2 DEF Surjection
<1>4. IsFiniteSet(Disowned)
  BY <1>3, FS_Surjection
<1> QED
  BY <1>1, <1>4 DEF Disowned

LEMMA PushKeepsTypes ==
    ASSUME TypeInv,
           \/ PushUpsert \/ PushReconnect \/ PushRemove \/ PushHearsEnd \/ PushTimerFires
           \/ \E j \in pushJobs : PushConnectSettles(j) \/ PushAlertSent(j)
    PROVE  TypeInv'
<1>0. RegistryOK(reg')
  BY PushKeepsRegistry DEF TypeInv
<1>1. /\ SocketsOK' /\ EntriesOK' /\ LoansOK' /\ notices' \subseteq notices
      /\ slips' \subseteq Slips /\ silenced' \in BOOLEAN
  <2>1. UNCHANGED <<ws, lent>> /\ notices' \subseteq notices
    BY DEF PushUpsert, PushReconnect, PushRemove, PushHearsEnd, PushTimerFires, PushConnects,
           PushConnectSettles, PushAlertSent
  <2>2. slips' \subseteq Slips
    BY DEF TypeInv, Slips, PushUpsert, PushReconnect, PushRemove, PushHearsEnd, PushTimerFires,
           PushConnectSettles, PushAlertSent
  <2>3. silenced' \in BOOLEAN
    BY Zenon DEF TypeInv, PushUpsert, PushReconnect, PushRemove, PushHearsEnd, PushTimerFires,
                 PushConnectSettles, PushAlertSent
  <2> QED
    BY <2>1, <2>2, <2>3 DEF TypeInv, SocketsOK, EntriesOK, LoansOK, ws
<1>2. CASE PushUpsert \/ PushTimerFires \/ PushReconnect
  <2>1. notices' = notices /\ notices = {} /\ strays' = strays
    BY <1>2 DEF PushUpsert, PushTimerFires, PushReconnect, Quiet
  <2>2. PushOK'
    <3>1. RegistryOK(TornDown)
      BY ReleaseKeepsRegistry DEF TornDown, TypeInv
    <3>2. CASE PushUpsert \/ PushTimerFires
      <4>1. PushConnects(reg, pushJobs)
        BY <3>2 DEF PushUpsert, PushTimerFires
      <4> QED
        BY <2>1, <4>1, ConnectingFits DEF TypeInv, PushOK
    <3>3. CASE PushReconnect
      <4>1. PushConnects(TornDown, Disowned)
        BY <3>3 DEF PushReconnect
      <4> QED
        BY <2>1, <3>1, <4>1, DisownedFits, ConnectingFits DEF TypeInv, PushOK
    <3> QED
      BY <1>2, <3>2, <3>3
  <2> QED
    BY <1>0, <1>1, <2>1, <2>2 DEF TypeInv, NoticesOK
<1>3. CASE PushRemove
  <2>1. /\ notices' = notices /\ notices = {} /\ strays' = strays /\ pushJobs' = Disowned
        /\ push' = [is |-> "gone", rt |-> 0, timer |-> FALSE]
    BY <1>3 DEF PushRemove, Quiet
  <2>2. PushOK'
    BY <2>1, DisownedFits, RuntimesAre DEF TypeInv, PushOK
  <2> QED
    BY <1>0, <1>1, <2>1, <2>2 DEF TypeInv, NoticesOK
<1>4. CASE PushHearsEnd
  <2>1. PICK n \in notices :
          /\ n[1] = "push"
          /\ pushJobs' = pushJobs \cup {[at |-> "closed", rt |-> n[2], own |-> TRUE, fresh |-> TRUE]}
          /\ push' = push /\ strays' = strays
    BY <1>4 DEF PushHearsEnd
  <2>2. n[2] = push.rt /\ push.rt \in Runtimes
    BY <2>1, RuntimesAre DEF TypeInv, NoticesOK, PushOK
  <2> DEFINE j == [at |-> "closed", rt |-> n[2], own |-> TRUE, fresh |-> TRUE]
  <2>3. j \in Jobs /\ j.at # "connect"
    BY <2>2 DEF Jobs
  <2>4. pushJobs' = pushJobs \cup {j}
    BY <2>1
  <2> HIDE DEF j
  <2>5. IsFiniteSet(pushJobs')
    BY <2>4, FS_AddElement DEF TypeInv, PushOK
  <2>6. push.is = "on"
    BY <2>2, RuntimesAre DEF TypeInv, PushOK
  <2>7. PushOK'
    BY <2>1, <2>3, <2>4, <2>5, <2>6 DEF TypeInv, PushOK
  <2> QED
    BY <1>0, <1>1, <2>1, <2>7 DEF TypeInv, NoticesOK
<1>5. ASSUME NEW j \in pushJobs, PushConnectSettles(j) PROVE TypeInv'
  <2>1. j \in Jobs
    BY DEF TypeInv, PushOK
  <2>2. pushJobs' \subseteq Jobs /\ IsFiniteSet(pushJobs')
        /\ \A i \in pushJobs' : i \in pushJobs \/ (i.own = j.own /\ i.at = "failed")
    <3> DEFINE i == [j EXCEPT !.at = "failed"]
    <3>1. i \in Jobs /\ i.own = j.own /\ i.at = "failed"
      BY <2>1 DEF Jobs
    <3>2. pushJobs' = pushJobs \ {j} \/ pushJobs' = (pushJobs \ {j}) \cup {i}
      BY <1>5 DEF PushConnectSettles
    <3> HIDE DEF i
    <3>3. IsFiniteSet(pushJobs \ {j}) /\ IsFiniteSet((pushJobs \ {j}) \cup {i})
      <4>1. IsFiniteSet(pushJobs \ {j})
        BY FS_RemoveElement DEF TypeInv, PushOK
      <4> QED
        BY <4>1, FS_AddElement
    <3> QED
      BY <3>1, <3>2, <3>3 DEF TypeInv, PushOK
  <2>3. /\ push' \in [is : {"new", "on", "gone"}, rt : 0 .. MaxRuntimes, timer : BOOLEAN]
        /\ push'.is = push.is /\ push'.timer = push.timer /\ push'.rt \in {0, push.rt}
    <3>1. push' = push \/ push' = [push EXCEPT !.rt = 0]
      BY <1>5 DEF PushConnectSettles
    <3> QED
      BY <3>1, RuntimesAre DEF TypeInv, PushOK
  <2>4. strays' \in [Runtimes -> Nat]
    <3>1. strays' = strays \/ strays' = [strays EXCEPT ![push.rt] = strays[push.rt] + 1]
      BY <1>5 DEF PushConnectSettles
    <3>2. push.rt \in Runtimes => strays[push.rt] + 1 \in Nat
      BY DEF TypeInv, PushOK
    <3> QED
      BY <3>1, <3>2 DEF TypeInv, PushOK
  <2>5. PushOK'
    BY <2>2, <2>3, <2>4 DEF TypeInv, PushOK
  <2>6. notices = {}
    BY <1>5 DEF PushConnectSettles, GoesOn
  <2> QED
    BY <1>0, <1>1, <2>5, <2>6 DEF TypeInv, NoticesOK
<1>6. ASSUME NEW j \in pushJobs, PushAlertSent(j) PROVE TypeInv'
  <2>1. j \in Jobs /\ pushJobs \subseteq Jobs /\ IsFiniteSet(pushJobs)
        /\ push \in [is : {"new", "on", "gone"}, rt : 0 .. MaxRuntimes, timer : BOOLEAN]
    BY DEF TypeInv, PushOK
  <2>2. pushJobs' = {IF j.own /\ i.own THEN [i EXCEPT !.fresh = FALSE] ELSE i : i \in pushJobs \ {j}}
    BY <1>6 DEF PushAlertSent
  <2>3. /\ pushJobs' \subseteq Jobs /\ IsFiniteSet(pushJobs')
        /\ \A i \in pushJobs' : \E k \in pushJobs : i.own = k.own /\ i.at = k.at /\ (i.fresh => k.fresh)
        /\ j.own => \A i \in pushJobs' : ~(i.own /\ i.fresh)
    <3> DEFINE G(i) == IF j.own /\ i.own THEN [i EXCEPT !.fresh = FALSE] ELSE i
               f == [i \in pushJobs \ {j} |-> G(i)]
    <3>1. \A i \in Jobs : /\ G(i) \in Jobs /\ G(i).own = i.own /\ G(i).at = i.at
                          /\ (G(i).fresh => i.fresh) /\ (j.own => ~(G(i).own /\ G(i).fresh))
      BY DEF Jobs
    <3>2. pushJobs' = {f[i] : i \in pushJobs \ {j}} /\ pushJobs' = {G(i) : i \in pushJobs \ {j}}
      BY <2>2
    <3>3. f \in Surjection(pushJobs \ {j}, pushJobs')
      BY <3>2 DEF Surjection
    <3>4. IsFiniteSet(pushJobs')
      <4>1. IsFiniteSet(pushJobs \ {j})
        BY <2>1, FS_RemoveElement
      <4> HIDE DEF f
      <4> QED
        BY <3>3, <4>1, FS_Surjection
    <3> HIDE DEF G, f
    <3>5. \A i \in pushJobs' : \E k \in pushJobs : k \in Jobs /\ i = G(k)
      BY <2>1, <3>2
    <3>6. ASSUME NEW i \in pushJobs'
          PROVE  /\ i \in Jobs /\ (j.own => ~(i.own /\ i.fresh))
                 /\ \E k \in pushJobs : i.own = k.own /\ i.at = k.at /\ (i.fresh => k.fresh)
      <4>1. PICK k \in pushJobs : k \in Jobs /\ i = G(k)
        BY <3>5
      <4> QED
        BY <3>1, <4>1
    <3> QED
      BY <3>4, <3>6
  <2>4. /\ push' \in [is : {"new", "on", "gone"}, rt : 0 .. MaxRuntimes, timer : BOOLEAN]
        /\ push'.is = push.is
        /\ ~j.own => push' = push
        /\ j.own => push'.rt = 0
    BY <1>6, <2>1, RuntimesAre DEF PushAlertSent, ScheduleReconnect
  <2>5. strays' \in [Runtimes -> Nat]
    <3>1. strays' = strays \/ strays' = [strays EXCEPT ![push.rt] = strays[push.rt] + 1]
      BY <1>6 DEF PushAlertSent
    <3>2. push.rt \in Runtimes => strays[push.rt] + 1 \in Nat
      BY DEF TypeInv, PushOK
    <3> QED
      BY <3>1, <3>2 DEF TypeInv, PushOK
  <2>6. PushOK'
    <3>1. CASE j.own
      <4>1. push.is = "on"
        BY <2>1, <3>1 DEF TypeInv, PushOK
      <4> QED
        BY <2>3, <2>4, <2>5, <3>1, <4>1 DEF PushOK
    <3>2. CASE ~j.own
      <4>1. push.is # "new"
        BY DEF TypeInv, PushOK
      <4> QED
        BY <2>3, <2>4, <2>5, <3>2, <4>1 DEF TypeInv, PushOK
    <3> QED
      BY <3>1, <3>2
  <2>7. notices = {}
    BY <1>6 DEF PushAlertSent, Quiet
  <2> QED
    BY <1>0, <1>1, <2>6, <2>7 DEF TypeInv, NoticesOK
<1> QED
  BY <1>2, <1>3, <1>4, <1>5, <1>6

LEMMA OthersKeepTypes ==
    ASSUME TypeInv,
           \/ \E b \in Borrowers : Borrow(b) \/ GiveBack(b)
           \/ \E r \in Runtimes : ConnectSettles(r) \/ RuntimeEnds(r)
    PROVE  TypeInv'
<1>0. RegistryOK(reg')
  BY OthersKeepRegistry DEF TypeInv
<1>1. UNCHANGED <<ws, pushing, slips>>
  BY DEF Borrow, GiveBack, ConnectSettles, RuntimeEnds
<1>2. SocketsOK' /\ EntriesOK' /\ PushOK' /\ slips' \subseteq Slips /\ silenced' \in BOOLEAN
  BY <1>1 DEF TypeInv, SocketsOK, EntriesOK, PushOK, ws, pushing
<1>3. ASSUME NEW b \in Borrowers, Borrow(b) \/ GiveBack(b) PROVE TypeInv'
  <2>1. lent \in [Borrowers -> [rt : 0 .. MaxRuntimes, waits : BOOLEAN]]
    BY DEF TypeInv, LoansOK
  <2>2. PICK x \in [rt : 0 .. MaxRuntimes, waits : BOOLEAN] : lent' = [lent EXCEPT ![b] = x]
    <3>1. CASE Borrow(b)
      <4>1. PICK waits \in BOOLEAN :
              /\ reg' = IF waits THEN AcquireConnected(reg) ELSE Acquire(reg)
              /\ lent' = [lent EXCEPT ![b] = [rt |-> reg'.current, waits |-> waits]]
        BY <3>1 DEF Borrow
      <4>2. CanAcquire(reg)
        BY <3>1 DEF Borrow
      <4>3. reg'.current \in Runtimes
        BY <4>1, <4>2, AcquireKeepsRegistry, AcquireConnectedKeepsRegistry DEF TypeInv
      <4> QED
        BY <4>1, <4>3, RuntimesAre
    <3>2. CASE GiveBack(b)
      BY <3>2, RuntimesAre DEF GiveBack, NoLoan
    <3> QED
      BY <1>3, <3>1, <3>2
  <2>3. IsFiniteSet({a \in Borrowers : lent'[a].rt # 0})
    <3> DEFINE S == {a \in Borrowers : lent[a].rt # 0}
    <3>1. IsFiniteSet(S \cup {b})
      BY FS_AddElement DEF TypeInv, LoansOK
    <3>2. {a \in Borrowers : lent'[a].rt # 0} \subseteq S \cup {b}
      BY <2>1, <2>2
    <3> QED
      BY <3>1, <3>2, FS_Subset
  <2>4. LoansOK' /\ notices' = notices
    BY <1>3, <2>1, <2>2, <2>3 DEF LoansOK, Borrow, GiveBack
  <2> QED
    BY <1>0, <1>1, <1>2, <2>4 DEF TypeInv, NoticesOK, pushing
<1>4. ASSUME NEW r \in Runtimes, ConnectSettles(r) \/ RuntimeEnds(r) PROVE TypeInv'
  <2>1. LoansOK' /\ push' = push
    BY <1>1, <1>4 DEF TypeInv, LoansOK, ConnectSettles, RuntimeEnds, pushing
  <2>2. NoticesOK'
    <3>1. notices' \in {notices, Listeners(r)}
      BY <1>4 DEF ConnectSettles, RuntimeEnds
    <3>2. \A n \in Listeners(r) : n[1] = "push" => n[2] = push.rt /\ push.rt # 0
      BY RuntimesAre DEF Listeners
    <3> QED
      BY <2>1, <3>1, <3>2 DEF TypeInv, NoticesOK
  <2> QED
    BY <1>0, <1>2, <2>1, <2>2 DEF TypeInv
<1> QED
  BY <1>3, <1>4

LEMMA InitTypes == Init => TypeInv
<1> SUFFICES ASSUME Init PROVE TypeInv
  OBVIOUS
<1>1. RegistryOK(reg)
  BY InitRegistry DEF Init
<1>2. IsFiniteSet(retries) /\ IsFiniteSet(pushJobs) /\ IsFiniteSet({b \in Borrowers : lent[b].rt # 0})
  <2>1. {b \in Borrowers : lent[b].rt # 0} = {} /\ retries = {} /\ pushJobs = {}
    BY DEF Init, NoLoan
  <2> QED
    BY <2>1, FS_EmptySet
<1>3. SocketsOK
  BY <1>2, RuntimesAre DEF Init, SocketsOK, NoCreation, Tidings
<1>4. EntriesOK
  BY NewEntryFits, HoldersAssumption DEF Init, EntriesOK
<1>5. PushOK /\ LoansOK /\ NoticesOK /\ slips \subseteq Slips /\ silenced \in BOOLEAN
  BY <1>2, RuntimesAre DEF Init, PushOK, LoansOK, NoticesOK, NoPush, NoLoan
<1> QED
  BY <1>1, <1>3, <1>4, <1>5 DEF TypeInv

LEMMA NextTypes == TypeInv /\ [Next]_vars => TypeInv'
<1> SUFFICES ASSUME TypeInv, [Next]_vars PROVE TypeInv'
  OBVIOUS
<1>1. CASE UNCHANGED vars
  BY <1>1 DEF vars, ws, pushing, TypeInv, SocketsOK, EntriesOK, PushOK, LoansOK, NoticesOK
<1>2. CASE Next
  BY <1>2, SocketsKeepTypes, ServerKeepsTypes, PushKeepsTypes, OthersKeepTypes DEF Next
<1> QED
  BY <1>1, <1>2

-----------------------------------------------------------------------------
(* Who holds a runtime, counted; and who waits for its connect()           *)

\* Those of S that are of runtime r.
Of(S, r) == {j \in S : j.rt = r}

EntryHas(r)    == IF conns # NoEntry /\ ent[conns].attached /\ ent[conns].rt = r THEN 1 ELSE 0
CreationHas(r) == IF create.rt = r THEN 1 ELSE 0
RetriesHave(r) == Cardinality(Of(retries, r))
ServerHas(r)   == EntryHas(r) + CreationHas(r) + RetriesHave(r) + lost[r]

\* Jobs that were overtaken: they release what they wait for.
Late       == {j \in pushJobs : j.at = "connect" /\ ~j.fresh}
PushHas(r) == IF push.rt = r THEN 1 ELSE 0
LateHave(r)      == Cardinality(Of(Late, r))
SupervisorHas(r) == PushHas(r) + LateHave(r) + strays[r]

LoansHave(r) == Cardinality({b \in Borrowers : lent[b].rt = r})

Held(r) == ServerHas(r) + SupervisorHas(r) + LoansHave(r)

NoneAlive(g) == \A r \in Runtimes : ~Alive(g, r)

\* Listeners are told only of the end of the one runtime there was.
LifeInv == LivesMatch(reg) /\ (notices # {} => NoneAlive(reg))

CountsOK == \A r \in Runtimes : HeldBy(reg, r, Held(r))

\* An entry that listens no longer had a runtime that is gone; one with a timer
\* has no retry that waits.
DetachedOK ==
    /\ \A e \in Entries : ent[e].rt # 0 /\ ~ent[e].attached => Terminated(reg, ent[e].rt)
    /\ \A j \in retries : ent[j.ent].timer => Settled(j.rt)

\* The job of the supervisor's entry, or one that is late.
Own(j)   == j.at = "connect" /\ j.own /\ j.fresh
Waits(j) == j.at = "connect" /\ (j.own \/ ~j.fresh)

Awaits(r) == \/ create.rt = r
             \/ \E j \in retries : j.rt = r
             \/ \E j \in pushJobs : Waits(j) /\ j.rt = r

\* What those who wait for r find: nothing has been acquired since it settled.
Heard(g, r) == /\ g.promise[r] # "none"
               /\ g.promise[r] = "failed" => NoneAlive(g)
               /\ g.promise[r] = "ok" => \A s \in Runtimes : g.life[s] # "connecting"

AwaitedOK == \A r \in Runtimes : Awaits(r) => Heard(reg, r)

\* The supervisor's connect() is of the runtime it holds, or that one has strayed;
\* an alert is sent of a runtime that is gone.
JobsOK ==
    /\ \A j \in pushJobs : Own(j) => j.rt = push.rt \/ (Settled(j.rt) /\ strays[j.rt] # 0)
    /\ \A j \in pushJobs : j.at # "connect" => Terminated(reg, j.rt)
    /\ push.rt # 0 => reg.promise[push.rt] # "none"
    /\ push.rt # 0 /\ reg.promise[push.rt] = "pending" => \E j \in pushJobs : Own(j) /\ j.rt = push.rt

\* An entry without a runtime has a timer, unless an older connect took the runtime
\* away; and one whose runtime is gone will hear.
AwakeOK ==
    /\ push.is = "on" /\ push.rt = 0 => push.timer \/ silenced
    /\ push.rt # 0 /\ ~Alive(reg, push.rt) =>
          \/ \E n \in notices : n[1] = "push"
          \/ \E j \in pushJobs : j.own /\ j.at # "connect"
          \/ reg.promise[push.rt] = "failed" /\ \E j \in pushJobs : Own(j) /\ j.rt = push.rt

Sound == CountsOK /\ DetachedOK /\ AwaitedOK /\ JobsOK /\ AwakeOK

\* Until the supervisor has released a live runtime twice.
SoundInv == "stolen" \notin slips => Sound

-----------------------------------------------------------------------------
(* Counting                                                                *)

LEMMA OneMore ==
    ASSUME NEW S, IsFiniteSet(S), NEW y, y \notin S, NEW r
    PROVE  /\ Cardinality(Of(S, r)) \in Nat
           /\ y.rt = r => Cardinality(Of(S \cup {y}, r)) = Cardinality(Of(S, r)) + 1
           /\ y.rt # r => Cardinality(Of(S \cup {y}, r)) = Cardinality(Of(S, r))
<1>1. IsFiniteSet(Of(S, r))
  BY FS_Subset DEF Of
<1>2. Cardinality(Of(S, r)) \in Nat
  BY <1>1, FS_CardinalityType
<1>3. ASSUME y.rt = r
      PROVE  Cardinality(Of(S \cup {y}, r)) = Cardinality(Of(S, r)) + 1
  <2>1. Of(S \cup {y}, r) = Of(S, r) \cup {y} /\ y \notin Of(S, r)
    BY <1>3 DEF Of
  <2> QED
    BY <1>1, <2>1, FS_AddElement
<1>4. ASSUME y.rt # r
      PROVE  Cardinality(Of(S \cup {y}, r)) = Cardinality(Of(S, r))
  <2>1. Of(S \cup {y}, r) = Of(S, r)
    BY <1>4 DEF Of
  <2> QED
    BY <2>1
<1> QED
  BY <1>2, <1>3, <1>4

LEMMA OneLess ==
    ASSUME NEW S, IsFiniteSet(S), NEW y \in S, NEW r
    PROVE  /\ Cardinality(Of(S \ {y}, r)) \in Nat
           /\ y.rt = r => Cardinality(Of(S, r)) = Cardinality(Of(S \ {y}, r)) + 1
           /\ y.rt # r => Cardinality(Of(S, r)) = Cardinality(Of(S \ {y}, r))
<1> DEFINE R == S \ {y}
<1>1. IsFiniteSet(R) /\ y \notin R
  BY FS_RemoveElement
<1>2. S = R \cup {y}
  OBVIOUS
<1> HIDE DEF R
<1>3. /\ Cardinality(Of(R, r)) \in Nat
      /\ y.rt = r => Cardinality(Of(R \cup {y}, r)) = Cardinality(Of(R, r)) + 1
      /\ y.rt # r => Cardinality(Of(R \cup {y}, r)) = Cardinality(Of(R, r))
  BY <1>1, OneMore
<1> QED
  BY <1>2, <1>3 DEF R

\* All counts are numbers.
LEMMA CountsAreNumbers ==
    ASSUME TypeInv, NEW r \in Runtimes
    PROVE  /\ EntryHas(r) \in {0, 1} /\ CreationHas(r) \in {0, 1} /\ RetriesHave(r) \in Nat
           /\ lost[r] \in Nat /\ PushHas(r) \in {0, 1} /\ LateHave(r) \in Nat
           /\ strays[r] \in Nat /\ LoansHave(r) \in Nat
           /\ IsFiniteSet(Late)
           /\ ServerHas(r) \in Nat /\ SupervisorHas(r) \in Nat /\ Held(r) \in Nat
<1>1. EntryHas(r) \in {0, 1} /\ CreationHas(r) \in {0, 1} /\ PushHas(r) \in {0, 1}
  BY DEF EntryHas, CreationHas, PushHas
<1>2. RetriesHave(r) \in Nat
  <2>1. IsFiniteSet(Of(retries, r))
    BY FS_Subset DEF TypeInv, SocketsOK, Of
  <2> QED
    BY <2>1, FS_CardinalityType DEF RetriesHave
<1>3. IsFiniteSet(Late) /\ LateHave(r) \in Nat
  <2>1. IsFiniteSet(Late)
    BY FS_Subset DEF TypeInv, PushOK, Late
  <2>2. IsFiniteSet(Of(Late, r))
    BY <2>1, FS_Subset DEF Of
  <2> QED
    BY <2>1, <2>2, FS_CardinalityType DEF LateHave
<1>4. LoansHave(r) \in Nat
  <2>1. {b \in Borrowers : lent[b].rt = r} \subseteq {b \in Borrowers : lent[b].rt # 0}
    BY RuntimesAre
  <2>2. IsFiniteSet({b \in Borrowers : lent[b].rt = r})
    BY <2>1, FS_Subset DEF TypeInv, LoansOK
  <2> QED
    BY <2>2, FS_CardinalityType DEF LoansHave
<1>5. lost[r] \in Nat /\ strays[r] \in Nat
  BY DEF TypeInv, SocketsOK, PushOK
<1>6. ServerHas(r) \in Nat
  BY <1>1, <1>2, <1>5 DEF ServerHas
<1>7. SupervisorHas(r) \in Nat
  BY <1>1, <1>3, <1>5 DEF SupervisorHas
<1>8. Held(r) \in Nat
  BY <1>4, <1>6, <1>7 DEF Held
<1> QED
  BY <1>1, <1>2, <1>3, <1>4, <1>5, <1>6, <1>7, <1>8

\* What is waited for is held.
LEMMA ElementCounts ==
    ASSUME NEW S, IsFiniteSet(S), NEW j \in S
    PROVE  Cardinality(Of(S, j.rt)) # 0
<1>1. IsFiniteSet(Of(S, j.rt)) /\ Of(S, j.rt) # {}
  BY FS_Subset DEF Of
<1> QED
  BY <1>1, FS_EmptySet

LEMMA AwaitedIsHeld ==
    ASSUME TypeInv, JobsOK, NEW r \in Runtimes, Awaits(r)
    PROVE  Held(r) # 0
<1>1. /\ EntryHas(r) \in {0, 1} /\ CreationHas(r) \in {0, 1} /\ RetriesHave(r) \in Nat
      /\ lost[r] \in Nat /\ PushHas(r) \in {0, 1} /\ LateHave(r) \in Nat
      /\ strays[r] \in Nat /\ LoansHave(r) \in Nat
      /\ IsFiniteSet(Late) /\ IsFiniteSet(retries)
  BY CountsAreNumbers DEF TypeInv, SocketsOK
<1>2. CreationHas(r) # 0 \/ RetriesHave(r) # 0 \/ PushHas(r) # 0 \/ LateHave(r) # 0 \/ strays[r] # 0
  <2>1. CASE create.rt = r
    BY <2>1 DEF CreationHas
  <2>2. CASE \E j \in retries : j.rt = r
    <3>1. PICK j \in retries : j.rt = r
      BY <2>2
    <3> QED
      BY <1>1, <3>1, ElementCounts DEF RetriesHave
  <2>3. CASE \E j \in pushJobs : Waits(j) /\ j.rt = r
    <3>1. PICK j \in pushJobs : Waits(j) /\ j.rt = r
      BY <2>3
    <3>2. CASE Own(j)
      BY <3>1, <3>2 DEF JobsOK, PushHas
    <3>3. CASE ~Own(j)
      <4>1. j \in Late
        BY <3>1, <3>3 DEF Own, Waits, Late
      <4> QED
        BY <1>1, <3>1, <4>1, ElementCounts DEF LateHave
    <3> QED
      BY <3>2, <3>3
  <2> QED
    BY <2>1, <2>2, <2>3 DEF Awaits
<1> DEFINE n1 == EntryHas(r)
           n2 == CreationHas(r)
           n3 == RetriesHave(r)
           n4 == lost[r]
           n5 == PushHas(r)
           n6 == LateHave(r)
           n7 == strays[r]
           n8 == LoansHave(r)
<1>3. Held(r) = ((n1 + n2 + n3 + n4) + (n5 + n6 + n7)) + n8
  BY DEF Held, ServerHas, SupervisorHas
<1>4. /\ n1 \in Nat /\ n2 \in Nat /\ n3 \in Nat /\ n4 \in Nat
      /\ n5 \in Nat /\ n6 \in Nat /\ n7 \in Nat /\ n8 \in Nat
      /\ n2 # 0 \/ n3 # 0 \/ n5 # 0 \/ n6 # 0 \/ n7 # 0
  BY <1>1, <1>2
<1> HIDE DEF n1, n2, n3, n4, n5, n6, n7, n8
<1>5. ((n1 + n2 + n3 + n4) + (n5 + n6 + n7)) + n8 # 0
  BY <1>4
<1> QED
  BY <1>3, <1>5

\* What is held has been made, and was not shut down.
LEMMA HeldIsMade ==
    ASSUME NEW g, RegistryOK(g), NEW r \in Runtimes, NEW n, HeldBy(g, r, n), n # 0
    PROVE  g.life[r] \notin {"unmade", "shut"} /\ (~Alive(g, r) => g.life[r] = "lost")
<1>1. g.life[r] # "unmade"
  <2>1. ~(r > g.made)
    BY DEF HeldBy
  <2>2. r <= g.made
    BY <2>1, MaxRuntimesAssumption DEF RegistryOK, Registries, Runtimes
  <2> QED
    BY <2>2 DEF RegistryOK, Numbered
<1> QED
  BY <1>1 DEF HeldBy, Alive, RegistryOK, Registries, Lives

\* When all is quiet, who waits does so for a runtime that connects, and the only
\* one that lives.
LEMMA QuietWaits ==
    ASSUME TypeInv, LifeInv, CountsOK, AwaitedOK, JobsOK, Quiet, NEW r \in Runtimes, Awaits(r)
    PROVE  /\ reg.promise[r] = "pending" /\ reg.life[r] = "connecting"
           /\ \A s \in Runtimes : Alive(reg, s) => s = r
<1>1. ~Settled(r) /\ reg.promise[r] # "none"
  <2>1. ~Settled(r)
    BY RuntimesAre DEF Quiet, Awaits, Waits
  <2> QED
    BY <2>1 DEF AwaitedOK, Heard
<1>2. reg \in Registries /\ OnlyCurrentLives(reg)
  BY DEF TypeInv, RegistryOK
<1>3. reg.promise[r] = "pending"
  BY <1>1, <1>2 DEF Settled, Registries, Promises
<1>4. reg.life[r] \notin {"unmade", "shut"}
  BY AwaitedIsHeld, HeldIsMade DEF CountsOK, TypeInv
<1>5. reg.life[r] = "connecting"
  BY <1>2, <1>3, <1>4 DEF LifeInv, LivesMatch, Registries, Lives
<1> QED
  BY <1>2, <1>3, <1>5 DEF OnlyCurrentLives, Alive

-----------------------------------------------------------------------------
(* The registry goes on: all but the connection's own events               *)

\* Nothing is acquired: what lives has lived before, as it did.
Fades(g, h) == /\ Goes(g, h) /\ LivesMatch(h)
               /\ \A r \in Runtimes : Alive(h, r) => Alive(g, r) /\ h.life[r] = g.life[r]

LEMMA SameFades == ASSUME NEW g, LivesMatch(g) PROVE Fades(g, g)
BY DEF Fades, Goes

LEMMA FadesOnAndOn ==
    ASSUME NEW g, NEW h, NEW k, Fades(g, h), Fades(h, k)
    PROVE  Fades(g, k)
BY GoesOnAndOn DEF Fades

LEMMA ReleaseFades ==
    ASSUME NEW g, RegistryOK(g), LivesMatch(g), NEW r \in Runtimes
    PROVE  Fades(g, Release(g, r)) /\ RegistryOK(Release(g, r)) /\ LivesMatch(Release(g, r))
BY ReleaseGoes DEF Fades

LEMMA NoneAliveStays ==
    ASSUME NEW g, NEW h, Fades(g, h), NoneAlive(g)
    PROVE  NoneAlive(h)
BY DEF Fades, NoneAlive

LEMMA EntryRuntime == ASSUME TypeInv, conns # NoEntry PROVE ent[conns].rt \in Runtimes /\ conns \in Entries
<1>1. conns \in Entries /\ ent[conns] \in Ents /\ ent[conns].rt # 0
  BY DEF TypeInv, EntriesOK
<1> QED
  BY <1>1, RuntimesAre DEF Ents

LEMMA ClosingFades ==
    ASSUME TypeInv, NEW g, RegistryOK(g), LivesMatch(g), NEW hears, HandleConnectionClose(g, hears)
    PROVE  Fades(g, reg')
<1>1. CASE conns = NoEntry
  BY <1>1, SameFades DEF HandleConnectionClose
<1>2. CASE conns # NoEntry
  BY <1>2, EntryRuntime, ReleaseFades DEF HandleConnectionClose
<1> QED
  BY <1>1, <1>2

LEMMA ReleasingFades ==
    ASSUME TypeInv, LifeInv, conns # NoEntry, NEW rest, ReleaseConnectionEntry(rest)
    PROVE  Fades(reg, reg')
<1>1. RegistryOK(reg) /\ LivesMatch(reg)
  BY DEF TypeInv, LifeInv
<1> QED
  BY <1>1, EntryRuntime, ReleaseFades, SameFades DEF ReleaseConnectionEntry

\* What acquire() and connect() do to the registry, after whatever fades.
LEMMA AcquiredGoes ==
    ASSUME NEW g, RegistryOK(g), LivesMatch(g), CanAcquire(g), reg' = AcquireConnected(g)
    PROVE  /\ Goes(g, reg') /\ LivesMatch(reg')
           /\ reg'.current \in Runtimes /\ Alive(reg', reg'.current)
           /\ reg'.promise[reg'.current] \in {"pending", "ok"}
<1>1. reg' = Connect(Acquire(g), Acquire(g).current)
  BY DEF AcquireConnected
<1>2. Goes(g, reg') /\ LivesMatch(reg') /\ reg'.current \in Runtimes /\ Alive(reg', reg'.current)
  BY <1>1, AcquireGoes
<1>3. reg'.promise[reg'.current] \in {"pending", "ok"}
  BY <1>1, ConnectLives
<1> QED
  BY <1>2, <1>3

LEMMA SocketsGo ==
    ASSUME TypeInv, LifeInv, NEW s \in Sockets,
           HandleOpen(s) \/ HandleClose(s) \/ HandleDeviceConnect(s) \/ HandleDeviceDisconnect(s)
    PROVE  Goes(reg, reg') /\ LivesMatch(reg') /\ notices' = {}
<1>0. RegistryOK(reg) /\ LivesMatch(reg)
  BY DEF TypeInv, LifeInv
<1>1. notices' = {}
  BY DEF HandleOpen, HandleClose, HandleDeviceConnect, HandleDeviceDisconnect, Quiet
<1>2. CASE reg' = reg
  BY <1>0, <1>1, <1>2, SameFades DEF Fades
<1>3. CASE conns # NoEntry /\ \E rest : ReleaseConnectionEntry(rest)
  BY <1>1, <1>3, ReleasingFades DEF Fades
<1>4. CASE StartCreation(s)
  BY <1>0, <1>1, <1>4, AcquiredGoes DEF StartCreation
<1> QED
  BY <1>2, <1>3, <1>4 DEF HandleOpen, HandleClose, HandleDeviceConnect, HandleDeviceDisconnect,
                          JoinEntry, AwaitCreation

LEMMA ServerGoes ==
    ASSUME TypeInv, LifeInv,
           CreationSettles \/ WsHearsEnd \/ ReconnectTimerFires \/ \E j \in retries : RetrySettles(j)
    PROVE  /\ Goes(reg, reg') /\ LivesMatch(reg') /\ notices' \subseteq notices
           /\ notices # {} => Fades(reg, reg')
<1>0. RegistryOK(reg) /\ LivesMatch(reg)
  BY DEF TypeInv, LifeInv
<1>1. notices' \subseteq notices
  BY DEF CreationSettles, WsHearsEnd, ReconnectTimerFires, RetrySettles
<1>2. CASE CreationSettles
  <2>1. create.rt \in Runtimes
    BY <1>2, RuntimesAre DEF CreationSettles, TypeInv, SocketsOK
  <2>2. reg' = reg \/ reg' = Release(reg, create.rt)
    BY <1>2 DEF CreationSettles
  <2> QED
    BY <1>0, <1>1, <2>1, <2>2, SameFades, ReleaseFades DEF Fades
<1>3. CASE WsHearsEnd
  <2>1. HandleConnectionClose(reg, told)
    BY <1>3 DEF WsHearsEnd
  <2> QED
    BY <1>0, <1>1, <2>1, ClosingFades DEF Fades
<1>4. CASE ReconnectTimerFires
  <2>1. notices = {}
    BY <1>4 DEF ReconnectTimerFires, Quiet
  <2>2. reg' = reg \/ (CanAcquire(reg) /\ reg' = AcquireConnected(reg))
    BY <1>4 DEF ReconnectTimerFires
  <2> QED
    BY <1>0, <1>1, <2>1, <2>2, SameFades, AcquiredGoes DEF Fades
<1>5. ASSUME NEW j \in retries, RetrySettles(j)
      PROVE  Fades(reg, reg')
  <2>1. j.rt \in Runtimes
    BY DEF TypeInv, SocketsOK
  <2>2. CASE reg.promise[j.rt] = "ok"
    BY <1>0, <1>5, <2>2, SameFades DEF RetrySettles
  <2>3. CASE reg.promise[j.rt] # "ok"
    <3> DEFINE g == Release(reg, j.rt)
               hears == Tell(told, {j.first}, "error")
    <3>1. Fades(reg, g) /\ RegistryOK(g) /\ LivesMatch(g)
      BY <1>0, <2>1, ReleaseFades
    <3>2. reg' = g \/ HandleConnectionClose(g, hears)
      BY <1>5, <2>3 DEF RetrySettles, RetryFails
    <3> HIDE DEF g, hears
    <3>3. Fades(g, reg')
      BY <3>1, <3>2, ClosingFades, SameFades
    <3> QED
      BY <3>1, <3>3, FadesOnAndOn
  <2> QED
    BY <2>2, <2>3
<1> QED
  BY <1>1, <1>2, <1>3, <1>4, <1>5 DEF Fades

LEMMA TornDownFades ==
    ASSUME TypeInv, LifeInv
    PROVE  Fades(reg, TornDown) /\ RegistryOK(TornDown) /\ LivesMatch(TornDown)
<1>1. RegistryOK(reg) /\ LivesMatch(reg)
  BY DEF TypeInv, LifeInv
<1>2. push.rt # 0 => push.rt \in Runtimes
  BY RuntimesAre DEF TypeInv, PushOK
<1> QED
  BY <1>1, <1>2, ReleaseFades, SameFades DEF TornDown

LEMMA PushGoes ==
    ASSUME TypeInv, LifeInv,
           \/ PushUpsert \/ PushReconnect \/ PushRemove \/ PushHearsEnd \/ PushTimerFires
           \/ \E j \in pushJobs : PushConnectSettles(j) \/ PushAlertSent(j)
    PROVE  /\ Goes(reg, reg') /\ LivesMatch(reg') /\ notices' \subseteq notices
           /\ notices # {} => Fades(reg, reg')
<1>0. RegistryOK(reg) /\ LivesMatch(reg)
  BY DEF TypeInv, LifeInv
<1>1. notices' \subseteq notices
  BY DEF PushUpsert, PushReconnect, PushRemove, PushHearsEnd, PushTimerFires, PushConnectSettles, PushAlertSent
<1>2. CASE PushUpsert \/ PushTimerFires
  <2>1. notices = {} /\ CanAcquire(reg) /\ reg' = AcquireConnected(reg)
    BY <1>2 DEF PushUpsert, PushTimerFires, PushConnects, Quiet
  <2> QED
    BY <1>0, <1>1, <2>1, AcquiredGoes
<1>3. CASE PushReconnect
  <2>1. notices = {} /\ CanAcquire(TornDown) /\ reg' = AcquireConnected(TornDown)
    BY <1>3 DEF PushReconnect, PushConnects, Quiet
  <2>2. Fades(reg, TornDown) /\ RegistryOK(TornDown) /\ LivesMatch(TornDown)
    BY TornDownFades
  <2>3. Goes(TornDown, reg') /\ LivesMatch(reg')
    BY <2>1, <2>2, AcquiredGoes
  <2> QED
    BY <1>1, <2>1, <2>2, <2>3, GoesOnAndOn DEF Fades
<1>4. CASE PushRemove
  BY <1>1, <1>4, TornDownFades DEF PushRemove, Fades
<1>5. CASE PushHearsEnd
  BY <1>0, <1>1, <1>5, SameFades DEF PushHearsEnd, Fades
<1>6. ASSUME NEW j \in pushJobs, PushConnectSettles(j) \/ PushAlertSent(j)
      PROVE  Fades(reg, reg')
  <2>1. j.rt \in Runtimes
    BY DEF TypeInv, PushOK, Jobs
  <2>2. reg' = reg \/ reg' = Release(reg, j.rt)
    BY <1>6 DEF PushConnectSettles, PushAlertSent
  <2> QED
    BY <1>0, <2>1, <2>2, SameFades, ReleaseFades
<1> QED
  BY <1>1, <1>2, <1>3, <1>4, <1>5, <1>6 DEF Fades

LEMMA BorrowersGo ==
    ASSUME TypeInv, LifeInv, NEW b \in Borrowers, Borrow(b) \/ GiveBack(b)
    PROVE  Goes(reg, reg') /\ LivesMatch(reg') /\ notices' = {}
<1>0. RegistryOK(reg) /\ LivesMatch(reg)
  BY DEF TypeInv, LifeInv
<1>1. notices' = {}
  BY DEF Borrow, GiveBack, Quiet
<1>2. CASE Borrow(b)
  <2>1. CanAcquire(reg) /\ reg' \in {Acquire(reg), Connect(Acquire(reg), Acquire(reg).current)}
    BY <1>2 DEF Borrow, AcquireConnected
  <2> QED
    BY <1>0, <1>1, <2>1, AcquireGoes
<1>3. CASE GiveBack(b)
  <2>1. lent[b].rt \in Runtimes /\ reg' = Release(reg, lent[b].rt)
    BY <1>3, RuntimesAre DEF GiveBack, TypeInv, LoansOK
  <2> QED
    BY <1>0, <1>1, <2>1, ReleaseFades DEF Fades
<1> QED
  BY <1>2, <1>3

\* The end of a runtime leaves none alive.
LEMMA EndingsKeepLife ==
    ASSUME TypeInv, LifeInv, NEW r \in Runtimes, ConnectSettles(r) \/ RuntimeEnds(r)
    PROVE  LifeInv'
<1>0. RegistryOK(reg) /\ LivesMatch(reg)
  BY DEF TypeInv, LifeInv
<1>1. CASE ConnectSettles(r)
  <2>1. PICK ok \in BOOLEAN : reg' = Settle(reg, r, ok)
    BY <1>1 DEF ConnectSettles
  <2>2. LivesMatch(reg') /\ notices' = {}
    BY <1>0, <1>1, <2>1, EndingLives DEF ConnectSettles, Quiet
  <2> QED
    BY <2>2 DEF LifeInv
<1>2. CASE RuntimeEnds(r)
  <2>1. \A s \in Runtimes : Alive(reg, s) => s = r
    BY <1>0, <1>2 DEF RuntimeEnds, RegistryOK, OnlyCurrentLives, Alive
  <2>2. /\ LivesMatch(reg') /\ reg'.life[r] = "lost"
        /\ \A s \in Runtimes : s # r => reg'.life[s] = reg.life[s]
    <3>1. CASE reg.life[r] = "up"
      <4>1. reg' = Lose(reg, r)
        BY <1>2, <3>1 DEF RuntimeEnds
      <4>2. PICK ok \in BOOLEAN : ok = TRUE
        OBVIOUS
      <4>3. \A s \in Runtimes : s # r => Lose(reg, r).life[s] = reg.life[s]
        BY <1>0 DEF Lose, RegistryOK, Registries
      <4>4. LivesMatch(Lose(reg, r)) /\ Lose(reg, r).life[r] = "lost"
        BY <1>0, <3>1, <4>2, EndingLives
      <4> QED
        BY <4>1, <4>3, <4>4
    <3>2. CASE reg.life[r] = "connecting"
      <4>1. PICK ok \in BOOLEAN : reg' = Settle(Lose(reg, r), r, ok)
        BY <1>2, <3>2 DEF RuntimeEnds
      <4> QED
        BY <1>0, <3>2, <4>1, EndingLives
    <3> QED
      BY <1>2, <3>1, <3>2 DEF RuntimeEnds
  <2>3. NoneAlive(reg')
    BY <2>1, <2>2 DEF NoneAlive, Alive
  <2> QED
    BY <2>2, <2>3 DEF LifeInv
<1> QED
  BY <1>1, <1>2

LEMMA NextLife == TypeInv /\ LifeInv /\ [Next]_vars => LifeInv'
<1> SUFFICES ASSUME TypeInv, LifeInv, [Next]_vars PROVE LifeInv'
  OBVIOUS
<1>1. CASE UNCHANGED vars
  BY <1>1 DEF vars, LifeInv, NoneAlive
<1>2. ASSUME LivesMatch(reg'), notices' \subseteq notices, notices # {} => Fades(reg, reg')
      PROVE  LifeInv'
  BY <1>2, NoneAliveStays DEF LifeInv
<1>3. ASSUME LivesMatch(reg'), notices' = {} PROVE LifeInv'
  BY <1>3 DEF LifeInv
<1>4. ASSUME NEW s \in Sockets,
             HandleOpen(s) \/ HandleClose(s) \/ HandleDeviceConnect(s) \/ HandleDeviceDisconnect(s)
      PROVE  LifeInv'
  BY <1>3, <1>4, SocketsGo
<1>5. CASE CreationSettles \/ WsHearsEnd \/ ReconnectTimerFires \/ \E j \in retries : RetrySettles(j)
  BY <1>2, <1>5, ServerGoes
<1>6. CASE \/ PushUpsert \/ PushReconnect \/ PushRemove \/ PushHearsEnd \/ PushTimerFires
           \/ \E j \in pushJobs : PushConnectSettles(j) \/ PushAlertSent(j)
  BY <1>2, <1>6, PushGoes
<1>7. ASSUME NEW b \in Borrowers, Borrow(b) \/ GiveBack(b) PROVE LifeInv'
  BY <1>3, <1>7, BorrowersGo
<1>8. ASSUME NEW r \in Runtimes, ConnectSettles(r) \/ RuntimeEnds(r) PROVE LifeInv'
  BY <1>8, EndingsKeepLife
<1>9. CASE Next
  BY <1>4, <1>5, <1>6, <1>7, <1>8, <1>9 DEF Next
<1> QED
  BY <1>1, <1>9

-----------------------------------------------------------------------------
(* Steps of the counts                                                     *)

LEMMA NumbersNow ==
    TypeInv => \A r \in Runtimes :
        /\ EntryHas(r) \in {0, 1} /\ CreationHas(r) \in {0, 1} /\ RetriesHave(r) \in Nat
        /\ lost[r] \in Nat /\ PushHas(r) \in {0, 1} /\ LateHave(r) \in Nat
        /\ strays[r] \in Nat /\ LoansHave(r) \in Nat
        /\ ServerHas(r) \in Nat /\ SupervisorHas(r) \in Nat /\ Held(r) \in Nat
BY CountsAreNumbers

LEMMA NumbersThen ==
    TypeInv' => (\A r \in Runtimes :
        /\ EntryHas(r) \in {0, 1} /\ CreationHas(r) \in {0, 1} /\ RetriesHave(r) \in Nat
        /\ lost[r] \in Nat /\ PushHas(r) \in {0, 1} /\ LateHave(r) \in Nat
        /\ strays[r] \in Nat /\ LoansHave(r) \in Nat
        /\ ServerHas(r) \in Nat /\ SupervisorHas(r) \in Nat /\ Held(r) \in Nat)'
BY NumbersNow, PTL

LEMMA ServerMoves ==
    ASSUME TypeInv, UNCHANGED <<pushing, lent>>, NEW s \in Runtimes, NEW k \in Int,
           ServerHas(s)' = ServerHas(s) + k
    PROVE  Held(s)' = Held(s) + k
<1>1. SupervisorHas(s)' = SupervisorHas(s) /\ LoansHave(s)' = LoansHave(s)
  BY DEF SupervisorHas, PushHas, LateHave, Late, LoansHave, pushing
<1>2. ServerHas(s) \in Nat /\ SupervisorHas(s) \in Nat /\ LoansHave(s) \in Nat
  BY NumbersNow
<1> QED
  BY <1>1, <1>2 DEF Held

LEMMA ServerIdle ==
    ASSUME UNCHANGED ws, NEW s \in Runtimes
    PROVE  ServerHas(s)' = ServerHas(s)
BY DEF ServerHas, EntryHas, CreationHas, RetriesHave, ws

LEMMA SupervisorMoves ==
    ASSUME TypeInv, UNCHANGED <<ws, lent>>, NEW s \in Runtimes, NEW k \in Int,
           SupervisorHas(s)' = SupervisorHas(s) + k
    PROVE  Held(s)' = Held(s) + k
<1>1. ServerHas(s)' = ServerHas(s) /\ LoansHave(s)' = LoansHave(s)
  BY ServerIdle DEF LoansHave
<1>2. ServerHas(s) \in Nat /\ SupervisorHas(s) \in Nat /\ LoansHave(s) \in Nat
  BY NumbersNow
<1> QED
  BY <1>1, <1>2 DEF Held

LEMMA LoansMove ==
    ASSUME TypeInv, UNCHANGED <<ws, pushing>>, NEW s \in Runtimes, NEW k \in Int,
           LoansHave(s)' = LoansHave(s) + k
    PROVE  Held(s)' = Held(s) + k
<1>1. ServerHas(s)' = ServerHas(s) /\ SupervisorHas(s)' = SupervisorHas(s)
  BY ServerIdle DEF SupervisorHas, PushHas, LateHave, Late, pushing
<1>2. ServerHas(s) \in Nat /\ SupervisorHas(s) \in Nat /\ LoansHave(s) \in Nat
  BY NumbersNow
<1> QED
  BY <1>1, <1>2 DEF Held

LEMMA NothingMoves ==
    ASSUME CountsOK, reg' = reg, \A s \in Runtimes : Held(s)' = Held(s)
    PROVE  CountsOK'
BY DEF CountsOK

LEMMA OneLetsGo ==
    ASSUME TypeInv, LifeInv, CountsOK, NEW r \in Runtimes, reg' = Release(reg, r),
           \A s \in Runtimes : Held(s)' \in Nat,
           \A s \in Runtimes : s # r => Held(s)' = Held(s),
           Held(r) = Held(r)' + 1
    PROVE  CountsOK'
<1>1. RegistryOK(reg) /\ LivesMatch(reg) /\ Held(r) \in Nat
  BY NumbersNow DEF TypeInv, LifeInv
<1>2. HeldBy(reg', r, Held(r)')
  <2>1. Held(r) # 0 /\ Held(r)' = Held(r) - 1
    BY <1>1
  <2>2. HeldBy(reg', r, Held(r) - 1)
    BY <1>1, <2>1, ReleaseCounts DEF CountsOK
  <2> QED
    BY <2>1, <2>2
<1>3. ASSUME NEW s \in Runtimes, s # r PROVE HeldBy(reg', s, Held(s)')
  <2>1. HeldBy(reg', s, Held(s))
    BY <1>1, <1>3, ReleaseCounts DEF CountsOK
  <2> QED
    BY <1>3, <2>1
<1> QED
  BY <1>2, <1>3 DEF CountsOK

LEMMA OneTakes ==
    ASSUME TypeInv, LifeInv, CountsOK, CanAcquire(reg), reg' \in {Acquire(reg), AcquireConnected(reg)},
           \A s \in Runtimes : s # reg'.current => Held(s)' = Held(s),
           \A s \in Runtimes : s = reg'.current => Held(s)' = Held(s) + 1
    PROVE  CountsOK'
<1>1. RegistryOK(reg) /\ LivesMatch(reg)
  BY DEF TypeInv, LifeInv
<1>2. ASSUME NEW s \in Runtimes PROVE HeldBy(reg', s, Held(s)')
  <2>1. HeldBy(reg, s, Held(s)) /\ reg' \in {Acquire(reg), Connect(Acquire(reg), Acquire(reg).current)}
    BY DEF CountsOK, AcquireConnected
  <2>2. HeldBy(reg', s, IF s = reg'.current THEN Held(s) + 1 ELSE Held(s))
    BY <1>1, <2>1, AcquireCounts
  <2>3. CASE s = reg'.current
    <3>1. HeldBy(reg', s, Held(s) + 1) /\ Held(s)' = Held(s) + 1
      BY <2>2, <2>3
    <3> QED
      BY <3>1
  <2>4. CASE s # reg'.current
    <3>1. HeldBy(reg', s, Held(s)) /\ Held(s)' = Held(s)
      BY <2>2, <2>4
    <3> QED
      BY <3>1
  <2> QED
    BY <2>3, <2>4
<1> QED
  BY <1>2 DEF CountsOK

\* A release of what is gone is harmless, and who held it may have forgotten it.
LEMMA DeadIsReleased ==
    ASSUME NEW g, RegistryOK(g), LivesMatch(g), NEW r \in Runtimes, ~Alive(g, r),
           \A s \in Runtimes : HeldBy(g, s, Held(s))
    PROVE  /\ \A s \in Runtimes : HeldBy(Release(g, r), s, Held(s))
           /\ RegistryOK(Release(g, r)) /\ LivesMatch(Release(g, r))
BY ReleaseCounts, ReleaseFades

LEMMA DeadLetGo ==
    ASSUME TypeInv, LifeInv, CountsOK, NEW r \in Runtimes, ~Alive(reg, r), reg' \in {reg, Release(reg, r)},
           \A s \in Runtimes : Held(s)' \in Nat,
           \A s \in Runtimes : s # r => Held(s)' = Held(s),
           Held(r)' <= Held(r)
    PROVE  CountsOK'
<1>1. RegistryOK(reg) /\ LivesMatch(reg) /\ \A s \in Runtimes : HeldBy(reg, s, Held(s))
  BY DEF TypeInv, LifeInv, CountsOK
<1>2. \A s \in Runtimes : HeldBy(reg', s, Held(s))
  BY <1>1, DeadIsReleased
<1>3. ~Alive(reg', r)
  BY <1>1, ReleaseFades DEF Fades
<1>4. HeldBy(reg', r, Held(r)')
  BY <1>2, <1>3, DeadForgotten
<1> QED
  BY <1>2, <1>4 DEF CountsOK

LEMMA AllDeadLetGo ==
    ASSUME TypeInv, LifeInv, CountsOK, NoneAlive(reg'),
           \A s \in Runtimes : HeldBy(reg', s, Held(s)),
           \A s \in Runtimes : Held(s)' \in Nat,
           \A s \in Runtimes : Held(s)' <= Held(s)
    PROVE  CountsOK'
<1>1. ASSUME NEW s \in Runtimes PROVE HeldBy(reg', s, Held(s)')
  BY DeadForgotten DEF NoneAlive
<1> QED
  BY <1>1 DEF CountsOK

-----------------------------------------------------------------------------
(* Steps of what else is kept                                              *)

LEMMA AwaitedFades ==
    ASSUME AwaitedOK, Fades(reg, reg'), \A r \in Runtimes : Awaits(r)' => Awaits(r)
    PROVE  AwaitedOK'
<1>1. ASSUME NEW r \in Runtimes, Heard(reg, r) PROVE Heard(reg', r)
  <2>1. reg'.promise[r] = reg.promise[r]
    BY <1>1 DEF Fades, Goes, Heard
  <2>2. NoneAlive(reg) => NoneAlive(reg')
    BY NoneAliveStays
  <2>3. \A s \in Runtimes : reg'.life[s] = "connecting" => reg.life[s] = "connecting"
    BY DEF Fades, Alive
  <2> QED
    BY <1>1, <2>1, <2>2, <2>3 DEF Heard
<1> QED
  BY <1>1 DEF AwaitedOK

LEMMA AwaitedAcquires ==
    ASSUME TypeInv, LifeInv, CountsOK, AwaitedOK, JobsOK, Quiet, Goes(reg, reg'), TypeInv', LifeInv',
           \A r \in Runtimes : Awaits(r)' =>
               Awaits(r) \/ (reg'.promise[r] \in {"pending", "ok"} /\ Alive(reg', r))
    PROVE  AwaitedOK'
<1>1. ASSUME NEW r \in Runtimes, Awaits(r) PROVE Heard(reg', r)
  <2>1. reg.promise[r] = "pending"
    BY <1>1, QuietWaits
  <2>2. reg'.promise[r] = "pending"
    BY <2>1 DEF Goes
  <2> QED
    BY <2>2 DEF Heard
<1>2. ASSUME NEW r \in Runtimes, reg'.promise[r] \in {"pending", "ok"}, Alive(reg', r) PROVE Heard(reg', r)
  <2>1. \A s \in Runtimes : Alive(reg', s) => s = r
    BY <1>2 DEF TypeInv, RegistryOK, OnlyCurrentLives
  <2>2. \A s \in Runtimes : reg'.life[s] = "connecting" => s = r /\ reg'.promise[r] = "pending"
    BY <2>1 DEF LifeInv, LivesMatch, Alive
  <2> QED
    BY <1>2, <2>2 DEF Heard
<1> QED
  BY <1>1, <1>2 DEF AwaitedOK

LEMMA DetachedGoes ==
    ASSUME TypeInv, Goes(reg, reg'),
           \A e \in Entries : ent'[e].rt \in 0 .. MaxRuntimes,
           \A e \in Entries : ent'[e].rt # 0 /\ ~ent'[e].attached => Terminated(reg, ent'[e].rt),
           retries' \subseteq [ent : Entries, rt : Runtimes, first : Sockets],
           \A j \in retries' : ent'[j.ent].timer => Settled(j.rt)
    PROVE  DetachedOK'
<1>1. \A r \in Runtimes : Settled(r) => Settled(r)'
  BY DEF Settled, Goes
<1>2. \A j \in retries' : ent'[j.ent].timer => Settled(j.rt)'
  <2>1. \A j \in retries' : j.rt \in Runtimes
    OBVIOUS
  <2> QED
    BY <1>1, <2>1
<1>3. \A e \in Entries : ent'[e].rt # 0 /\ ~ent'[e].attached => Terminated(reg', ent'[e].rt)
  BY RuntimesAre DEF Goes
<1> QED
  BY <1>2, <1>3 DEF DetachedOK

\* Nobody shuts down what the supervisor's entry holds.
LEMMA HolderStands ==
    ASSUME TypeInv, TypeInv', CountsOK', Goes(reg, reg'), push'.rt = push.rt, push.rt # 0,
           ~Alive(reg', push.rt)
    PROVE  ~Alive(reg, push.rt)
<1>0. PICK r \in Runtimes : r = push.rt
  BY RuntimesAre DEF TypeInv, PushOK
<1>1. PushHas(r)' = 1
  BY <1>0 DEF PushHas
<1>2. Held(r)' # 0
  <2>1. LateHave(r)' \in Nat /\ strays'[r] \in Nat /\ ServerHas(r)' \in Nat /\ LoansHave(r)' \in Nat
    BY NumbersThen
  <2> QED
    BY <1>1, <2>1 DEF Held, SupervisorHas
<1>3. reg'.life[r] = "lost"
  <2>1. RegistryOK(reg') /\ HeldBy(reg', r, Held(r)')
    BY DEF TypeInv, CountsOK
  <2>2. ~Alive(reg', r)
    BY <1>0
  <2> QED
    BY <1>2, <2>1, <2>2, HeldIsMade
<1> QED
  BY <1>0, <1>3 DEF Goes, Alive

\* Nothing the supervisor relies on is lost to a step of the others.
LEMMA PushStands ==
    ASSUME TypeInv, LifeInv, JobsOK, AwakeOK, TypeInv', LifeInv', CountsOK', Goes(reg, reg'),
           UNCHANGED pushing, \A n \in notices : n[1] = "push" => n \in notices'
    PROVE  JobsOK' /\ AwakeOK'
<1>1. \A r \in Runtimes : /\ Settled(r) => Settled(r)'
                          /\ Terminated(reg, r) => Terminated(reg', r)
                          /\ reg.promise[r] # "none" => reg'.promise[r] = reg.promise[r]
  BY DEF Settled, Goes
<1>2. /\ push' = push /\ pushJobs' = pushJobs /\ strays' = strays /\ silenced' = silenced
      /\ push.rt # 0 => push.rt \in Runtimes
      /\ \A j \in pushJobs : j.rt \in Runtimes
  BY RuntimesAre DEF pushing, TypeInv, PushOK, Jobs
<1>3. JobsOK'
  BY <1>1, <1>2 DEF JobsOK, Own
<1>4. push.rt # 0 /\ ~Alive(reg', push.rt) => ~Alive(reg, push.rt)
  BY <1>2, HolderStands
<1>5. AwakeOK'
  <2>1. push'.is = "on" /\ push'.rt = 0 => push'.timer \/ silenced'
    BY <1>2 DEF AwakeOK
  <2>2. ASSUME push'.rt # 0, ~Alive(reg', push'.rt)
        PROVE  \/ \E n \in notices' : n[1] = "push"
               \/ \E j \in pushJobs' : j.own /\ j.at # "connect"
               \/ reg'.promise[push'.rt] = "failed" /\ \E j \in pushJobs' : Own(j) /\ j.rt = push'.rt
    <3>1. \/ \E n \in notices : n[1] = "push"
          \/ \E j \in pushJobs : j.own /\ j.at # "connect"
          \/ reg.promise[push.rt] = "failed" /\ \E j \in pushJobs : Own(j) /\ j.rt = push.rt
      BY <1>2, <1>4, <2>2 DEF AwakeOK
    <3>2. reg.promise[push.rt] = "failed" => reg'.promise[push.rt] = "failed"
      BY <1>1, <1>2, <2>2
    <3> QED
      BY <1>2, <3>1, <3>2
  <2> QED
    BY <2>1, <2>2 DEF AwakeOK, Own
<1> QED
  BY <1>3, <1>5

-----------------------------------------------------------------------------
(* Sockets                                                                 *)

LEMMA NobodyMoves ==
    ASSUME TypeInv, LifeInv, Sound, TypeInv', LifeInv',
           reg' = reg, create'.rt = create.rt, UNCHANGED <<conns, retries, lost, pushing, lent, notices>>,
           \A e \in Entries : /\ ent'[e].rt = ent[e].rt /\ ent'[e].attached = ent[e].attached
                              /\ ent'[e].timer => ent[e].timer
    PROVE  Sound'
<1>1. LivesMatch(reg)
  BY DEF LifeInv
<1>2. Fades(reg, reg') /\ Goes(reg, reg')
  BY <1>1, SameFades DEF Fades
<1>3. \A r \in Runtimes : ServerHas(r)' = ServerHas(r)
  <2>1. \A r \in Runtimes : EntryHas(r)' = EntryHas(r)
    BY EntryRuntime DEF EntryHas
  <2> QED
    BY <2>1 DEF ServerHas, CreationHas, RetriesHave
<1>4. CountsOK'
  <2>1. \A r \in Runtimes : Held(r)' = Held(r)
    BY <1>3 DEF Held, SupervisorHas, PushHas, LateHave, Late, LoansHave, pushing
  <2> QED
    BY <2>1, NothingMoves DEF Sound
<1>5. DetachedOK'
  <2>1. \A e \in Entries : ent'[e].rt \in 0 .. MaxRuntimes
    BY DEF TypeInv, EntriesOK, Ents
  <2>2. \A e \in Entries : ent'[e].rt # 0 /\ ~ent'[e].attached => Terminated(reg, ent'[e].rt)
    BY DEF Sound, DetachedOK
  <2>3. retries' \subseteq [ent : Entries, rt : Runtimes, first : Sockets]
    BY DEF TypeInv, SocketsOK
  <2>4. \A j \in retries' : ent'[j.ent].timer => Settled(j.rt)
    BY <2>3 DEF Sound, DetachedOK
  <2> QED
    BY <1>2, <2>1, <2>2, <2>3, <2>4, DetachedGoes
<1>6. AwaitedOK'
  <2>1. \A r \in Runtimes : Awaits(r)' => Awaits(r)
    BY DEF Awaits, Waits, pushing
  <2> QED
    BY <1>2, <2>1, AwaitedFades DEF Sound
<1>7. JobsOK' /\ AwakeOK'
  BY <1>2, <1>4, PushStands DEF Sound
<1> QED
  BY <1>4, <1>5, <1>6, <1>7 DEF Sound

\* The last socket leaves: the entry goes with the reference it had.
LEMMA EntryLeaves ==
    ASSUME TypeInv, LifeInv, Sound, TypeInv', LifeInv', conns # NoEntry,
           NEW x, x.rt = 0, ~x.timer, ent' = [ent EXCEPT ![conns] = x],
           reg' = Release(reg, ent[conns].rt), conns' = NoEntry,
           UNCHANGED <<create, retries, lost, pushing, lent, notices>>
    PROVE  Sound'
<1>0. PICK r \in Runtimes : r = ent[conns].rt
  BY EntryRuntime
<1>1. RegistryOK(reg) /\ LivesMatch(reg) /\ conns \in Entries
  BY EntryRuntime DEF TypeInv, LifeInv
<1>2. Fades(reg, reg') /\ Goes(reg, reg')
  BY <1>0, <1>1, ReleaseFades DEF Fades
<1>3. \A q \in Runtimes : EntryHas(q)' = 0 /\ CreationHas(q)' = CreationHas(q) /\ RetriesHave(q)' = RetriesHave(q)
  BY DEF EntryHas, CreationHas, RetriesHave
<1>4. CountsOK'
  <2>1. \A q \in Runtimes : ServerHas(q)' = ServerHas(q) + (-EntryHas(q))
    <3>1. ASSUME NEW q \in Runtimes PROVE ServerHas(q)' = ServerHas(q) + (-EntryHas(q))
      <4>1. EntryHas(q) \in {0, 1} /\ CreationHas(q) \in {0, 1} /\ RetriesHave(q) \in Nat /\ lost[q] \in Nat
        BY NumbersNow
      <4> QED
        BY <1>3, <4>1 DEF ServerHas
    <3> QED
      BY <3>1
  <2>2. \A q \in Runtimes : Held(q)' = Held(q) + (-EntryHas(q))
    <3>1. ASSUME NEW q \in Runtimes PROVE Held(q)' = Held(q) + (-EntryHas(q))
      <4>1. EntryHas(q) \in {0, 1}
        BY NumbersNow
      <4>2. -EntryHas(q) \in Int
        BY <4>1
      <4> QED
        BY <2>1, <4>2, ServerMoves
    <3> QED
      BY <3>1
  <2>3. \A q \in Runtimes : Held(q) \in Nat /\ Held(q)' \in Nat
    BY NumbersNow, NumbersThen
  <2>4. \A q \in Runtimes : q # r => EntryHas(q) = 0
    BY <1>0 DEF EntryHas
  <2>5. CASE ent[conns].attached
    <3>1. EntryHas(r) = 1
      BY <1>0, <2>5 DEF EntryHas
    <3>2. Held(r) = Held(r)' + 1
      BY <2>2, <2>3, <3>1
    <3>3. \A q \in Runtimes : q # r => Held(q)' = Held(q)
      BY <2>2, <2>3, <2>4
    <3> QED
      BY <1>0, <2>3, <3>2, <3>3, OneLetsGo DEF Sound
  <2>6. CASE ~ent[conns].attached
    <3>1. ~Alive(reg, r)
      BY <1>0, <1>1, <2>6, RuntimesAre DEF Sound, DetachedOK, Terminated, Alive
    <3>2. \A q \in Runtimes : EntryHas(q) = 0
      BY <2>6 DEF EntryHas
    <3>3. \A q \in Runtimes : Held(q)' = Held(q) /\ Held(q)' <= Held(q)
      BY <2>2, <2>3, <3>2
    <3> QED
      BY <1>0, <2>3, <3>1, <3>3, DeadLetGo DEF Sound
  <2> QED
    BY <2>5, <2>6
<1>5. DetachedOK'
  <2>0. ent \in [Entries -> Ents]
    BY DEF TypeInv, EntriesOK
  <2>1. \A e \in Entries : ent'[e].rt \in 0 .. MaxRuntimes
    BY DEF TypeInv, EntriesOK, Ents
  <2>2. \A e \in Entries : ent'[e].rt # 0 /\ ~ent'[e].attached => Terminated(reg, ent'[e].rt)
    BY <2>0 DEF Sound, DetachedOK
  <2>3. retries' \subseteq [ent : Entries, rt : Runtimes, first : Sockets]
    BY DEF TypeInv, SocketsOK
  <2>4. \A j \in retries' : ent'[j.ent].timer => Settled(j.rt)
    BY <2>0, <2>3 DEF Sound, DetachedOK
  <2> QED
    BY <1>2, <2>1, <2>2, <2>3, <2>4, DetachedGoes
<1>6. AwaitedOK'
  <2>1. \A q \in Runtimes : Awaits(q)' => Awaits(q)
    BY DEF Awaits, Waits, pushing
  <2> QED
    BY <1>2, <2>1, AwaitedFades DEF Sound
<1>7. JobsOK' /\ AwakeOK'
  BY <1>2, <1>4, PushStands DEF Sound
<1> QED
  BY <1>4, <1>5, <1>6, <1>7 DEF Sound

LEMMA LeavingKeepsSound ==
    ASSUME TypeInv, LifeInv, Sound, TypeInv', LifeInv', conns # NoEntry,
           NEW rest, ReleaseConnectionEntry(rest),
           UNCHANGED <<create, retries, lost, pushing, lent, notices>>
    PROVE  Sound'
<1>0. ent \in [Entries -> Ents] /\ conns \in Entries
  BY EntryRuntime DEF TypeInv, EntriesOK
<1>1. CASE rest # {}
  <2>1. ent' = [ent EXCEPT ![conns].clients = rest] /\ reg' = reg /\ conns' = conns
    BY <1>1 DEF ReleaseConnectionEntry
  <2>2. \A e \in Entries : /\ ent'[e].rt = ent[e].rt /\ ent'[e].attached = ent[e].attached
                           /\ ent'[e].timer => ent[e].timer
    BY <1>0, <2>1 DEF Ents
  <2> QED
    BY <2>1, <2>2, NobodyMoves
<1>2. CASE rest = {}
  <2> DEFINE x == [Retired(conns) EXCEPT !.clients = {}]
  <2>1. ent' = [ent EXCEPT ![conns] = x] /\ reg' = Release(reg, ent[conns].rt) /\ conns' = NoEntry
    BY <1>2 DEF ReleaseConnectionEntry
  <2>2. x.rt = 0 /\ ~x.timer
    <3>1. Retired(conns) \in Ents /\ Retired(conns).rt = 0 /\ ~Retired(conns).timer
      BY <1>0, RetiredFits
    <3> QED
      BY <3>1 DEF Ents
  <2> HIDE DEF x
  <2> QED
    BY <2>1, <2>2, EntryLeaves
<1> QED
  BY <1>1, <1>2

\* A creation, a retry or a borrower takes the runtime: what a step that acquires
\* it keeps, but for the counts.
LEMMA StartKeepsSound ==
    ASSUME TypeInv, LifeInv, Sound, TypeInv', LifeInv', Quiet, NEW s \in Sockets, StartCreation(s),
           UNCHANGED <<conns, retries, lost, pushing, lent, notices>>
    PROVE  Sound'
<1>0. /\ CanAcquire(reg) /\ reg' = AcquireConnected(reg) /\ create.rt = 0
      /\ create' = [rt |-> reg'.current, first |-> {s}, waiting |-> {s}] /\ ent' = ent
      /\ conns = NoEntry
  BY DEF StartCreation
<1>1. RegistryOK(reg) /\ LivesMatch(reg)
  BY DEF TypeInv, LifeInv
<1>2. /\ Goes(reg, reg') /\ reg'.current \in Runtimes /\ Alive(reg', reg'.current)
      /\ reg'.promise[reg'.current] \in {"pending", "ok"}
  BY <1>0, <1>1, AcquiredGoes
<1>3. PICK c \in Runtimes : c = reg'.current
  BY <1>2
<1>4. CountsOK'
  <2>1. ASSUME NEW q \in Runtimes
        PROVE  /\ q # c => Held(q)' = Held(q)
               /\ q = c => Held(q)' = Held(q) + 1
    <3>1. EntryHas(q) \in {0, 1} /\ CreationHas(q) \in {0, 1} /\ RetriesHave(q) \in Nat /\ lost[q] \in Nat
          /\ Held(q) \in Nat
      BY NumbersNow
    <3>2. EntryHas(q)' = EntryHas(q) /\ RetriesHave(q)' = RetriesHave(q)
      BY <1>0 DEF EntryHas, RetriesHave
    <3>3. CreationHas(q) = 0 /\ CreationHas(q)' = IF q = c THEN 1 ELSE 0
      BY <1>0, <1>3, RuntimesAre DEF CreationHas
    <3>4. CASE q = c
      <4>1. ServerHas(q)' = ServerHas(q) + 1
        BY <3>1, <3>2, <3>3, <3>4 DEF ServerHas
      <4> QED
        BY <3>4, <4>1, ServerMoves
    <3>5. CASE q # c
      <4>1. ServerHas(q)' = ServerHas(q) + 0
        BY <3>1, <3>2, <3>3, <3>5 DEF ServerHas
      <4>2. Held(q)' = Held(q) + 0
        BY <4>1, ServerMoves
      <4> QED
        BY <3>1, <3>5, <4>2
    <3> QED
      BY <3>4, <3>5
  <2>2. \A q \in Runtimes : q # reg'.current => Held(q)' = Held(q)
    BY <1>3, <2>1
  <2>3. \A q \in Runtimes : q = reg'.current => Held(q)' = Held(q) + 1
    BY <1>3, <2>1
  <2> QED
    BY <1>0, <2>2, <2>3, OneTakes DEF Sound
<1>5. DetachedOK'
  <2>1. \A e \in Entries : ent'[e].rt \in 0 .. MaxRuntimes
    BY DEF TypeInv, EntriesOK, Ents
  <2>2. \A e \in Entries : ent'[e].rt # 0 /\ ~ent'[e].attached => Terminated(reg, ent'[e].rt)
    BY <1>0 DEF Sound, DetachedOK
  <2>3. retries' \subseteq [ent : Entries, rt : Runtimes, first : Sockets]
    BY DEF TypeInv, SocketsOK
  <2>4. \A j \in retries' : ent'[j.ent].timer => Settled(j.rt)
    BY <1>0 DEF Sound, DetachedOK
  <2> QED
    BY <1>2, <2>1, <2>2, <2>3, <2>4, DetachedGoes
<1>6. AwaitedOK'
  <2>1. \A r \in Runtimes : Awaits(r)' =>
            Awaits(r) \/ (reg'.promise[r] \in {"pending", "ok"} /\ Alive(reg', r))
    BY <1>0, <1>2 DEF Awaits, Waits, pushing
  <2> QED
    BY <1>2, <2>1, AwaitedAcquires DEF Sound
<1>7. JobsOK' /\ AwakeOK'
  BY <1>2, <1>4, PushStands DEF Sound
<1> QED
  BY <1>4, <1>5, <1>6, <1>7 DEF Sound

LEMMA SocketsKeepSound ==
    ASSUME TypeInv, LifeInv, Sound, TypeInv', LifeInv', NEW s \in Sockets,
           HandleOpen(s) \/ HandleClose(s) \/ HandleDeviceConnect(s) \/ HandleDeviceDisconnect(s)
    PROVE  Sound'
<1>0. /\ Quiet /\ UNCHANGED <<retries, lost, pushing, lent, notices>>
      /\ ent \in [Entries -> Ents]
  BY DEF HandleOpen, HandleClose, HandleDeviceConnect, HandleDeviceDisconnect, TypeInv, EntriesOK
<1>1. CASE UNCHANGED <<reg, conns, ent, create>>
  BY <1>0, <1>1, NobodyMoves
<1>2. ASSUME conns # NoEntry, NEW rest, ReleaseConnectionEntry(rest), create' = create PROVE Sound'
  BY <1>0, <1>2, LeavingKeepsSound
<1>3. CASE HandleDeviceConnect(s)
  <2>1. CASE JoinEntry(s)
    <3>1. conns \in Entries
      BY <2>1, EntryRuntime DEF JoinEntry
    <3>2. /\ reg' = reg /\ create' = create /\ conns' = conns
          /\ ent' = [ent EXCEPT ![conns].clients = @ \cup {s}]
      BY <1>3, <2>1 DEF JoinEntry, HandleDeviceConnect
    <3>3. \A e \in Entries : /\ ent'[e].rt = ent[e].rt /\ ent'[e].attached = ent[e].attached
                             /\ ent'[e].timer => ent[e].timer
      BY <1>0, <3>1, <3>2 DEF Ents
    <3> QED
      BY <1>0, <3>2, <3>3, NobodyMoves
  <2>2. CASE AwaitCreation(s)
    <3>1. /\ reg' = reg /\ conns' = conns /\ ent' = ent
          /\ create' = [create EXCEPT !.waiting = @ \cup {s}]
      BY <1>3, <2>2 DEF AwaitCreation, HandleDeviceConnect
    <3>2. create'.rt = create.rt
      BY <3>1 DEF TypeInv, SocketsOK
    <3> QED
      BY <1>0, <3>1, <3>2, NobodyMoves
  <2>3. CASE StartCreation(s)
    BY <1>0, <1>3, <2>3, StartKeepsSound DEF HandleDeviceConnect
  <2> QED
    BY <1>3, <2>1, <2>2, <2>3 DEF HandleDeviceConnect
<1>4. CASE HandleOpen(s)
  BY <1>1, <1>4 DEF HandleOpen
<1>5. CASE HandleClose(s)
  BY <1>1, <1>2, <1>5 DEF HandleClose
<1>6. CASE HandleDeviceDisconnect(s)
  BY <1>1, <1>2, <1>6 DEF HandleDeviceDisconnect
<1> QED
  BY <1>3, <1>4, <1>5, <1>6

-----------------------------------------------------------------------------
(* Device entries                                                          *)

\* An entry that listens takes over what its creation or its retry held; the one
\* it replaces is forgotten, and so is its reference.
LEMMA ReplacingKeepsSound ==
    ASSUME TypeInv, LifeInv, Sound, TypeInv', LifeInv',
           NEW e \in Entries, NEW new \in Ents, new.attached, ~new.timer, new.rt # 0, Replaces(e, new),
           reg' = reg, retries' \subseteq retries, UNCHANGED <<pushing, lent, notices>>,
           \A q \in Runtimes : new.rt = q =>
               CreationHas(q) + RetriesHave(q) = CreationHas(q)' + RetriesHave(q)' + 1,
           \A q \in Runtimes : new.rt # q =>
               CreationHas(q) + RetriesHave(q) = CreationHas(q)' + RetriesHave(q)',
           \A q \in Runtimes : Awaits(q)' => Awaits(q)
    PROVE  Sound'
<1>0. /\ conns' = e /\ e # NoEntry /\ ent'[e] = new /\ EntriesOK'
      /\ ent' = [x \in Entries |-> IF x = e THEN new ELSE IF x = conns THEN Retired(x) ELSE ent[x]]
  BY ReplacingFits, HoldersAssumption DEF TypeInv, SocketsOK, Replaces
<1>1. LivesMatch(reg) /\ ent \in [Entries -> Ents]
  BY DEF LifeInv, TypeInv, EntriesOK
<1>2. Fades(reg, reg') /\ Goes(reg, reg')
  BY <1>1, SameFades DEF Fades
<1>3. ASSUME NEW q \in Runtimes PROVE lost'[q] = lost[q] + EntryHas(q)
  <2>1. lost[q] \in Nat /\ lost \in [Runtimes -> Nat]
    BY DEF TypeInv, SocketsOK
  <2>2. CASE conns # NoEntry /\ ent[conns].attached
    <3>1. PICK k \in Runtimes : k = ent[conns].rt
      BY <2>2, EntryRuntime
    <3>2. lost' = [lost EXCEPT ![k] = lost[k] + 1]
      BY <2>2, <3>1 DEF Replaces
    <3>3. EntryHas(q) = IF q = k THEN 1 ELSE 0
      BY <2>2, <3>1 DEF EntryHas
    <3> QED
      BY <2>1, <3>2, <3>3
  <2>3. CASE ~(conns # NoEntry /\ ent[conns].attached)
    <3>1. lost' = lost /\ EntryHas(q) = 0
      BY <2>3 DEF Replaces, EntryHas
    <3> QED
      BY <2>1, <3>1
  <2> QED
    BY <2>2, <2>3
<1>4. CountsOK'
  <2>1. ASSUME NEW q \in Runtimes PROVE Held(q)' = Held(q)
    <3>1. /\ EntryHas(q) \in {0, 1} /\ CreationHas(q) \in {0, 1} /\ RetriesHave(q) \in Nat /\ lost[q] \in Nat
          /\ Held(q) \in Nat
      BY NumbersNow
    <3>2. CreationHas(q)' \in {0, 1} /\ RetriesHave(q)' \in Nat
      BY NumbersThen
    <3>3. EntryHas(q)' = IF new.rt = q THEN 1 ELSE 0
      BY <1>0 DEF EntryHas
    <3>4. lost'[q] = lost[q] + EntryHas(q)
      BY <1>3
    <3>5. ServerHas(q)' = ServerHas(q) + 0
      <4>1. CASE new.rt = q
        <5>1. EntryHas(q)' = 1
          BY <3>3, <4>1
        <5>2. CreationHas(q) + RetriesHave(q) = CreationHas(q)' + RetriesHave(q)' + 1
          BY <4>1
        <5> QED
          BY <3>1, <3>2, <3>4, <5>1, <5>2 DEF ServerHas
      <4>2. CASE new.rt # q
        <5>1. EntryHas(q)' = 0
          BY <3>3, <4>2
        <5>2. CreationHas(q) + RetriesHave(q) = CreationHas(q)' + RetriesHave(q)'
          BY <4>2
        <5> QED
          BY <3>1, <3>2, <3>4, <5>1, <5>2 DEF ServerHas
      <4> QED
        BY <4>1, <4>2
    <3>6. Held(q)' = Held(q) + 0
      BY <3>5, ServerMoves
    <3> QED
      BY <3>1, <3>6
  <2> QED
    BY <2>1, NothingMoves DEF Sound
<1>5. DetachedOK'
  <2>1. \A x \in Entries : ent'[x].rt \in 0 .. MaxRuntimes
    BY DEF TypeInv, EntriesOK, Ents
  <2>2. \A x \in Entries : ent'[x].rt # 0 /\ ~ent'[x].attached => Terminated(reg, ent'[x].rt)
    <3>1. \A x \in Entries : Retired(x).rt = 0
      BY <1>1, RetiredFits
    <3> QED
      BY <1>0, <3>1 DEF Sound, DetachedOK
  <2>3. retries' \subseteq [ent : Entries, rt : Runtimes, first : Sockets]
    BY DEF TypeInv, SocketsOK
  <2>4. \A x \in Entries : ~ent'[x].timer
    BY <1>0 DEF EntriesOK
  <2>5. \A j \in retries' : ent'[j.ent].timer => Settled(j.rt)
    BY <2>3, <2>4
  <2> QED
    BY <1>2, <2>1, <2>2, <2>3, <2>5, DetachedGoes
<1>6. AwaitedOK'
  BY <1>2, AwaitedFades DEF Sound
<1>7. JobsOK' /\ AwakeOK'
  BY <1>2, <1>4, PushStands DEF Sound
<1> QED
  BY <1>4, <1>5, <1>6, <1>7 DEF Sound

\* Who is held when none is alive was lost.
LEMMA HeldIsLost ==
    ASSUME TypeInv, CountsOK, NoneAlive(reg), NEW r \in Runtimes, Held(r) # 0
    PROVE  reg.life[r] = "lost"
<1>1. RegistryOK(reg) /\ HeldBy(reg, r, Held(r)) /\ ~Alive(reg, r)
  BY DEF TypeInv, CountsOK, NoneAlive
<1> QED
  BY <1>1, HeldIsMade

LEMMA AwaitedIsLost ==
    ASSUME TypeInv, LifeInv, CountsOK, JobsOK, NoneAlive(reg), NEW r \in Runtimes, Awaits(r)
    PROVE  reg.life[r] = "lost" /\ Settled(r)
<1>1. reg.life[r] = "lost"
  BY AwaitedIsHeld, HeldIsLost
<1> QED
  BY <1>1 DEF LifeInv, LivesMatch, Settled

LEMMA EntryIsHeld ==
    ASSUME TypeInv, NEW r \in Runtimes, conns # NoEntry, ent[conns].attached, ent[conns].rt = r
    PROVE  Held(r) # 0
<1>1. EntryHas(r) = 1
  BY DEF EntryHas
<1>2. /\ CreationHas(r) \in {0, 1} /\ RetriesHave(r) \in Nat
      /\ lost[r] \in Nat /\ SupervisorHas(r) \in Nat /\ LoansHave(r) \in Nat
  BY NumbersNow
<1> QED
  BY <1>1, <1>2 DEF Held, ServerHas

\* When none is alive, those who held a runtime may let it go in any order.
LEMMA EndIsHeard ==
    ASSUME TypeInv, LifeInv, Sound, TypeInv', LifeInv', NoneAlive(reg), Fades(reg, reg'),
           \A s \in Runtimes : HeldBy(reg', s, Held(s)),
           retries' \subseteq retries, UNCHANGED <<create, lost, pushing, lent>>,
           \A n \in notices : n[1] = "push" => n \in notices',
           \A q \in Runtimes : EntryHas(q)' <= EntryHas(q),
           \A e \in Entries : ent'[e].rt \in {0, ent[e].rt}
    PROVE  Sound'
<1>1. Goes(reg, reg') /\ NoneAlive(reg')
  BY NoneAliveStays DEF Fades
<1>2. CountsOK'
  <2>1. ASSUME NEW q \in Runtimes PROVE Held(q)' \in Nat /\ Held(q)' <= Held(q)
    <3>1. /\ EntryHas(q) \in {0, 1} /\ CreationHas(q) \in {0, 1} /\ RetriesHave(q) \in Nat /\ lost[q] \in Nat
          /\ ServerHas(q) \in Nat /\ Held(q) \in Nat
      BY NumbersNow
    <3>2. EntryHas(q)' \in {0, 1} /\ RetriesHave(q)' \in Nat /\ ServerHas(q)' \in Nat /\ Held(q)' \in Nat
      BY NumbersThen
    <3>3. RetriesHave(q)' <= RetriesHave(q)
      <4>1. IsFiniteSet(Of(retries, q)) /\ Of(retries', q) \subseteq Of(retries, q)
        BY FS_Subset DEF Of, TypeInv, SocketsOK
      <4>2. Cardinality(Of(retries', q)) <= Cardinality(Of(retries, q))
        BY <4>1, FS_Subset
      <4> QED
        BY <4>2 DEF RetriesHave
    <3>4. CreationHas(q)' = CreationHas(q) /\ EntryHas(q)' <= EntryHas(q)
      BY DEF CreationHas
    <3>5. ServerHas(q)' <= ServerHas(q)
      BY <3>1, <3>2, <3>3, <3>4 DEF ServerHas
    <3>6. PICK k \in Int : k = ServerHas(q)' - ServerHas(q)
      BY <3>1, <3>2
    <3>7. ServerHas(q)' = ServerHas(q) + k /\ k <= 0
      BY <3>1, <3>2, <3>5, <3>6
    <3>8. Held(q)' = Held(q) + k
      BY <3>7, ServerMoves
    <3> QED
      BY <3>1, <3>2, <3>7, <3>8
  <2> QED
    BY <1>1, <2>1, AllDeadLetGo DEF Sound
<1>3. DetachedOK'
  <2>1. \A x \in Entries : ent'[x].rt \in 0 .. MaxRuntimes
    BY DEF TypeInv, EntriesOK, Ents
  <2>2. ASSUME NEW x \in Entries, ent'[x].rt # 0 PROVE Terminated(reg, ent'[x].rt)
    <3>1. ent'[x].rt = ent[x].rt
      BY <2>2
    <3>2. PICK r \in Runtimes : r = ent[x].rt
      BY <2>1, <2>2, <3>1, RuntimesAre
    <3>3. CASE ent[x].attached
      <4>1. x = conns /\ conns # NoEntry
        BY <3>3, HoldersAssumption DEF TypeInv, EntriesOK
      <4>2. Held(r) # 0
        BY <3>2, <3>3, <4>1, EntryIsHeld
      <4> QED
        BY <3>1, <3>2, <4>2, HeldIsLost DEF Terminated, Sound
    <3>4. CASE ~ent[x].attached
      BY <2>2, <3>1, <3>4 DEF Sound, DetachedOK
    <3> QED
      BY <3>3, <3>4
  <2>3. retries' \subseteq [ent : Entries, rt : Runtimes, first : Sockets]
    BY DEF TypeInv, SocketsOK
  <2>4. \A j \in retries' : ent'[j.ent].timer => Settled(j.rt)
    <3>1. ASSUME NEW j \in retries' PROVE Settled(j.rt)
      <4>1. j.rt \in Runtimes /\ Awaits(j.rt)
        BY <2>3 DEF Awaits
      <4> QED
        BY <4>1, AwaitedIsLost DEF Sound
    <3> QED
      BY <3>1
  <2> QED
    BY <1>1, <2>1, <2>2, <2>3, <2>4, DetachedGoes
<1>4. AwaitedOK'
  <2>1. \A q \in Runtimes : Awaits(q)' => Awaits(q)
    BY DEF Awaits, Waits, pushing
  <2> QED
    BY <2>1, AwaitedFades DEF Sound
<1>5. JobsOK' /\ AwakeOK'
  BY <1>1, <1>2, PushStands DEF Sound
<1> QED
  BY <1>2, <1>3, <1>4, <1>5 DEF Sound

\* What handleConnectionClose does to the counts when none is alive.
LEMMA ClosingLetsGo ==
    ASSUME TypeInv, TypeInv', NEW g, RegistryOK(g), LivesMatch(g), NoneAlive(g),
           \A s \in Runtimes : HeldBy(g, s, Held(s)),
           NEW hears, HandleConnectionClose(g, hears)
    PROVE  /\ \A s \in Runtimes : HeldBy(reg', s, Held(s))
           /\ \A q \in Runtimes : EntryHas(q)' <= EntryHas(q)
           /\ \A e \in Entries : ent'[e].rt \in {0, ent[e].rt}
<1>0. /\ \A q \in Runtimes : EntryHas(q) \in {0, 1}
      /\ ent \in [Entries -> Ents]
  BY NumbersNow DEF TypeInv, EntriesOK
<1>1. CASE conns = NoEntry
  <2>1. reg' = g /\ conns' = conns /\ ent' = ent
    BY <1>1 DEF HandleConnectionClose
  <2>2. \A q \in Runtimes : EntryHas(q)' = EntryHas(q)
    BY <2>1 DEF EntryHas
  <2> QED
    BY <1>0, <2>1, <2>2
<1>2. CASE conns # NoEntry
  <2>1. PICK r \in Runtimes : r = ent[conns].rt
    BY <1>2, EntryRuntime
  <2>2. reg' = Release(g, r) /\ conns \in Entries
    BY <1>2, <2>1, EntryRuntime DEF HandleConnectionClose
  <2>3. \A s \in Runtimes : HeldBy(reg', s, Held(s))
    <3>1. ~Alive(g, r)
      BY DEF NoneAlive
    <3> QED
      BY <2>2, <3>1, DeadIsReleased
  <2>4. \E x \in Ents : /\ ent' = [ent EXCEPT ![conns] = x] /\ x.rt \in {0, r}
                        /\ (conns' = conns /\ ~x.attached) \/ conns' = NoEntry
    <3>1. CASE ent[conns].clients # {} /\ ent[conns].attempts < MaxRetries
      <4> DEFINE x == [ent[conns] EXCEPT !.attached = FALSE, !.attempts = @ + 1, !.timer = TRUE]
      <4>1. ent' = [ent EXCEPT ![conns] = x] /\ conns' = conns
        BY <1>2, <3>1 DEF HandleConnectionClose
      <4>2. ent'[conns] \in Ents /\ ent'[conns] = x
        BY <1>0, <2>2, <4>1 DEF TypeInv, EntriesOK
      <4>3. x.rt = r /\ ~x.attached
        BY <1>0, <2>1, <2>2 DEF Ents
      <4> HIDE DEF x
      <4> QED
        BY <4>1, <4>2, <4>3
    <3>2. CASE ~(ent[conns].clients # {} /\ ent[conns].attempts < MaxRetries)
      <4>1. ent' = [ent EXCEPT ![conns] = Retired(conns)] /\ conns' = NoEntry
        BY <1>2, <3>2 DEF HandleConnectionClose
      <4>2. Retired(conns) \in Ents /\ Retired(conns).rt = 0
        BY <1>0, <2>2, RetiredFits
      <4> QED
        BY <4>1, <4>2
    <3> QED
      BY <3>1, <3>2
  <2>5. PICK x \in Ents : /\ ent' = [ent EXCEPT ![conns] = x] /\ x.rt \in {0, r}
                          /\ (conns' = conns /\ ~x.attached) \/ conns' = NoEntry
    BY <2>4
  <2>6. \A e \in Entries : ent'[e].rt \in {0, ent[e].rt}
    BY <1>0, <2>1, <2>2, <2>5
  <2>7. \A q \in Runtimes : EntryHas(q)' = 0
    BY <1>0, <2>2, <2>5 DEF EntryHas
  <2>8. \A q \in Runtimes : EntryHas(q)' <= EntryHas(q)
    BY <1>0, <2>7
  <2> QED
    BY <2>3, <2>6, <2>8
<1> QED
  BY <1>1, <1>2

LEMMA HearingKeepsSound ==
    ASSUME TypeInv, LifeInv, Sound, TypeInv', LifeInv', WsHearsEnd
    PROVE  Sound'
<1>1. PICK n \in notices :
         /\ n[1] # "push" /\ HandleConnectionClose(reg, told)
         /\ notices' = {m \in notices \ {n} : m[1] = "entry" => conns = NoEntry}
         /\ UNCHANGED <<create, retries, lost, pushing, lent>>
  BY DEF WsHearsEnd
<1>2. RegistryOK(reg) /\ LivesMatch(reg) /\ NoneAlive(reg) /\ \A s \in Runtimes : HeldBy(reg, s, Held(s))
  BY <1>1 DEF TypeInv, LifeInv, Sound, CountsOK
<1>3. /\ \A s \in Runtimes : HeldBy(reg', s, Held(s))
      /\ \A q \in Runtimes : EntryHas(q)' <= EntryHas(q)
      /\ \A e \in Entries : ent'[e].rt \in {0, ent[e].rt}
  BY <1>1, <1>2, ClosingLetsGo
<1>4. Fades(reg, reg')
  BY <1>1, <1>2, ClosingFades
<1>5. \A m \in notices : m[1] = "push" => m \in notices'
  BY <1>1
<1>6. retries' \subseteq retries
  BY <1>1
<1> QED
  BY <1>1, <1>2, <1>3, <1>4, <1>5, <1>6, EndIsHeard

LEMMA CreationKeepsSound ==
    ASSUME TypeInv, LifeInv, Sound, TypeInv', LifeInv', CreationSettles
    PROVE  Sound'
<1>0. /\ create.rt # 0 /\ GoesOn(create.rt) /\ create' = NoCreation
      /\ UNCHANGED <<retries, pushing, lent, notices>>
  BY DEF CreationSettles
<1>1. PICK r \in Runtimes : r = create.rt
  BY <1>0, RuntimesAre DEF TypeInv, SocketsOK
<1>2. \A q \in Runtimes : /\ CreationHas(q)' = 0 /\ RetriesHave(q)' = RetriesHave(q)
                          /\ CreationHas(q) = IF q = r THEN 1 ELSE 0
                          /\ RetriesHave(q) \in Nat
  BY <1>0, <1>1, RuntimesAre, NumbersNow DEF CreationHas, RetriesHave, NoCreation
<1>3. \A q \in Runtimes : Awaits(q)' => Awaits(q)
  BY <1>0, RuntimesAre DEF Awaits, Waits, pushing, NoCreation
<1>4. CASE reg.promise[create.rt] = "ok"
  <2> DEFINE new == [NewEntry EXCEPT !.rt = create.rt, !.attached = TRUE, !.clients = create.waiting]
  <2>1. PICK e \in Entries : Replaces(e, new)
    BY <1>4 DEF CreationSettles, Unused
  <2>2. new \in Ents /\ new.attached /\ ~new.timer /\ new.rt # 0 /\ new.rt = r
    BY <1>0, <1>1, NewEntryFits DEF Ents, TypeInv, SocketsOK
  <2>3. reg' = reg /\ retries' \subseteq retries
    BY <1>0, <1>4 DEF CreationSettles
  <2> HIDE DEF new
  <2>4. \A q \in Runtimes : new.rt = q =>
            CreationHas(q) + RetriesHave(q) = CreationHas(q)' + RetriesHave(q)' + 1
    <3>1. ASSUME NEW q \in Runtimes, new.rt = q
          PROVE  CreationHas(q) + RetriesHave(q) = CreationHas(q)' + RetriesHave(q)' + 1
      <4>1. CreationHas(q)' = 0 /\ RetriesHave(q)' = RetriesHave(q) /\ CreationHas(q) = 1 /\ RetriesHave(q) \in Nat
        BY <1>2, <2>2, <3>1
      <4> QED
        BY <4>1
    <3> QED
      BY <3>1
  <2>5. \A q \in Runtimes : new.rt # q =>
            CreationHas(q) + RetriesHave(q) = CreationHas(q)' + RetriesHave(q)'
    BY <1>2, <2>2
  <2> QED
    BY <1>0, <1>3, <2>1, <2>2, <2>3, <2>4, <2>5, ReplacingKeepsSound
<1>5. CASE reg.promise[create.rt] # "ok"
  <2>1. reg' = Release(reg, r) /\ UNCHANGED <<conns, ent, lost>>
    BY <1>1, <1>5 DEF CreationSettles
  <2>2. RegistryOK(reg) /\ LivesMatch(reg)
    BY DEF TypeInv, LifeInv
  <2>3. Fades(reg, reg') /\ Goes(reg, reg')
    BY <2>1, <2>2, ReleaseFades DEF Fades
  <2>4. CountsOK'
    <3>1. \A q \in Runtimes : Held(q) \in Nat /\ Held(q)' \in Nat
      BY NumbersNow, NumbersThen
    <3>2. ASSUME NEW q \in Runtimes
          PROVE  /\ q # r => Held(q)' = Held(q)
                 /\ q = r => Held(q) = Held(q)' + 1
      <4>1. /\ EntryHas(q) \in {0, 1} /\ CreationHas(q) \in {0, 1} /\ RetriesHave(q) \in Nat /\ lost[q] \in Nat
            /\ Held(q) \in Nat
        BY NumbersNow
      <4>2. EntryHas(q)' = EntryHas(q)
        BY <2>1 DEF EntryHas
      <4>3. CASE q = r
        <5>1. CreationHas(q) = 1 /\ CreationHas(q)' = 0 /\ RetriesHave(q)' = RetriesHave(q)
          BY <1>2, <4>3
        <5>2. ServerHas(q)' = ServerHas(q) + (-1)
          BY <2>1, <4>1, <4>2, <5>1 DEF ServerHas
        <5>3. Held(q)' = Held(q) + (-1)
          BY <1>0, <5>2, ServerMoves
        <5> QED
          BY <4>1, <4>3, <5>3
      <4>4. CASE q # r
        <5>1. CreationHas(q) = 0 /\ CreationHas(q)' = 0 /\ RetriesHave(q)' = RetriesHave(q)
          BY <1>2, <4>4
        <5>2. ServerHas(q)' = ServerHas(q) + 0
          BY <2>1, <4>1, <4>2, <5>1 DEF ServerHas
        <5>3. Held(q)' = Held(q) + 0
          BY <1>0, <5>2, ServerMoves
        <5> QED
          BY <4>1, <4>4, <5>3
      <4> QED
        BY <4>3, <4>4
    <3> QED
      BY <2>1, <3>1, <3>2, OneLetsGo DEF Sound
  <2>5. DetachedOK'
    <3>1. \A e \in Entries : ent'[e].rt \in 0 .. MaxRuntimes
      BY DEF TypeInv, EntriesOK, Ents
    <3>2. \A e \in Entries : ent'[e].rt # 0 /\ ~ent'[e].attached => Terminated(reg, ent'[e].rt)
      BY <2>1 DEF Sound, DetachedOK
    <3>3. retries' \subseteq [ent : Entries, rt : Runtimes, first : Sockets]
      BY DEF TypeInv, SocketsOK
    <3>4. \A j \in retries' : ent'[j.ent].timer => Settled(j.rt)
      BY <1>0, <2>1 DEF Sound, DetachedOK
    <3> QED
      BY <2>3, <3>1, <3>2, <3>3, <3>4, DetachedGoes
  <2>6. AwaitedOK'
    BY <1>3, <2>3, AwaitedFades DEF Sound
  <2>7. JobsOK' /\ AwakeOK'
    BY <1>0, <2>3, <2>4, PushStands DEF Sound
  <2> QED
    BY <2>4, <2>5, <2>6, <2>7 DEF Sound
<1> QED
  BY <1>4, <1>5

LEMMA TimerKeepsSound ==
    ASSUME TypeInv, LifeInv, Sound, TypeInv', LifeInv', ReconnectTimerFires
    PROVE  Sound'
<1>0. /\ Quiet /\ conns # NoEntry /\ conns \in Entries /\ ent[conns].timer
      /\ ent' = [ent EXCEPT ![conns].timer = FALSE]
      /\ UNCHANGED <<conns, create, lost, pushing, lent, notices>>
      /\ ent \in [Entries -> Ents]
  BY EntryRuntime DEF ReconnectTimerFires, TypeInv, EntriesOK
<1>1. \A e \in Entries : /\ ent'[e].rt = ent[e].rt /\ ent'[e].attached = ent[e].attached
                         /\ ent'[e].timer => ent[e].timer /\ e # conns
  BY <1>0 DEF Ents
<1>2. CASE ent[conns].clients = {}
  <2>1. reg' = reg /\ retries' = retries
    BY <1>2 DEF ReconnectTimerFires
  <2>2. create'.rt = create.rt
    BY <1>0
  <2> QED
    BY <1>0, <1>1, <2>1, <2>2, NobodyMoves
<1>3. CASE ent[conns].clients # {}
  <2>1. /\ CanAcquire(reg) /\ reg' = AcquireConnected(reg)
        /\ \E s \in ent[conns].clients :
               retries' = retries \cup {[ent |-> conns, rt |-> reg'.current, first |-> s]}
    BY <1>3 DEF ReconnectTimerFires
  <2>2. RegistryOK(reg) /\ LivesMatch(reg)
    BY DEF TypeInv, LifeInv
  <2>3. /\ Goes(reg, reg') /\ reg'.current \in Runtimes /\ Alive(reg', reg'.current)
        /\ reg'.promise[reg'.current] \in {"pending", "ok"}
    BY <2>1, <2>2, AcquiredGoes
  <2>4. PICK c \in Runtimes : c = reg'.current
    BY <2>3
  <2>5. PICK j : j.ent = conns /\ j.rt = c /\ retries' = retries \cup {j}
    <3>1. PICK s \in ent[conns].clients :
               retries' = retries \cup {[ent |-> conns, rt |-> reg'.current, first |-> s]}
      BY <2>1
    <3> DEFINE j == [ent |-> conns, rt |-> reg'.current, first |-> s]
    <3>2. j.ent = conns /\ j.rt = c /\ retries' = retries \cup {j}
      BY <2>4, <3>1
    <3> HIDE DEF j
    <3> QED
      BY <3>2
  <2>6. j \notin retries
    BY <1>0, <2>5 DEF Sound, DetachedOK, Quiet
  <2>7. CountsOK'
    <3>1. ASSUME NEW q \in Runtimes
          PROVE  /\ q # c => Held(q)' = Held(q)
                 /\ q = c => Held(q)' = Held(q) + 1
      <4>1. /\ EntryHas(q) \in {0, 1} /\ CreationHas(q) \in {0, 1} /\ RetriesHave(q) \in Nat /\ lost[q] \in Nat
            /\ Held(q) \in Nat
        BY NumbersNow
      <4>2. EntryHas(q)' = EntryHas(q) /\ CreationHas(q)' = CreationHas(q)
        BY <1>0, <1>1 DEF EntryHas, CreationHas
      <4>3. /\ j.rt = q => Cardinality(Of(retries \cup {j}, q)) = Cardinality(Of(retries, q)) + 1
            /\ j.rt # q => Cardinality(Of(retries \cup {j}, q)) = Cardinality(Of(retries, q))
        BY <2>6, OneMore DEF TypeInv, SocketsOK
      <4>4. CASE q = c
        <5>1. RetriesHave(q)' = RetriesHave(q) + 1
          BY <2>5, <4>3, <4>4 DEF RetriesHave
        <5>2. ServerHas(q)' = ServerHas(q) + 1
          BY <1>0, <4>1, <4>2, <5>1 DEF ServerHas
        <5>3. Held(q)' = Held(q) + 1
          BY <1>0, <5>2, ServerMoves
        <5> QED
          BY <4>4, <5>3
      <4>5. CASE q # c
        <5>1. RetriesHave(q)' = RetriesHave(q)
          BY <2>5, <4>3, <4>5 DEF RetriesHave
        <5>2. ServerHas(q)' = ServerHas(q) + 0
          BY <1>0, <4>1, <4>2, <5>1 DEF ServerHas
        <5>3. Held(q)' = Held(q) + 0
          BY <1>0, <5>2, ServerMoves
        <5> QED
          BY <4>1, <4>5, <5>3
      <4> QED
        BY <4>4, <4>5
    <3>2. \A q \in Runtimes : q # reg'.current => Held(q)' = Held(q)
      BY <2>4, <3>1
    <3>3. \A q \in Runtimes : q = reg'.current => Held(q)' = Held(q) + 1
      BY <2>4, <3>1
    <3> QED
      BY <2>1, <3>2, <3>3, OneTakes DEF Sound
  <2>8. DetachedOK'
    <3>1. \A e \in Entries : ent'[e].rt \in 0 .. MaxRuntimes
      BY DEF TypeInv, EntriesOK, Ents
    <3>2. \A e \in Entries : ent'[e].rt # 0 /\ ~ent'[e].attached => Terminated(reg, ent'[e].rt)
      BY <1>1 DEF Sound, DetachedOK
    <3>3. retries' \subseteq [ent : Entries, rt : Runtimes, first : Sockets]
      BY DEF TypeInv, SocketsOK
    <3>4. \A e \in Entries : ~ent'[e].timer
      BY <1>1 DEF TypeInv, EntriesOK
    <3>5. \A i \in retries' : ent'[i.ent].timer => Settled(i.rt)
      BY <3>3, <3>4
    <3> QED
      BY <2>3, <3>1, <3>2, <3>3, <3>5, DetachedGoes
  <2>9. AwaitedOK'
    <3>1. \A r \in Runtimes : Awaits(r)' =>
              Awaits(r) \/ (reg'.promise[r] \in {"pending", "ok"} /\ Alive(reg', r))
      BY <1>0, <2>3, <2>4, <2>5 DEF Awaits, Waits, pushing
    <3> QED
      BY <1>0, <2>3, <3>1, AwaitedAcquires DEF Sound
  <2>10. JobsOK' /\ AwakeOK'
    BY <1>0, <2>3, <2>7, PushStands DEF Sound
  <2> QED
    BY <2>7, <2>8, <2>9, <2>10 DEF Sound
<1> QED
  BY <1>2, <1>3

LEMMA RetryKeepsSound ==
    ASSUME TypeInv, LifeInv, Sound, TypeInv', LifeInv', NEW j \in retries, RetrySettles(j)
    PROVE  Sound'
<1>0. /\ GoesOn(j.rt) /\ retries' = retries \ {j} /\ UNCHANGED <<create, pushing, lent, notices>>
      /\ j.ent \in Entries /\ j.rt \in Runtimes /\ retries' \subseteq retries
      /\ IsFiniteSet(retries) /\ ent \in [Entries -> Ents]
  BY DEF RetrySettles, TypeInv, SocketsOK, EntriesOK
<1>1. CASE reg.promise[j.rt] = "ok"
  <2> DEFINE new == [ent[j.ent] EXCEPT !.rt = j.rt, !.attached = TRUE, !.timer = FALSE]
  <2>1. Replaces(j.ent, new) /\ reg' = reg
    BY <1>1 DEF RetrySettles
  <2>2. new \in Ents /\ new.attached /\ ~new.timer /\ new.rt # 0 /\ new.rt = j.rt
    BY <1>0, RuntimesAre DEF Ents
  <2> HIDE DEF new
  <2>3. ASSUME NEW q \in Runtimes
        PROVE  /\ CreationHas(q) \in {0, 1} /\ CreationHas(q)' = CreationHas(q)
               /\ RetriesHave(q)' \in Nat
               /\ j.rt = q => RetriesHave(q) = RetriesHave(q)' + 1
               /\ j.rt # q => RetriesHave(q) = RetriesHave(q)'
    <3>1. CreationHas(q) \in {0, 1} /\ CreationHas(q)' = CreationHas(q)
      BY <1>0, NumbersNow DEF CreationHas
    <3>2. /\ Cardinality(Of(retries \ {j}, q)) \in Nat
          /\ j.rt = q => Cardinality(Of(retries, q)) = Cardinality(Of(retries \ {j}, q)) + 1
          /\ j.rt # q => Cardinality(Of(retries, q)) = Cardinality(Of(retries \ {j}, q))
      BY <1>0, OneLess
    <3> QED
      BY <1>0, <3>1, <3>2 DEF RetriesHave
  <2>4. \A q \in Runtimes : new.rt = q =>
            CreationHas(q) + RetriesHave(q) = CreationHas(q)' + RetriesHave(q)' + 1
    <3>1. ASSUME NEW q \in Runtimes, new.rt = q
          PROVE  CreationHas(q) + RetriesHave(q) = CreationHas(q)' + RetriesHave(q)' + 1
      <4>1. /\ CreationHas(q) \in {0, 1} /\ CreationHas(q)' = CreationHas(q)
            /\ RetriesHave(q)' \in Nat /\ RetriesHave(q) = RetriesHave(q)' + 1
        BY <2>2, <2>3, <3>1
      <4> QED
        BY <4>1
    <3> QED
      BY <3>1
  <2>5. \A q \in Runtimes : new.rt # q =>
            CreationHas(q) + RetriesHave(q) = CreationHas(q)' + RetriesHave(q)'
    BY <2>2, <2>3
  <2>6. \A q \in Runtimes : Awaits(q)' => Awaits(q)
    BY <1>0 DEF Awaits, Waits, pushing
  <2> QED
    BY <1>0, <2>1, <2>2, <2>4, <2>5, <2>6, ReplacingKeepsSound
<1>2. CASE reg.promise[j.rt] # "ok"
  <2> DEFINE g == Release(reg, j.rt)
             hears == Tell(told, {j.first}, "error")
  <2>1. RetryFails(j.ent, g, hears) /\ lost' = lost
    BY <1>2 DEF RetrySettles
  <2>2. NoneAlive(reg)
    <3>1. reg.promise[j.rt] = "failed"
      BY <1>0, <1>2 DEF GoesOn, Settled
    <3>2. Awaits(j.rt)
      BY DEF Awaits
    <3> QED
      BY <1>0, <3>1, <3>2 DEF Sound, AwaitedOK, Heard
  <2>3. /\ RegistryOK(reg) /\ LivesMatch(reg) /\ ~Alive(reg, j.rt)
        /\ \A s \in Runtimes : HeldBy(reg, s, Held(s))
    BY <1>0, <2>2 DEF TypeInv, LifeInv, Sound, CountsOK, NoneAlive
  <2>4. /\ RegistryOK(g) /\ LivesMatch(g) /\ Fades(reg, g)
        /\ \A s \in Runtimes : HeldBy(g, s, Held(s))
    BY <1>0, <2>3, DeadIsReleased, ReleaseFades
  <2>5. NoneAlive(g)
    BY <2>2, <2>4, NoneAliveStays
  <2> HIDE DEF g, hears
  <2>6. /\ \A s \in Runtimes : HeldBy(reg', s, Held(s))
        /\ \A q \in Runtimes : EntryHas(q)' <= EntryHas(q)
        /\ \A e \in Entries : ent'[e].rt \in {0, ent[e].rt}
        /\ Fades(g, reg')
    <3>1. CASE HandleConnectionClose(g, hears)
      BY <2>4, <2>5, <3>1, ClosingLetsGo, ClosingFades
    <3>2. CASE ~HandleConnectionClose(g, hears)
      <4>1. reg' = g /\ UNCHANGED <<conns, ent>>
        BY <2>1, <3>2 DEF RetryFails
      <4>2. \A q \in Runtimes : EntryHas(q)' = EntryHas(q) /\ EntryHas(q) \in {0, 1}
        BY <4>1, NumbersNow DEF EntryHas
      <4>3. \A q \in Runtimes : EntryHas(q)' <= EntryHas(q)
        BY <4>2
      <4> QED
        BY <2>4, <4>1, <4>3, SameFades
    <3> QED
      BY <3>1, <3>2
  <2>7. Fades(reg, reg')
    BY <2>4, <2>6, FadesOnAndOn
  <2> QED
    BY <1>0, <2>1, <2>2, <2>6, <2>7, EndIsHeard
<1> QED
  BY <1>1, <1>2

LEMMA ServerKeepsSound ==
    ASSUME TypeInv, LifeInv, Sound, TypeInv', LifeInv',
           CreationSettles \/ WsHearsEnd \/ ReconnectTimerFires \/ \E j \in retries : RetrySettles(j)
    PROVE  Sound'
BY CreationKeepsSound, HearingKeepsSound, TimerKeepsSound, RetryKeepsSound

-----------------------------------------------------------------------------
(* Borrowers, and the runtime itself                                       *)

\* A step of the others that leaves entries, retries and jobs alone.
LEMMA OthersStand ==
    ASSUME TypeInv, LifeInv, Sound, TypeInv', LifeInv', Goes(reg, reg'), CountsOK',
           UNCHANGED <<conns, ent, retries, pushing>>,
           \A n \in notices : n[1] = "push" => n \in notices'
    PROVE  DetachedOK' /\ JobsOK' /\ AwakeOK'
<1>1. DetachedOK'
  <2>1. \A e \in Entries : ent'[e].rt \in 0 .. MaxRuntimes
    BY DEF TypeInv, EntriesOK, Ents
  <2>2. \A e \in Entries : ent'[e].rt # 0 /\ ~ent'[e].attached => Terminated(reg, ent'[e].rt)
    BY DEF Sound, DetachedOK
  <2>3. retries' \subseteq [ent : Entries, rt : Runtimes, first : Sockets]
    BY DEF TypeInv, SocketsOK
  <2>4. \A j \in retries' : ent'[j.ent].timer => Settled(j.rt)
    BY DEF Sound, DetachedOK
  <2> QED
    BY <2>1, <2>2, <2>3, <2>4, DetachedGoes
<1>2. JobsOK' /\ AwakeOK'
  BY PushStands DEF Sound
<1> QED
  BY <1>1, <1>2

\* The borrowers of runtime q.
LEMMA LoansCount ==
    ASSUME TypeInv, NEW b \in Borrowers, NEW q \in Runtimes
    PROVE  /\ lent[b].rt = 0 /\ lent'[b].rt = q /\ (\A a \in Borrowers : a # b => lent'[a] = lent[a])
                  => LoansHave(q)' = LoansHave(q) + 1
           /\ lent[b].rt = q /\ lent'[b].rt = 0 /\ (\A a \in Borrowers : a # b => lent'[a] = lent[a])
                  => LoansHave(q)' = LoansHave(q) - 1
           /\ lent[b].rt # q /\ lent'[b].rt # q /\ (\A a \in Borrowers : a # b => lent'[a] = lent[a])
                  => LoansHave(q)' = LoansHave(q)
<1> DEFINE S == {a \in Borrowers : lent[a].rt = q}
           T == {a \in Borrowers : lent'[a].rt = q}
<1>0. LoansHave(q) = Cardinality(S) /\ LoansHave(q)' = Cardinality(T)
  BY DEF LoansHave
<1>1. IsFiniteSet(S) /\ Cardinality(S) \in Nat
  <2>1. IsFiniteSet({a \in Borrowers : lent[a].rt # 0})
    BY DEF TypeInv, LoansOK
  <2>2. S \subseteq {a \in Borrowers : lent[a].rt # 0}
    BY RuntimesAre
  <2>3. IsFiniteSet(S)
    BY <2>1, <2>2, FS_Subset
  <2> QED
    BY <2>3, FS_CardinalityType
<1>2. ASSUME lent[b].rt = 0, lent'[b].rt = q, \A a \in Borrowers : a # b => lent'[a] = lent[a]
      PROVE  Cardinality(T) = Cardinality(S) + 1
  <2>1. T = S \cup {b} /\ b \notin S
    BY <1>2, RuntimesAre
  <2> HIDE DEF S, T
  <2> QED
    BY <1>1, <2>1, FS_AddElement
<1>3. ASSUME lent[b].rt = q, lent'[b].rt = 0, \A a \in Borrowers : a # b => lent'[a] = lent[a]
      PROVE  Cardinality(T) = Cardinality(S) - 1
  <2>1. T = S \ {b} /\ b \in S
    BY <1>3, RuntimesAre
  <2> HIDE DEF S, T
  <2> QED
    BY <1>1, <2>1, FS_RemoveElement
<1>4. ASSUME lent[b].rt # q, lent'[b].rt # q, \A a \in Borrowers : a # b => lent'[a] = lent[a]
      PROVE  Cardinality(T) = Cardinality(S)
  <2>1. T = S
    BY <1>4
  <2> QED
    BY <2>1
<1> QED
  BY <1>0, <1>2, <1>3, <1>4

LEMMA BorrowKeepsSound ==
    ASSUME TypeInv, LifeInv, Sound, TypeInv', LifeInv', NEW b \in Borrowers, Borrow(b)
    PROVE  Sound'
<1>0. Quiet /\ lent[b].rt = 0 /\ CanAcquire(reg) /\ UNCHANGED <<ws, pushing, notices>>
  BY DEF Borrow
<1>1. /\ reg' \in {Acquire(reg), AcquireConnected(reg)}
      /\ \E waits \in BOOLEAN : lent' = [lent EXCEPT ![b] = [rt |-> reg'.current, waits |-> waits]]
  BY DEF Borrow
<1>2. RegistryOK(reg) /\ LivesMatch(reg)
  BY DEF TypeInv, LifeInv
<1>3. Goes(reg, reg') /\ reg'.current \in Runtimes
  BY <1>0, <1>1, <1>2, AcquireGoes DEF AcquireConnected
<1>4. PICK c \in Runtimes : c = reg'.current
  BY <1>3
<1>5. lent'[b].rt = c /\ \A a \in Borrowers : a # b => lent'[a] = lent[a]
  BY <1>1, <1>4 DEF TypeInv, LoansOK
<1>6. CountsOK'
  <2>1. \A q \in Runtimes : q # c => Held(q)' = Held(q)
    <3>1. ASSUME NEW q \in Runtimes, q # c PROVE Held(q)' = Held(q)
      <4>1. lent[b].rt # q /\ lent'[b].rt # q
        BY <1>0, <1>5, <3>1, RuntimesAre
      <4>2. LoansHave(q) \in Nat /\ Held(q) \in Nat
        BY NumbersNow
      <4>3. LoansHave(q)' = LoansHave(q) + 0
        BY <1>5, <4>1, <4>2, LoansCount
      <4>4. Held(q)' = Held(q) + 0
        BY <1>0, <4>3, LoansMove
      <4> QED
        BY <4>2, <4>4
    <3> QED
      BY <3>1
  <2>2. Held(c)' = Held(c) + 1
    <3>1. LoansHave(c)' = LoansHave(c) + 1
      BY <1>0, <1>5, LoansCount
    <3> QED
      BY <1>0, <3>1, LoansMove
  <2>3. \A q \in Runtimes : q # reg'.current => Held(q)' = Held(q)
    BY <1>4, <2>1
  <2>4. \A q \in Runtimes : q = reg'.current => Held(q)' = Held(q) + 1
    BY <1>4, <2>2
  <2> QED
    BY <1>0, <1>1, <2>3, <2>4, OneTakes DEF Sound
<1>7. AwaitedOK'
  <2>1. \A r \in Runtimes : Awaits(r)' =>
            Awaits(r) \/ (reg'.promise[r] \in {"pending", "ok"} /\ Alive(reg', r))
    BY <1>0 DEF Awaits, Waits, pushing, ws
  <2> QED
    BY <1>0, <1>3, <2>1, AwaitedAcquires DEF Sound
<1>8. DetachedOK' /\ JobsOK' /\ AwakeOK'
  BY <1>0, <1>3, <1>6, OthersStand DEF ws
<1> QED
  BY <1>6, <1>7, <1>8 DEF Sound

LEMMA GiveBackKeepsSound ==
    ASSUME TypeInv, LifeInv, Sound, TypeInv', LifeInv', NEW b \in Borrowers, GiveBack(b)
    PROVE  Sound'
<1>0. /\ Quiet /\ lent[b].rt # 0 /\ reg' = Release(reg, lent[b].rt) /\ lent' = [lent EXCEPT ![b] = NoLoan]
      /\ UNCHANGED <<ws, pushing, notices>>
  BY DEF GiveBack
<1>1. RegistryOK(reg) /\ LivesMatch(reg)
  BY DEF TypeInv, LifeInv
<1>2. PICK r \in Runtimes : r = lent[b].rt
  BY <1>0, RuntimesAre DEF TypeInv, LoansOK
<1>3. Fades(reg, reg') /\ Goes(reg, reg')
  BY <1>0, <1>1, <1>2, ReleaseFades DEF Fades
<1>4. lent'[b].rt = 0 /\ \A a \in Borrowers : a # b => lent'[a] = lent[a]
  BY <1>0 DEF TypeInv, LoansOK, NoLoan
<1>5. CountsOK'
  <2>1. \A q \in Runtimes : q # r => Held(q)' = Held(q)
    <3>1. ASSUME NEW q \in Runtimes, q # r PROVE Held(q)' = Held(q)
      <4>1. lent[b].rt # q /\ lent'[b].rt # q
        BY <1>2, <1>4, <3>1, RuntimesAre
      <4>2. LoansHave(q) \in Nat /\ Held(q) \in Nat
        BY NumbersNow
      <4>3. LoansHave(q)' = LoansHave(q) + 0
        BY <1>4, <4>1, <4>2, LoansCount
      <4>4. Held(q)' = Held(q) + 0
        BY <1>0, <4>3, LoansMove
      <4> QED
        BY <4>2, <4>4
    <3> QED
      BY <3>1
  <2>2. Held(r) = Held(r)' + 1 /\ \A q \in Runtimes : Held(q)' \in Nat
    <3>1. LoansHave(r) \in Nat /\ Held(r) \in Nat /\ \A q \in Runtimes : Held(q)' \in Nat
      BY NumbersNow, NumbersThen
    <3>2. LoansHave(r)' = LoansHave(r) - 1
      BY <1>2, <1>4, LoansCount
    <3>3. LoansHave(r)' = LoansHave(r) + (-1)
      BY <3>1, <3>2
    <3>4. Held(r)' = Held(r) + (-1)
      BY <1>0, <3>3, LoansMove
    <3> QED
      BY <3>1, <3>4
  <2> QED
    BY <1>0, <1>2, <2>1, <2>2, OneLetsGo DEF Sound
<1>6. AwaitedOK'
  <2>1. \A q \in Runtimes : Awaits(q)' => Awaits(q)
    BY <1>0 DEF Awaits, Waits, pushing, ws
  <2> QED
    BY <1>3, <2>1, AwaitedFades DEF Sound
<1>7. DetachedOK' /\ JobsOK' /\ AwakeOK'
  BY <1>0, <1>3, <1>5, OthersStand DEF ws
<1> QED
  BY <1>5, <1>6, <1>7 DEF Sound

\* What a connect() that settles, or the loss of a connection, changes.
LEMMA EndingIs ==
    ASSUME TypeInv, LifeInv, NEW r \in Runtimes, ConnectSettles(r) \/ RuntimeEnds(r)
    PROVE  /\ \A s \in Runtimes : s # r => reg'.life[s] = reg.life[s] /\ reg'.promise[s] = reg.promise[s]
           /\ reg'.promise[r] \in {"ok", "failed"}
           /\ \A s \in Runtimes : HeldBy(reg, s, Held(s)) => HeldBy(reg', s, Held(s))
           /\ \/ reg'.life[r] = reg.life[r] /\ reg.life[r] # "connecting" /\ reg.promise[r] = "pending"
              \/ reg.life[r] = "connecting" /\ reg'.life[r] = "up"
              \/ reg.life[r] = "connecting" /\ reg'.life[r] = "lost" /\ reg'.promise[r] = "failed"
              \/ reg.life[r] \in {"connecting", "up"} /\ reg'.life[r] = "lost" /\ notices' = Listeners(r)
<1>0. RegistryOK(reg) /\ LivesMatch(reg) /\ reg \in Registries
  BY DEF TypeInv, LifeInv, RegistryOK
<1>1. CASE ConnectSettles(r)
  <2>1. PICK ok \in BOOLEAN : reg' = Settle(reg, r, ok)
    BY <1>1 DEF ConnectSettles
  <2>2. reg.promise[r] = "pending"
    BY <1>1 DEF ConnectSettles
  <2>3. \A s \in Runtimes : HeldBy(reg, s, Held(s)) => HeldBy(reg', s, Held(s))
    BY <1>0, <2>1, EndingCounts
  <2>4. \A s \in Runtimes : s # r => reg'.life[s] = reg.life[s] /\ reg'.promise[s] = reg.promise[s]
    BY <1>0, <2>1, <2>2, EndingLives
  <2>5. /\ reg'.promise[r] = IF ok THEN "ok" ELSE "failed"
        /\ reg'.life[r] = IF reg.life[r] # "connecting" THEN reg.life[r] ELSE IF ok THEN "up" ELSE "lost"
    BY <1>0, <2>1, <2>2, EndingLives
  <2> QED
    BY <2>2, <2>3, <2>4, <2>5
<1>2. CASE RuntimeEnds(r)
  <2>1. reg.life[r] \in {"connecting", "up"} /\ notices' = Listeners(r)
    BY <1>2 DEF RuntimeEnds
  <2>2. CASE reg.life[r] = "up"
    <3>1. reg' = Lose(reg, r)
      BY <1>2, <2>2 DEF RuntimeEnds
    <3>2. \A s \in Runtimes : HeldBy(reg, s, Held(s)) => HeldBy(reg', s, Held(s))
      <4>1. reg'.refs = reg.refs /\ reg'.made = reg.made /\ reg'.life = [reg.life EXCEPT ![r] = "lost"]
        BY <1>0, <3>1 DEF Lose, Registries
      <4>2. \A s \in Runtimes : /\ Alive(reg', s) => Alive(reg, s)
                                /\ reg'.life[s] = "shut" => reg.life[s] = "shut"
        BY <1>0, <4>1 DEF Registries, Alive
      <4> QED
        BY <4>1, <4>2 DEF HeldBy
    <3>3. /\ \A s \in Runtimes : s # r => reg'.life[s] = reg.life[s] /\ reg'.promise[s] = reg.promise[s]
          /\ reg'.life[r] = "lost" /\ reg'.promise[r] = "ok"
      BY <1>0, <2>2, <3>1 DEF Lose, Registries, LivesMatch
    <3> QED
      BY <2>1, <3>2, <3>3
  <2>3. CASE reg.life[r] = "connecting"
    <3>1. PICK ok \in BOOLEAN : reg' = Settle(Lose(reg, r), r, ok)
      BY <1>2, <2>3 DEF RuntimeEnds
    <3>2. \A s \in Runtimes : HeldBy(reg, s, Held(s)) => HeldBy(reg', s, Held(s))
      BY <1>0, <3>1, EndingCounts
    <3>3. /\ \A s \in Runtimes : s # r => reg'.life[s] = reg.life[s] /\ reg'.promise[s] = reg.promise[s]
          /\ reg'.life[r] = "lost" /\ reg'.promise[r] \in {"ok", "failed"}
      BY <1>0, <2>3, <3>1, EndingLives
    <3> QED
      BY <2>1, <3>2, <3>3
  <2> QED
    BY <2>1, <2>2, <2>3
<1> QED
  BY <1>1, <1>2

LEMMA EndingKeepsSound ==
    ASSUME TypeInv, LifeInv, Sound, TypeInv', LifeInv', NEW r \in Runtimes, ConnectSettles(r) \/ RuntimeEnds(r)
    PROVE  Sound'
<1>0. Quiet /\ notices = {} /\ UNCHANGED <<ws, pushing, lent>>
  BY DEF ConnectSettles, RuntimeEnds, Quiet
<1>1. /\ \A s \in Runtimes : s # r => reg'.life[s] = reg.life[s] /\ reg'.promise[s] = reg.promise[s]
      /\ reg'.promise[r] \in {"ok", "failed"}
      /\ \A s \in Runtimes : HeldBy(reg, s, Held(s)) => HeldBy(reg', s, Held(s))
      /\ \/ reg'.life[r] = reg.life[r] /\ reg.life[r] # "connecting" /\ reg.promise[r] = "pending"
         \/ reg.life[r] = "connecting" /\ reg'.life[r] = "up"
         \/ reg.life[r] = "connecting" /\ reg'.life[r] = "lost" /\ reg'.promise[r] = "failed"
         \/ reg.life[r] \in {"connecting", "up"} /\ reg'.life[r] = "lost" /\ notices' = Listeners(r)
  BY EndingIs
<1>2. \A s \in Runtimes : /\ Terminated(reg, s) => Terminated(reg', s)
                          /\ Settled(s) => Settled(s)'
                          /\ reg.promise[s] # "none" => reg'.promise[s] # "none"
                          /\ reg'.promise[s] = "pending" => reg.promise[s] = "pending" /\ s # r
  BY <1>1 DEF Terminated, Settled
<1>3. /\ conns' = conns /\ ent' = ent /\ create' = create /\ retries' = retries /\ lost' = lost
      /\ push' = push /\ pushJobs' = pushJobs /\ strays' = strays /\ lent' = lent /\ silenced' = silenced
  BY <1>0 DEF ws, pushing
<1>4. CountsOK'
  <2>1. \A s \in Runtimes : Held(s)' = Held(s)
    BY <1>3 DEF Held, ServerHas, EntryHas, CreationHas, RetriesHave, SupervisorHas, PushHas, LateHave, Late, LoansHave
  <2> QED
    BY <1>1, <2>1 DEF Sound, CountsOK
<1>5. DetachedOK'
  <2>1. \A e \in Entries : ent[e].rt \in 0 .. MaxRuntimes
    BY DEF TypeInv, EntriesOK, Ents
  <2>2. \A j \in retries : j.rt \in Runtimes
    BY DEF TypeInv, SocketsOK
  <2> QED
    BY <1>2, <1>3, <2>1, <2>2, RuntimesAre DEF Sound, DetachedOK
<1>6. AwaitedOK'
  <2>1. \A s \in Runtimes : Awaits(s)' => Awaits(s)
    BY <1>3 DEF Awaits, Waits
  <2>2. ASSUME NEW s \in Runtimes, Awaits(s) PROVE Heard(reg', s)
    <3>1. /\ reg.promise[s] = "pending" /\ reg.life[s] = "connecting"
          /\ \A q \in Runtimes : Alive(reg, q) => q = s
      BY <1>0, <2>2, QuietWaits DEF Sound
    <3>2. CASE s = r
      <4>1. \A q \in Runtimes : q # r => ~Alive(reg', q)
        BY <1>1, <3>1, <3>2 DEF Alive
      <4>2. reg'.life[r] = "up" \/ (reg'.life[r] = "lost" /\ ~Alive(reg', r))
        BY <1>1, <3>1, <3>2 DEF Alive
      <4>3. reg'.promise[r] = "failed" => reg'.life[r] # "up"
        BY DEF LifeInv, LivesMatch
      <4>4. \A q \in Runtimes : reg'.life[q] # "connecting"
        BY <4>1, <4>2 DEF Alive
      <4> QED
        BY <1>1, <3>2, <4>1, <4>2, <4>3, <4>4 DEF Heard, NoneAlive
    <3>3. CASE s # r
      BY <1>1, <3>1, <3>3 DEF Heard
    <3> QED
      BY <3>2, <3>3
  <2> QED
    BY <2>1, <2>2 DEF AwaitedOK
<1>7. \A j \in pushJobs : j.rt \in Runtimes /\ (push.rt # 0 => push.rt \in Runtimes)
  BY RuntimesAre DEF TypeInv, PushOK, Jobs
<1>8. JobsOK'
  <2>1. /\ \A j \in pushJobs : Own(j) => j.rt = push.rt \/ (Settled(j.rt) /\ strays[j.rt] # 0)
        /\ \A j \in pushJobs : j.at # "connect" => Terminated(reg, j.rt)
        /\ push.rt # 0 => reg.promise[push.rt] # "none"
        /\ push.rt # 0 /\ reg.promise[push.rt] = "pending" => \E j \in pushJobs : Own(j) /\ j.rt = push.rt
    BY DEF Sound, JobsOK
  <2>2. push.rt # 0 => push.rt \in Runtimes
    BY RuntimesAre DEF TypeInv, PushOK
  <2>3. \A j \in pushJobs : Own(j)' => j.rt = push'.rt \/ (Settled(j.rt)' /\ strays'[j.rt] # 0)
    BY <1>2, <1>3, <1>7, <2>1 DEF Own
  <2>4. \A j \in pushJobs : j.at # "connect" => Terminated(reg', j.rt)
    BY <1>2, <1>7, <2>1
  <2>5. /\ push'.rt # 0 => reg'.promise[push'.rt] # "none"
        /\ push'.rt # 0 /\ reg'.promise[push'.rt] = "pending" => \E j \in pushJobs : Own(j) /\ j.rt = push'.rt
    BY <1>2, <1>3, <2>1, <2>2
  <2> QED
    BY <1>3, <2>3, <2>4, <2>5 DEF JobsOK, Own
<1>9. AwakeOK'
  <2>1. push'.is = "on" /\ push'.rt = 0 => push'.timer \/ silenced'
    BY <1>3 DEF Sound, AwakeOK
  <2>2. ASSUME push.rt # 0, ~Alive(reg', push.rt)
        PROVE  \/ \E n \in notices' : n[1] = "push"
               \/ \E j \in pushJobs : j.own /\ j.at # "connect"
               \/ reg'.promise[push.rt] = "failed" /\ \E j \in pushJobs : Own(j) /\ j.rt = push.rt
    <3>0. push.rt \in Runtimes
      BY <2>2, RuntimesAre DEF TypeInv, PushOK
    <3>1. CASE ~Alive(reg, push.rt)
      <4>1. \/ \E j \in pushJobs : j.own /\ j.at # "connect"
            \/ reg.promise[push.rt] = "failed" /\ \E j \in pushJobs : Own(j) /\ j.rt = push.rt
        BY <1>0, <2>2, <3>1 DEF Sound, AwakeOK
      <4>2. \A j \in pushJobs : Own(j) => ~Settled(j.rt)
        BY <1>0 DEF Quiet, Own
      <4> QED
        BY <4>1, <4>2 DEF Settled
    <3>2. CASE Alive(reg, push.rt)
      <4>1. push.rt = r /\ reg'.life[r] # reg.life[r] /\ reg'.life[r] # "up"
        BY <1>1, <2>2, <3>0, <3>2 DEF Alive
      <4>2. CASE notices' = Listeners(r)
        <5>1. <<"push", r, 0>> \in Listeners(r)
          BY <4>1 DEF Listeners
        <5> QED
          BY <4>2, <5>1
      <4>3. CASE reg.life[r] = "connecting" /\ reg'.promise[r] = "failed"
        <5>1. reg.promise[r] = "pending"
          BY <4>3 DEF LifeInv, LivesMatch
        <5> QED
          BY <2>2, <4>1, <4>3, <5>1 DEF Sound, JobsOK
      <4> QED
        BY <1>1, <4>1, <4>2, <4>3
    <3> QED
      BY <3>1, <3>2
  <2> QED
    BY <1>3, <2>1, <2>2 DEF AwakeOK, Own
<1> QED
  BY <1>4, <1>5, <1>6, <1>8, <1>9 DEF Sound

-----------------------------------------------------------------------------
(* The push supervisor                                                     *)

LateOf(jobs) == {j \in jobs : j.at = "connect" /\ ~j.fresh}

LEMMA LateIs == Late = LateOf(pushJobs) /\ Late' = LateOf(pushJobs')
BY DEF Late, LateOf

\* Entries and retries do not depend on the supervisor.
LEMMA DetachedStands ==
    ASSUME TypeInv, Sound, TypeInv', Goes(reg, reg'), UNCHANGED ws
    PROVE  DetachedOK'
<1>1. \A e \in Entries : ent'[e].rt \in 0 .. MaxRuntimes
  BY DEF TypeInv, EntriesOK, Ents
<1>2. \A e \in Entries : ent'[e].rt # 0 /\ ~ent'[e].attached => Terminated(reg, ent'[e].rt)
  BY DEF Sound, DetachedOK, ws
<1>3. retries' \subseteq [ent : Entries, rt : Runtimes, first : Sockets]
  BY DEF TypeInv, SocketsOK
<1>4. \A j \in retries' : ent'[j.ent].timer => Settled(j.rt)
  BY DEF Sound, DetachedOK, ws
<1> QED
  BY <1>1, <1>2, <1>3, <1>4, DetachedGoes

LEMMA JobsAre ==
    ASSUME TypeInv
    PROVE  /\ pushJobs \subseteq Jobs /\ IsFiniteSet(pushJobs)
           /\ \A j \in pushJobs : j.rt \in Runtimes /\ j.rt # 0
           /\ push.rt # 0 => push.rt \in Runtimes
BY RuntimesAre DEF TypeInv, PushOK, Jobs

\* A map that keeps runtimes and sends no two jobs to one keeps every count.
LEMMA MappedOnce ==
    ASSUME NEW S, IsFiniteSet(S), NEW T, NEW f \in Surjection(S, T), Cardinality(T) = Cardinality(S),
           NEW A \in SUBSET S, NEW B, B = {f[x] : x \in A}, \A x \in S : f[x].rt = x.rt, NEW q
    PROVE  Cardinality(Of(B, q)) = Cardinality(Of(A, q))
<1>1. f \in [S -> T] /\ \A x, y \in S : f[x] = f[y] => x = y
  <2>1. f \in Injection(S, T)
    BY FS_SurjSameCardinalityImpliesInj
  <2> QED
    BY <2>1, Fun_InjectionProperties
<1> DEFINE C == Of(A, q)
           D == Of(B, q)
           g == [x \in C |-> f[x]]
<1>2. IsFiniteSet(C)
  BY FS_Subset DEF Of
<1>3. g \in [C -> D] /\ (\A x, y \in C : g[x] = g[y] => x = y) /\ \A y \in D : \E x \in C : g[x] = y
  <2>1. \A x \in C : x \in S /\ x \in A /\ x.rt = q /\ f[x].rt = q /\ f[x] \in B /\ g[x] = f[x]
    BY DEF Of
  <2>2. \A x \in C : g[x] \in D
    BY <2>1 DEF Of
  <2>3. \A y \in D : \E x \in A : y = f[x] /\ y.rt = q
    BY DEF Of
  <2>4. ASSUME NEW y \in D PROVE \E x \in C : g[x] = y
    <3>1. PICK x \in A : y = f[x] /\ y.rt = q
      BY <2>3
    <3>2. x.rt = q
      BY <3>1
    <3>3. x \in C
      BY <3>2 DEF Of
    <3> QED
      BY <2>1, <3>1, <3>3
  <2>5. \A x, y \in C : g[x] = g[y] => x = y
    BY <1>1, <2>1
  <2>6. g \in [C -> D]
    BY <2>2
  <2> QED
    BY <2>4, <2>5, <2>6
<1> HIDE DEF C, D, g
<1>4. g \in Bijection(C, D)
  BY <1>3, Fun_IsBij
<1>5. Cardinality(D) = Cardinality(C)
  BY <1>2, <1>4, FS_Bijection DEF ExistsBijection
<1> QED
  BY <1>5 DEF C, D

\* connectEntry, in the registry g, once no job counts.
LEMMA ConnectingKeepsSound ==
    ASSUME TypeInv, LifeInv, Sound, TypeInv', LifeInv', Quiet,
           NEW g, RegistryOK(g), LivesMatch(g), Goes(reg, g), NEW jobs, PushConnects(g, jobs),
           UNCHANGED <<ws, strays, lent, notices>>,
           \A s \in Runtimes : HeldBy(g, s, Held(s) - PushHas(s)),
           \A j \in jobs : ~Own(j) /\ j.rt \in Runtimes,
           \A q \in Runtimes : Cardinality(Of(LateOf(jobs), q)) = LateHave(q),
           \A j \in jobs : Waits(j) => \E i \in pushJobs : Waits(i) /\ i.rt = j.rt,
           \A j \in jobs : j.at # "connect" => Terminated(reg, j.rt)
    PROVE  Sound'
<1> DEFINE k == [at |-> "connect", rt |-> reg'.current, own |-> TRUE, fresh |-> TRUE]
<1>1. /\ CanAcquire(g) /\ reg' = AcquireConnected(g) /\ pushJobs' = jobs \cup {k}
      /\ push' = [is |-> "on", rt |-> reg'.current, timer |-> FALSE] /\ strays' = strays
  BY DEF PushConnects
<1>2. /\ Goes(g, reg') /\ reg'.current \in Runtimes /\ Alive(reg', reg'.current)
      /\ reg'.promise[reg'.current] \in {"pending", "ok"}
  BY <1>1, AcquiredGoes
<1>3. Goes(reg, reg')
  BY <1>2, GoesOnAndOn
<1>4. PICK c \in Runtimes : c = reg'.current
  BY <1>2
<1>5. k.at = "connect" /\ k.fresh /\ k.own /\ k.rt = c /\ push'.rt = c
  BY <1>1, <1>4
<1> HIDE DEF k
<1>6. CountsOK'
  <2>1. ASSUME NEW q \in Runtimes PROVE HeldBy(reg', q, Held(q)')
    <3>1. /\ PushHas(q) \in {0, 1} /\ LateHave(q) \in Nat /\ strays[q] \in Nat /\ SupervisorHas(q) \in Nat
          /\ Held(q) \in Nat
      BY NumbersNow
    <3>2. LateHave(q)' = LateHave(q)
      <4>1. LateOf(pushJobs') = LateOf(jobs)
        BY <1>1, <1>5 DEF LateOf
      <4> QED
        BY <4>1, LateIs DEF LateHave
    <3>3. HeldBy(reg', q, IF q = c THEN (Held(q) - PushHas(q)) + 1 ELSE Held(q) - PushHas(q))
      BY <1>1, <1>4, AcquireCounts DEF AcquireConnected
    <3>4. CASE q = c
      <4>1. PushHas(q)' = 1
        BY <1>5, <3>4 DEF PushHas
      <4>2. PICK d \in Int : d = 1 - PushHas(q)
        BY <3>1
      <4>3. SupervisorHas(q)' = SupervisorHas(q) + d
        BY <1>1, <3>1, <3>2, <4>1, <4>2 DEF SupervisorHas
      <4>4. Held(q)' = Held(q) + d
        BY <4>3, SupervisorMoves
      <4>5. Held(q)' = (Held(q) - PushHas(q)) + 1
        BY <3>1, <4>2, <4>4
      <4> QED
        BY <3>3, <3>4, <4>5
    <3>5. CASE q # c
      <4>1. PushHas(q)' = 0
        BY <1>5, <3>5 DEF PushHas
      <4>2. PICK d \in Int : d = 0 - PushHas(q)
        BY <3>1
      <4>3. SupervisorHas(q)' = SupervisorHas(q) + d
        BY <1>1, <3>1, <3>2, <4>1, <4>2 DEF SupervisorHas
      <4>4. Held(q)' = Held(q) + d
        BY <4>3, SupervisorMoves
      <4>5. Held(q)' = Held(q) - PushHas(q)
        BY <3>1, <4>2, <4>4
      <4> QED
        BY <3>3, <3>5, <4>5
    <3> QED
      BY <3>4, <3>5
  <2> QED
    BY <2>1 DEF CountsOK
<1>7. DetachedOK'
  BY <1>3, DetachedStands
<1>8. AwaitedOK'
  <2>1. \A r \in Runtimes : Awaits(r)' =>
            Awaits(r) \/ (reg'.promise[r] \in {"pending", "ok"} /\ Alive(reg', r))
    <3>1. \A j \in pushJobs' : Waits(j) => (\E i \in pushJobs : Waits(i) /\ i.rt = j.rt) \/ j.rt = c
      BY <1>1, <1>5
    <3> QED
      BY <1>2, <1>4, <3>1 DEF Awaits, Waits, ws
  <2> QED
    BY <1>3, <2>1, AwaitedAcquires DEF Sound
<1>9. JobsOK'
  <2>1. \A j \in pushJobs' : Own(j) => j.rt = push'.rt
    BY <1>1, <1>5
  <2>2. \A j \in pushJobs' : j.at # "connect" => Terminated(reg', j.rt)
    BY <1>1, <1>3, <1>5 DEF Goes
  <2>3. reg'.promise[push'.rt] # "none"
    BY <1>2, <1>4, <1>5
  <2>4. k \in pushJobs' /\ Own(k) /\ k.rt = push'.rt
    BY <1>1, <1>5 DEF Own
  <2> QED
    BY <2>1, <2>2, <2>3, <2>4 DEF JobsOK, Own
<1>10. AwakeOK'
  <2>1. push'.rt # 0 /\ Alive(reg', push'.rt)
    BY <1>2, <1>4, <1>5, RuntimesAre
  <2> QED
    BY <2>1 DEF AwakeOK
<1> QED
  BY <1>6, <1>7, <1>8, <1>9, <1>10 DEF Sound

LEMMA TornDownCounts ==
    ASSUME TypeInv, LifeInv, CountsOK, NEW s \in Runtimes
    PROVE  HeldBy(TornDown, s, Held(s) - PushHas(s))
<1>1. RegistryOK(reg) /\ LivesMatch(reg) /\ HeldBy(reg, s, Held(s)) /\ Held(s) \in Nat
  BY NumbersNow DEF TypeInv, LifeInv, CountsOK
<1>2. CASE push.rt = 0
  <2>1. TornDown = reg /\ PushHas(s) = 0 /\ Held(s) - 0 = Held(s)
    BY <1>1, <1>2, RuntimesAre DEF TornDown, PushHas
  <2> QED
    BY <1>1, <2>1
<1>3. CASE push.rt # 0
  <2>1. PICK r \in Runtimes : r = push.rt
    BY <1>3, JobsAre
  <2>2. TornDown = Release(reg, r)
    BY <1>3, <2>1 DEF TornDown
  <2>3. CASE s = r
    <3>1. PushHas(s) = 1
      BY <2>1, <2>3 DEF PushHas
    <3>2. Held(s) # 0
      <4>1. ServerHas(s) \in Nat /\ LateHave(s) \in Nat /\ strays[s] \in Nat /\ LoansHave(s) \in Nat
        BY NumbersNow
      <4> QED
        BY <3>1, <4>1 DEF Held, SupervisorHas
    <3>3. HeldBy(Release(reg, r), s, Held(s) - 1)
      BY <1>1, <2>3, <3>2, ReleaseCounts
    <3> QED
      BY <2>2, <3>1, <3>3
  <2>4. CASE s # r
    <3>1. PushHas(s) = 0 /\ Held(s) - 0 = Held(s)
      BY <1>1, <2>1, <2>4 DEF PushHas
    <3>2. HeldBy(Release(reg, r), s, Held(s))
      BY <1>1, <2>4, ReleaseCounts
    <3> QED
      BY <2>2, <3>1, <3>2
  <2> QED
    BY <2>3, <2>4
<1> QED
  BY <1>2, <1>3

\* Jobs that are disowned: the late ones are still late, none is the entry's own.
LEMMA DisownedAre ==
    ASSUME TypeInv, OneOfAKind(Disowned, pushJobs)
    PROVE  /\ \A q \in Runtimes : Cardinality(Of(LateOf(Disowned), q)) = LateHave(q)
           /\ \A j \in Disowned : ~Own(j) /\ ~j.own /\ j.rt \in Runtimes
           /\ \A j \in Disowned : \E i \in pushJobs : /\ i.rt = j.rt /\ i.at = j.at
                                                      /\ Waits(j) => Waits(i)
<1>0. pushJobs \subseteq Jobs /\ IsFiniteSet(pushJobs)
  BY JobsAre
<1> DEFINE D(j) == [j EXCEPT !.own = FALSE]
           f == [j \in pushJobs |-> D(j)]
<1>1. \A j \in Jobs : /\ D(j).rt = j.rt /\ D(j).at = j.at /\ D(j).fresh = j.fresh /\ ~D(j).own
                      /\ j.rt \in Runtimes
  BY DEF Jobs
<1>2. Disowned = {D(j) : j \in pushJobs}
  BY DEF Disowned
<1>3. f \in Surjection(pushJobs, Disowned) /\ \A x \in pushJobs : f[x] = D(x)
  BY <1>2 DEF Surjection
<1> HIDE DEF D, f
<1>4. LateOf(Disowned) = {f[x] : x \in Late}
  BY <1>0, <1>1, <1>2, <1>3 DEF LateOf, Late
<1>5. \A q \in Runtimes : Cardinality(Of(LateOf(Disowned), q)) = LateHave(q)
  <2>1. Late \in SUBSET pushJobs /\ \A x \in pushJobs : f[x].rt = x.rt
    BY <1>0, <1>1, <1>3 DEF Late
  <2>2. Cardinality(Disowned) = Cardinality(pushJobs)
    BY DEF OneOfAKind
  <2>3. \A q \in Runtimes : Cardinality(Of(LateOf(Disowned), q)) = Cardinality(Of(Late, q))
    BY <1>0, <1>3, <1>4, <2>1, <2>2, MappedOnce
  <2> QED
    BY <2>3 DEF LateHave
<1>6. \A j \in Disowned : ~Own(j) /\ ~j.own /\ j.rt \in Runtimes
  BY <1>0, <1>1, <1>2 DEF Own
<1>7. ASSUME NEW j \in Disowned
      PROVE  \E i \in pushJobs : i.rt = j.rt /\ i.at = j.at /\ (Waits(j) => Waits(i))
  <2>1. PICK i \in pushJobs : j = D(i)
    BY <1>2
  <2> QED
    BY <1>0, <1>1, <2>1 DEF Waits
<1> QED
  BY <1>5, <1>6, <1>7

LEMMA PushStartsKeepSound ==
    ASSUME TypeInv, LifeInv, Sound, TypeInv', LifeInv', PushUpsert \/ PushTimerFires \/ PushReconnect
    PROVE  Sound'
<1>0. /\ RegistryOK(reg) /\ LivesMatch(reg) /\ Goes(reg, reg)
      /\ Quiet /\ UNCHANGED <<ws, strays, lent, notices>>
  BY DEF TypeInv, LifeInv, PushUpsert, PushTimerFires, PushReconnect, Goes
<1>1. CASE PushUpsert \/ PushTimerFires
  <2>1. PushConnects(reg, pushJobs) /\ push.rt = 0 /\ \A j \in pushJobs : ~Own(j)
    BY <1>1 DEF PushUpsert, PushTimerFires, TypeInv, PushOK, Own
  <2>2. \A s \in Runtimes : HeldBy(reg, s, Held(s) - PushHas(s))
    <3>1. TornDown = reg
      BY <2>1 DEF TornDown
    <3> QED
      BY <3>1, TornDownCounts DEF Sound
  <2>3. \A j \in pushJobs : ~Own(j) /\ j.rt \in Runtimes
    BY <2>1, JobsAre
  <2>4. \A q \in Runtimes : Cardinality(Of(LateOf(pushJobs), q)) = LateHave(q)
    BY LateIs DEF LateHave
  <2>5. \A j \in pushJobs : j.at # "connect" => Terminated(reg, j.rt)
    BY DEF Sound, JobsOK
  <2>6. \A j \in pushJobs : Waits(j) => \E i \in pushJobs : Waits(i) /\ i.rt = j.rt
    OBVIOUS
  <2> QED
    BY <1>0, <2>1, <2>2, <2>3, <2>4, <2>5, <2>6, ConnectingKeepsSound
<1>2. CASE PushReconnect
  <2>1. PushConnects(TornDown, Disowned) /\ OneOfAKind(Disowned, pushJobs)
    BY <1>2 DEF PushReconnect
  <2>2. RegistryOK(TornDown) /\ LivesMatch(TornDown) /\ Goes(reg, TornDown)
    BY TornDownFades DEF Fades
  <2>3. \A s \in Runtimes : HeldBy(TornDown, s, Held(s) - PushHas(s))
    BY TornDownCounts DEF Sound
  <2>4. /\ \A q \in Runtimes : Cardinality(Of(LateOf(Disowned), q)) = LateHave(q)
        /\ \A j \in Disowned : ~Own(j) /\ ~j.own /\ j.rt \in Runtimes
        /\ \A j \in Disowned : \E i \in pushJobs : /\ i.rt = j.rt /\ i.at = j.at
                                                   /\ Waits(j) => Waits(i)
    BY <2>1, DisownedAre
  <2>5. \A j \in Disowned : ~Own(j) /\ j.rt \in Runtimes
    BY <2>4
  <2>6. \A j \in Disowned : j.at # "connect" => Terminated(reg, j.rt)
    BY <2>4 DEF Sound, JobsOK
  <2>7. \A j \in Disowned : Waits(j) => \E i \in pushJobs : Waits(i) /\ i.rt = j.rt
    BY <2>4
  <2> HIDE DEF Sound
  <2> QED
    BY <1>0, <2>1, <2>2, <2>3, <2>4, <2>5, <2>6, <2>7, ConnectingKeepsSound
<1> QED
  BY <1>1, <1>2

LEMMA PushRemoveKeepsSound ==
    ASSUME TypeInv, LifeInv, Sound, TypeInv', LifeInv', PushRemove
    PROVE  Sound'
<1>0. /\ reg' = TornDown /\ pushJobs' = Disowned /\ OneOfAKind(Disowned, pushJobs)
      /\ push' = [is |-> "gone", rt |-> 0, timer |-> FALSE]
      /\ UNCHANGED <<ws, strays, lent, notices>>
  BY DEF PushRemove
<1>1. Fades(reg, reg') /\ Goes(reg, reg')
  BY <1>0, TornDownFades DEF Fades
<1>2. /\ \A q \in Runtimes : Cardinality(Of(LateOf(Disowned), q)) = LateHave(q)
      /\ \A j \in Disowned : ~Own(j) /\ ~j.own /\ j.rt \in Runtimes
      /\ \A j \in Disowned : \E i \in pushJobs : /\ i.rt = j.rt /\ i.at = j.at
                                                 /\ Waits(j) => Waits(i)
  BY <1>0, DisownedAre
<1>3. CountsOK'
  <2>1. ASSUME NEW q \in Runtimes PROVE HeldBy(reg', q, Held(q)')
    <3>1. /\ PushHas(q) \in {0, 1} /\ LateHave(q) \in Nat /\ strays[q] \in Nat /\ SupervisorHas(q) \in Nat
          /\ Held(q) \in Nat
      BY NumbersNow
    <3>2. LateHave(q)' = LateHave(q)
      BY <1>0, <1>2, LateIs DEF LateHave
    <3>3. PushHas(q)' = 0
      BY <1>0, RuntimesAre DEF PushHas
    <3>4. PICK d \in Int : d = 0 - PushHas(q)
      BY <3>1
    <3>5. SupervisorHas(q)' = SupervisorHas(q) + d
      BY <1>0, <3>1, <3>2, <3>3, <3>4 DEF SupervisorHas
    <3>6. Held(q)' = Held(q) + d
      BY <1>0, <3>5, SupervisorMoves
    <3>7. Held(q)' = Held(q) - PushHas(q)
      BY <3>1, <3>4, <3>6
    <3>8. HeldBy(reg', q, Held(q) - PushHas(q))
      BY <1>0, TornDownCounts DEF Sound
    <3> QED
      BY <3>7, <3>8
  <2> QED
    BY <2>1 DEF CountsOK
<1>4. DetachedOK'
  BY <1>0, <1>1, DetachedStands
<1>5. AwaitedOK'
  <2>1. \A r \in Runtimes : Awaits(r)' => Awaits(r)
    <3>1. \A j \in pushJobs' : Waits(j) => \E i \in pushJobs : Waits(i) /\ i.rt = j.rt
      BY <1>0, <1>2
    <3> QED
      BY <1>0, <3>1 DEF Awaits, Waits, ws
  <2> QED
    BY <1>1, <2>1, AwaitedFades DEF Sound
<1>6. JobsOK'
  <2>1. \A j \in pushJobs' : ~Own(j) /\ (j.at # "connect" => Terminated(reg', j.rt))
    BY <1>0, <1>1, <1>2 DEF Sound, JobsOK, Goes
  <2> QED
    BY <1>0, <2>1 DEF JobsOK, Own
<1>7. AwakeOK'
  BY <1>0 DEF AwakeOK
<1> QED
  BY <1>3, <1>4, <1>5, <1>6, <1>7 DEF Sound

LEMMA PushHearingKeepsSound ==
    ASSUME TypeInv, LifeInv, Sound, TypeInv', LifeInv', PushHearsEnd
    PROVE  Sound'
<1>1. PICK n \in notices :
        /\ n[1] = "push"
        /\ pushJobs' = pushJobs \cup {[at |-> "closed", rt |-> n[2], own |-> TRUE, fresh |-> TRUE]}
        /\ UNCHANGED <<reg, ws, push, strays, silenced, lent>>
  BY DEF PushHearsEnd
<1>2. n[2] = push.rt /\ push.rt # 0 /\ NoneAlive(reg) /\ LivesMatch(reg)
  BY <1>1 DEF TypeInv, NoticesOK, LifeInv
<1>3. PICK r \in Runtimes : r = push.rt
  BY <1>2, JobsAre
<1> DEFINE k == [at |-> "closed", rt |-> n[2], own |-> TRUE, fresh |-> TRUE]
<1>4. pushJobs' = pushJobs \cup {k} /\ k.at = "closed" /\ k.at # "connect" /\ k.rt = r /\ k.own
  BY <1>1, <1>2, <1>3
<1> HIDE DEF k
<1>5. Fades(reg, reg') /\ Goes(reg, reg')
  BY <1>1, <1>2, SameFades DEF Fades
<1>6. CountsOK'
  <2>1. Late' = Late
    BY <1>4 DEF Late
  <2>2. \A q \in Runtimes : SupervisorHas(q)' = SupervisorHas(q) + 0
    <3>1. ASSUME NEW q \in Runtimes PROVE SupervisorHas(q)' = SupervisorHas(q) + 0
      <4>1. SupervisorHas(q)' = SupervisorHas(q)
        BY <1>1, <2>1 DEF SupervisorHas, PushHas, LateHave
      <4>2. SupervisorHas(q) \in Nat
        BY NumbersNow
      <4> QED
        BY <4>1, <4>2
    <3> QED
      BY <3>1
  <2>3. \A q \in Runtimes : Held(q)' = Held(q) + 0 /\ Held(q) \in Nat
    BY <1>1, <2>2, SupervisorMoves, NumbersNow
  <2>4. \A q \in Runtimes : Held(q)' = Held(q)
    BY <2>3
  <2> QED
    BY <1>1, <2>4, NothingMoves DEF Sound
<1>7. DetachedOK'
  BY <1>1, <1>5, DetachedStands
<1>8. AwaitedOK'
  <2>1. \A q \in Runtimes : Awaits(q)' => Awaits(q)
    BY <1>1, <1>4 DEF Awaits, Waits, ws
  <2> QED
    BY <1>5, <2>1, AwaitedFades DEF Sound
<1>9. JobsOK'
  <2>1. Terminated(reg', k.rt)
    <3>1. Held(r) # 0
      <4>1. PushHas(r) = 1
        BY <1>3 DEF PushHas
      <4>2. ServerHas(r) \in Nat /\ LateHave(r) \in Nat /\ strays[r] \in Nat /\ LoansHave(r) \in Nat
        BY NumbersNow
      <4> QED
        BY <4>1, <4>2 DEF Held, SupervisorHas
    <3>2. reg.life[r] = "lost"
      BY <1>2, <3>1, HeldIsLost DEF Sound
    <3> QED
      BY <1>1, <1>4, <3>2 DEF Terminated
  <2>2. /\ \A j \in pushJobs : Own(j) => j.rt = push.rt \/ (Settled(j.rt) /\ strays[j.rt] # 0)
        /\ \A j \in pushJobs : j.at # "connect" => Terminated(reg, j.rt)
        /\ push.rt # 0 => reg.promise[push.rt] # "none"
        /\ push.rt # 0 /\ reg.promise[push.rt] = "pending" => \E j \in pushJobs : Own(j) /\ j.rt = push.rt
    BY DEF Sound, JobsOK
  <2>3. /\ \A j \in pushJobs' : Own(j) => j.rt = push.rt \/ (Settled(j.rt) /\ strays[j.rt] # 0)
        /\ \A j \in pushJobs' : j.at # "connect" => Terminated(reg, j.rt)
        /\ push.rt # 0 /\ reg.promise[push.rt] = "pending" => \E j \in pushJobs' : Own(j) /\ j.rt = push.rt
    BY <1>1, <1>4, <2>1, <2>2 DEF Own
  <2> QED
    BY <1>1, <2>2, <2>3 DEF JobsOK, Own, Settled
<1>10. AwakeOK'
  <2>1. k \in pushJobs' /\ k.own /\ k.at # "connect"
    BY <1>4
  <2> QED
    BY <1>1, <1>2, <2>1 DEF AwakeOK
<1> QED
  BY <1>6, <1>7, <1>8, <1>9, <1>10 DEF Sound

\* connect() has come back: what the job finds, and what becomes of the others.
LEMMA SettlingIs ==
    ASSUME TypeInv, LifeInv, Sound, NEW j \in pushJobs, PushConnectSettles(j)
    PROVE  /\ j \in Jobs /\ j.at = "connect" /\ Settled(j.rt) /\ UNCHANGED <<ws, lent, notices>>
           /\ j.own /\ j.fresh =>
                 /\ reg' = reg /\ push' = push
                 /\ reg.promise[j.rt] = "failed" =>
                       pushJobs' = (pushJobs \ {j}) \cup {[j EXCEPT !.at = "failed"]}
                 /\ reg.promise[j.rt] # "failed" => pushJobs' = pushJobs \ {j}
           /\ ~(j.own /\ j.fresh) =>
                 /\ pushJobs' = pushJobs \ {j}
                 /\ reg.promise[j.rt] = "failed" => reg' = reg /\ push' = push
                 /\ reg.promise[j.rt] # "failed" =>
                       /\ reg' = Release(reg, j.rt)
                       /\ j.own => push' = [push EXCEPT !.rt = 0]
                       /\ ~j.own => push' = push
                       /\ j.fresh /\ "stolen" \notin slips' => ~Alive(reg, j.rt)
           /\ push' = push => strays' = strays
           /\ push'.rt = push.rt => push' = push
           /\ push'.rt # push.rt => /\ j.own /\ ~j.fresh /\ reg.promise[j.rt] = "ok"
                                    /\ push'.rt = 0 /\ push.rt \in Runtimes
                                    /\ strays' = [strays EXCEPT ![push.rt] = @ + 1]
           /\ silenced \/ push'.rt # push.rt => silenced'
<1>1. j \in Jobs /\ push \in [is : {"new", "on", "gone"}, rt : 0 .. MaxRuntimes, timer : BOOLEAN]
  BY DEF TypeInv, PushOK
<1>2. j.own \in BOOLEAN /\ j.fresh \in BOOLEAN /\ j.at = "connect"
      /\ reg.promise[j.rt] \in {"ok", "failed"}
  BY <1>1 DEF PushConnectSettles, GoesOn, Settled, Jobs
<1>3. UNCHANGED <<ws, lent, notices>>
  BY DEF PushConnectSettles
<1>4. j.own /\ j.fresh =>
         /\ reg' = reg /\ push' = push /\ strays' = strays
         /\ reg.promise[j.rt] = "failed" =>
               pushJobs' = (pushJobs \ {j}) \cup {[j EXCEPT !.at = "failed"]}
         /\ reg.promise[j.rt] # "failed" => pushJobs' = pushJobs \ {j}
  BY <1>2 DEF PushConnectSettles
<1>5. ~(j.own /\ j.fresh) =>
         /\ pushJobs' = pushJobs \ {j}
         /\ reg.promise[j.rt] = "failed" => reg' = reg /\ push' = push /\ strays' = strays
         /\ reg.promise[j.rt] # "failed" =>
               /\ reg' = Release(reg, j.rt)
               /\ j.own => /\ push' = [push EXCEPT !.rt = 0]
                           /\ push.rt # 0 => strays' = [strays EXCEPT ![push.rt] = @ + 1]
                           /\ push.rt = 0 => strays' = strays
               /\ ~j.own => push' = push /\ strays' = strays
               /\ j.fresh /\ "stolen" \notin slips' => ~Alive(reg, j.rt)
  BY <1>2 DEF PushConnectSettles
<1>6. push.rt # 0 => push.rt \in Runtimes
  BY JobsAre
<1>7. push' = push \/ push' = [push EXCEPT !.rt = 0]
  BY <1>2, <1>4, <1>5
<1>8. push.rt = 0 => push' = push
  BY <1>1, <1>7
<1>9. push' = [push EXCEPT !.rt = 0] => push'.rt = 0
  BY <1>1
<1>10. silenced \/ push'.rt # push.rt => silenced'
  <2>1. silenced \/ (~(j.own /\ j.fresh) /\ reg.promise[j.rt] = "ok" /\ j.own /\ push.rt # 0) => silenced'
    BY DEF PushConnectSettles
  <2> QED
    BY <1>2, <1>4, <1>5, <1>8, <2>1
<1> QED
  BY <1>1, <1>2, <1>3, <1>4, <1>5, <1>6, <1>7, <1>8, <1>9, <1>10 DEF Settled

\* What the supervisor forgot it still holds; only a late job lets go.
LEMMA SettlingCounts ==
    ASSUME TypeInv, LifeInv, Sound, TypeInv', NEW j \in pushJobs, PushConnectSettles(j), NEW q \in Runtimes
    PROVE  /\ j.fresh \/ j.rt # q => Held(q)' = Held(q)
           /\ ~j.fresh /\ j.rt = q => Held(q) = Held(q)' + 1
<1>1. /\ j \in Jobs /\ j.at = "connect" /\ UNCHANGED <<ws, lent>> /\ j.fresh \in BOOLEAN
      /\ push' = push => strays' = strays
      /\ push'.rt = push.rt => push' = push
      /\ push'.rt # push.rt => /\ push'.rt = 0 /\ push.rt \in Runtimes
                               /\ strays' = [strays EXCEPT ![push.rt] = @ + 1]
  BY SettlingIs DEF Jobs
<1>2. Late' = Late \ {j}
  <2>1. pushJobs' = pushJobs \ {j} \/ pushJobs' = (pushJobs \ {j}) \cup {[j EXCEPT !.at = "failed"]}
    BY SettlingIs
  <2>2. [j EXCEPT !.at = "failed"].at = "failed"
    BY <1>1 DEF Jobs
  <2> QED
    BY <2>1, <2>2 DEF Late
<1>3. /\ PushHas(q) \in {0, 1} /\ LateHave(q) \in Nat /\ strays[q] \in Nat /\ IsFiniteSet(Late)
      /\ SupervisorHas(q) \in Nat /\ Held(q) \in Nat
  BY CountsAreNumbers
<1>4. PushHas(q)' \in {0, 1} /\ LateHave(q)' \in Nat /\ strays'[q] \in Nat /\ Held(q)' \in Nat
  BY NumbersThen
<1>5. PushHas(q)' + strays'[q] = PushHas(q) + strays[q]
  <2>1. CASE push'.rt = push.rt
    BY <1>1, <2>1 DEF PushHas
  <2>2. CASE push'.rt # push.rt /\ push.rt = q
    <3>1. PushHas(q)' = 0 /\ PushHas(q) = 1
      BY <1>1, <2>2, RuntimesAre DEF PushHas
    <3>2. strays'[q] = strays[q] + 1
      BY <1>1, <2>2 DEF TypeInv, PushOK
    <3> QED
      BY <1>3, <3>1, <3>2
  <2>3. CASE push'.rt # push.rt /\ push.rt # q
    <3>1. PushHas(q)' = 0 /\ PushHas(q) = 0
      BY <1>1, <2>3, RuntimesAre DEF PushHas
    <3>2. strays'[q] = strays[q]
      BY <1>1, <2>3 DEF TypeInv, PushOK
    <3> QED
      BY <1>3, <3>1, <3>2
  <2> QED
    BY <2>1, <2>2, <2>3
<1>6. CASE j.fresh \/ j.rt # q
  <2>1. LateHave(q)' = LateHave(q)
    <3>1. CASE j.fresh
      <4>1. Late' = Late
        BY <1>2, <3>1 DEF Late
      <4> QED
        BY <4>1 DEF LateHave
    <3>2. CASE j.rt # q
      <4>1. Of(Late', q) = Of(Late, q)
        BY <1>2, <3>2 DEF Of
      <4> QED
        BY <4>1 DEF LateHave
    <3> QED
      BY <1>6, <3>1, <3>2
  <2>2. SupervisorHas(q)' = SupervisorHas(q) + 0
    BY <1>3, <1>4, <1>5, <2>1 DEF SupervisorHas
  <2>3. Held(q)' = Held(q) + 0
    BY <1>1, <2>2, SupervisorMoves
  <2> QED
    BY <1>3, <1>6, <2>3
<1>7. CASE ~j.fresh /\ j.rt = q
  <2>1. j \in Late
    BY <1>1, <1>7 DEF Late
  <2>2. Cardinality(Of(Late, q)) = Cardinality(Of(Late \ {j}, q)) + 1
    BY <1>3, <1>7, <2>1, OneLess
  <2>3. LateHave(q) = LateHave(q)' + 1
    BY <1>2, <2>2 DEF LateHave
  <2>4. SupervisorHas(q)' = SupervisorHas(q) + (-1)
    BY <1>3, <1>4, <1>5, <2>3 DEF SupervisorHas
  <2>5. Held(q)' = Held(q) + (-1)
    BY <1>1, <2>4, SupervisorMoves
  <2> QED
    BY <1>3, <1>4, <1>7, <2>5
<1> QED
  BY <1>1, <1>6, <1>7

LEMMA PushSettlingKeepsSound ==
    ASSUME TypeInv, LifeInv, Sound, TypeInv', LifeInv', "stolen" \notin slips',
           NEW j \in pushJobs, PushConnectSettles(j)
    PROVE  Sound'
<1>0. /\ j \in Jobs /\ j.at = "connect" /\ Settled(j.rt) /\ UNCHANGED <<ws, lent, notices>>
      /\ j.own \in BOOLEAN /\ j.fresh \in BOOLEAN /\ j.rt \in Runtimes
      /\ reg.promise[j.rt] \in {"ok", "failed"}
  BY SettlingIs DEF Jobs, Settled
<1>1. RegistryOK(reg) /\ LivesMatch(reg)
  BY DEF TypeInv, LifeInv
<1>2. reg' \in {reg, Release(reg, j.rt)}
  BY <1>0, SettlingIs
<1>3. Fades(reg, reg') /\ Goes(reg, reg')
  BY <1>0, <1>1, <1>2, SameFades, ReleaseFades DEF Fades
<1>4. Waits(j) => Awaits(j.rt) /\ Heard(reg, j.rt)
  BY <1>0 DEF Awaits, Sound, AwaitedOK
<1>5. CountsOK'
  <2>1. \A q \in Runtimes : Held(q)' \in Nat /\ Held(q) \in Nat
    BY NumbersNow, NumbersThen
  <2>2. CASE ~j.fresh
    <3>1. /\ \A q \in Runtimes : q # j.rt => Held(q)' = Held(q)
          /\ \A q \in Runtimes : q = j.rt => Held(q) = Held(q)' + 1
      BY <2>2, SettlingCounts
    <3>2. PICK r \in Runtimes : r = j.rt
      BY <1>0
    <3>3. Held(r) = Held(r)' + 1 /\ \A q \in Runtimes : q # r => Held(q)' = Held(q)
      BY <3>1, <3>2
    <3>4. CASE reg.promise[j.rt] = "failed"
      <4>1. NoneAlive(reg)
        BY <1>0, <1>4, <2>2, <3>4 DEF Waits, Heard
      <4>2. ~Alive(reg, r)
        BY <4>1 DEF NoneAlive
      <4>3. reg' \in {reg, Release(reg, r)}
        BY <1>2, <3>2
      <4>4. Held(r)' <= Held(r)
        BY <2>1, <3>3
      <4> QED
        BY <2>1, <3>3, <4>2, <4>3, <4>4, DeadLetGo DEF Sound
    <3>5. CASE reg.promise[j.rt] # "failed"
      <4>1. reg' = Release(reg, r)
        BY <2>2, <3>2, <3>5, SettlingIs
      <4> QED
        BY <2>1, <3>3, <4>1, OneLetsGo DEF Sound
    <3> QED
      BY <3>4, <3>5
  <2>3. CASE j.fresh
    <3>1. \A q \in Runtimes : Held(q)' = Held(q)
      BY <2>3, SettlingCounts
    <3>2. CASE reg' = reg
      BY <3>1, <3>2, NothingMoves DEF Sound
    <3>3. CASE reg' # reg
      <4>1. ~Alive(reg, j.rt)
        BY <1>0, <2>3, <3>3, SettlingIs
      <4>2. PICK r \in Runtimes : r = j.rt
        BY <1>0
      <4>3. Held(r)' <= Held(r) /\ (\A q \in Runtimes : q # r => Held(q)' = Held(q))
        BY <2>1, <3>1
      <4>4. ~Alive(reg, r) /\ reg' \in {reg, Release(reg, r)}
        BY <1>2, <4>1, <4>2
      <4> QED
        BY <2>1, <4>3, <4>4, DeadLetGo DEF Sound
    <3> QED
      BY <3>2, <3>3
  <2> QED
    BY <1>0, <2>2, <2>3
<1>6. DetachedOK'
  BY <1>0, <1>3, DetachedStands
<1> DEFINE k == [j EXCEPT !.at = "failed"]
<1>7. /\ k.at = "failed" /\ k.at # "connect" /\ k.rt = j.rt /\ k.own = j.own
      /\ \A i \in pushJobs' : i \in pushJobs \ {j} \/ (i = k /\ j.own /\ j.fresh /\ reg.promise[j.rt] = "failed")
      /\ \A i \in pushJobs : i # j => i \in pushJobs'
      /\ j.own /\ j.fresh /\ reg.promise[j.rt] = "failed" => k \in pushJobs'
  BY <1>0, SettlingIs DEF Jobs
<1> HIDE DEF k
<1>8. AwaitedOK'
  <2>1. \A q \in Runtimes : Awaits(q)' => Awaits(q)
    BY <1>0, <1>7 DEF Awaits, Waits, ws
  <2> QED
    BY <1>3, <2>1, AwaitedFades DEF Sound
<1>9. /\ push' = push => strays' = strays
      /\ push'.rt = push.rt => push' = push
      /\ push'.rt # push.rt => /\ j.own /\ ~j.fresh /\ reg.promise[j.rt] = "ok"
                               /\ push'.rt = 0 /\ push.rt \in Runtimes
                               /\ strays' = [strays EXCEPT ![push.rt] = @ + 1]
      /\ silenced \/ push'.rt # push.rt => silenced'
  BY SettlingIs
<1>10. (\A q \in Runtimes : strays[q] # 0 => strays'[q] # 0) /\ (push'.rt # push.rt => strays'[push.rt] # 0)
  BY <1>9 DEF TypeInv, PushOK
<1>11. \A q \in Runtimes : /\ Settled(q) => Settled(q)'
                           /\ Terminated(reg, q) => Terminated(reg', q)
                           /\ reg.promise[q] # "none" => reg'.promise[q] = reg.promise[q]
                           /\ reg'.promise[q] # reg.promise[q] => reg.promise[q] = "none"
  BY <1>3 DEF Settled, Goes
<1>12. JobsOK'
  <2>1. ASSUME NEW i \in pushJobs', Own(i)
        PROVE  i.rt = push'.rt \/ (Settled(i.rt)' /\ strays'[i.rt] # 0)
    <3>1. i \in pushJobs /\ i.rt \in Runtimes
      BY <1>7, <2>1, JobsAre DEF Own
    <3>2. CASE Settled(i.rt) /\ strays[i.rt] # 0
      BY <1>10, <1>11, <3>1, <3>2
    <3>3. CASE i.rt = push.rt /\ push'.rt # push.rt
      <4>1. Waits(i) /\ Awaits(i.rt)
        BY <2>1, <3>1 DEF Own, Waits, Awaits
      <4>2. reg.promise[i.rt] # "none"
        BY <3>1, <4>1 DEF Sound, AwaitedOK, Heard
      <4>3. reg.life[i.rt] # "connecting"
        BY <1>4, <1>9, <1>0, <3>1, <3>3 DEF Heard, Waits
      <4>4. reg.life[i.rt] \notin {"unmade", "shut"}
        BY <1>1, <3>1, <4>1, AwaitedIsHeld, HeldIsMade DEF Sound, CountsOK
      <4>5. reg.promise[i.rt] \in {"ok", "failed"}
        BY <1>1, <3>1, <4>2, <4>3, <4>4 DEF LivesMatch, RegistryOK, Registries, Lives, Promises
      <4> QED
        BY <1>10, <1>11, <3>1, <3>3, <4>5 DEF Settled
    <3> QED
      BY <2>1, <3>1, <3>2, <3>3 DEF Sound, JobsOK
  <2>2. ASSUME NEW i \in pushJobs', i.at # "connect" PROVE Terminated(reg', i.rt)
    <3>1. CASE i \in pushJobs
      BY <1>11, <2>2, <3>1, JobsAre DEF Sound, JobsOK
    <3>2. CASE i \notin pushJobs
      <4>1. i = k /\ j.own /\ j.fresh /\ reg.promise[j.rt] = "failed"
        BY <1>7, <3>2
      <4>2. Awaits(j.rt) /\ NoneAlive(reg)
        BY <1>0, <1>4, <4>1 DEF Waits, Heard
      <4>3. reg.life[j.rt] = "lost"
        BY <1>0, <4>2, AwaitedIsLost DEF Sound
      <4> QED
        BY <1>0, <1>7, <1>11, <4>1, <4>3 DEF Terminated
    <3> QED
      BY <3>1, <3>2
  <2>3. ASSUME push'.rt # 0
        PROVE  /\ reg'.promise[push'.rt] # "none"
               /\ reg'.promise[push'.rt] = "pending" => \E i \in pushJobs' : Own(i) /\ i.rt = push'.rt
    <3>1. push' = push /\ push.rt \in Runtimes
      BY <1>9, <2>3, JobsAre
    <3>2. reg.promise[push.rt] # "none"
      BY <2>3, <3>1 DEF Sound, JobsOK
    <3>3. reg'.promise[push.rt] = reg.promise[push.rt]
      BY <1>11, <3>1, <3>2
    <3>4. ASSUME reg.promise[push.rt] = "pending" PROVE \E i \in pushJobs' : Own(i) /\ i.rt = push.rt
      <4>1. PICK i \in pushJobs : Own(i) /\ i.rt = push.rt
        BY <2>3, <3>1, <3>4 DEF Sound, JobsOK
      <4>2. i # j
        BY <1>0, <3>4, <4>1
      <4> QED
        BY <1>7, <4>1, <4>2
    <3> QED
      BY <3>1, <3>2, <3>3, <3>4
  <2> QED
    BY <2>1, <2>2, <2>3 DEF JobsOK, Own
<1>13. AwakeOK'
  <2>1. ASSUME push'.is = "on", push'.rt = 0
        PROVE  push'.timer \/ silenced'
    <3>1. CASE push'.rt = push.rt
      BY <1>9, <1>10, <2>1, <3>1 DEF Sound, AwakeOK
    <3>2. CASE push'.rt # push.rt
      BY <1>9, <1>10, <3>2
    <3> QED
      BY <3>1, <3>2
  <2>2. ASSUME push'.rt # 0, ~Alive(reg', push'.rt)
        PROVE  \/ \E n \in notices' : n[1] = "push"
               \/ \E i \in pushJobs' : i.own /\ i.at # "connect"
               \/ reg'.promise[push'.rt] = "failed" /\ \E i \in pushJobs' : Own(i) /\ i.rt = push'.rt
    <3>1. push' = push /\ push.rt \in Runtimes
      BY <1>9, <2>2, JobsAre
    <3>2. ~Alive(reg, push.rt)
      BY <1>3, <1>5, <2>2, <3>1, HolderStands
    <3>3. CASE \E n \in notices : n[1] = "push"
      BY <1>0, <3>3
    <3>4. CASE \E i \in pushJobs : i.own /\ i.at # "connect"
      BY <1>0, <1>7, <3>4
    <3>5. CASE reg.promise[push.rt] = "failed" /\ \E i \in pushJobs : Own(i) /\ i.rt = push.rt
      <4>1. PICK i \in pushJobs : Own(i) /\ i.rt = push.rt
        BY <3>5
      <4>2. reg'.promise[push.rt] = "failed"
        BY <1>11, <3>1, <3>5
      <4>3. CASE i = j
        <5>1. k \in pushJobs' /\ k.own /\ k.at # "connect"
          BY <1>7, <3>5, <4>1, <4>3 DEF Own
        <5> QED
          BY <5>1
      <4>4. CASE i # j
        BY <1>7, <3>1, <4>1, <4>2, <4>4
      <4> QED
        BY <4>3, <4>4
    <3> QED
      BY <2>2, <3>1, <3>2, <3>3, <3>4, <3>5 DEF Sound, AwakeOK
  <2> QED
    BY <2>1, <2>2 DEF AwakeOK, Own
<1> QED
  BY <1>5, <1>6, <1>8, <1>12, <1>13 DEF Sound

-----------------------------------------------------------------------------
(* The alert has been sent                                                 *)

\* The job of an entry that is there no more: it releases what is gone.
LEMMA OthersAlertKeepsSound ==
    ASSUME TypeInv, LifeInv, Sound, TypeInv', LifeInv', NEW j \in pushJobs, PushAlertSent(j), ~j.own
    PROVE  Sound'
<1>0. /\ j.at # "connect" /\ reg' = Release(reg, j.rt) /\ push' = push /\ strays' = strays
      /\ silenced => silenced'
      /\ pushJobs' = pushJobs \ {j} /\ UNCHANGED <<ws, lent, notices>>
  BY DEF PushAlertSent
<1>1. PICK r \in Runtimes : r = j.rt
  BY JobsAre
<1>2. /\ RegistryOK(reg) /\ LivesMatch(reg) /\ Terminated(reg, r) /\ ~Alive(reg, r)
      /\ reg' = Release(reg, r)
  BY <1>0, <1>1 DEF TypeInv, LifeInv, Sound, JobsOK, Terminated, Alive
<1>3. Fades(reg, reg') /\ Goes(reg, reg')
  BY <1>2, ReleaseFades DEF Fades
<1>4. CountsOK'
  <2>1. Late' = Late
    BY <1>0 DEF Late
  <2>2. ASSUME NEW q \in Runtimes PROVE Held(q)' = Held(q) /\ Held(q) \in Nat
    <3>1. SupervisorHas(q) \in Nat /\ Held(q) \in Nat
      BY NumbersNow
    <3>2. SupervisorHas(q)' = SupervisorHas(q)
      BY <1>0, <2>1 DEF SupervisorHas, PushHas, LateHave
    <3>3. SupervisorHas(q)' = SupervisorHas(q) + 0
      BY <3>1, <3>2
    <3>4. Held(q)' = Held(q) + 0
      BY <1>0, <3>3, SupervisorMoves
    <3> QED
      BY <3>1, <3>4
  <2>3. Held(r)' <= Held(r) /\ (\A q \in Runtimes : Held(q)' \in Nat)
        /\ (\A q \in Runtimes : q # r => Held(q)' = Held(q))
    BY <2>2
  <2> QED
    BY <1>2, <2>3, DeadLetGo DEF Sound
<1>5. DetachedOK'
  BY <1>0, <1>3, DetachedStands
<1>6. AwaitedOK'
  <2>1. \A q \in Runtimes : Awaits(q)' => Awaits(q)
    BY <1>0 DEF Awaits, Waits, ws
  <2> QED
    BY <1>3, <2>1, AwaitedFades DEF Sound
<1>7. \A q \in Runtimes : /\ Settled(q) => Settled(q)'
                          /\ Terminated(reg, q) => Terminated(reg', q)
                          /\ reg.promise[q] # "none" => reg'.promise[q] = reg.promise[q]
  BY <1>3 DEF Settled, Goes
<1>8. /\ push.rt # 0 => push.rt \in Runtimes
      /\ \A i \in pushJobs : i.rt \in Runtimes
      /\ \A i \in pushJobs : i # j => i \in pushJobs'
      /\ \A i \in pushJobs' : i \in pushJobs
  BY <1>0, JobsAre
<1>9. JobsOK'
  <2>1. \A i \in pushJobs' : Own(i) => i.rt = push'.rt \/ (Settled(i.rt)' /\ strays'[i.rt] # 0)
    BY <1>0, <1>7, <1>8 DEF Sound, JobsOK
  <2>2. \A i \in pushJobs' : i.at # "connect" => Terminated(reg', i.rt)
    BY <1>7, <1>8 DEF Sound, JobsOK
  <2>3. push'.rt # 0 => reg'.promise[push'.rt] # "none" /\ reg'.promise[push'.rt] = reg.promise[push.rt]
    BY <1>0, <1>7, <1>8 DEF Sound, JobsOK
  <2>4. push.rt # 0 /\ reg.promise[push.rt] = "pending" => \E i \in pushJobs' : Own(i) /\ i.rt = push.rt
    BY <1>0, <1>8 DEF Sound, JobsOK, Own
  <2> QED
    BY <1>0, <2>1, <2>2, <2>3, <2>4 DEF JobsOK, Own
<1>10. AwakeOK'
  <2>1. push'.is = "on" /\ push'.rt = 0 => push'.timer \/ silenced'
    BY <1>0 DEF Sound, AwakeOK
  <2>2. ASSUME push'.rt # 0, ~Alive(reg', push'.rt)
        PROVE  \/ \E n \in notices' : n[1] = "push"
               \/ \E i \in pushJobs' : i.own /\ i.at # "connect"
               \/ reg'.promise[push'.rt] = "failed" /\ \E i \in pushJobs' : Own(i) /\ i.rt = push'.rt
    <3>1. push.rt \in Runtimes /\ ~Alive(reg, push.rt)
      BY <1>0, <1>3, <1>4, <1>8, <2>2, HolderStands
    <3>2. CASE \E n \in notices : n[1] = "push"
      BY <1>0, <3>2
    <3>3. CASE \E i \in pushJobs : i.own /\ i.at # "connect"
      BY <1>8, <3>3
    <3>4. CASE reg.promise[push.rt] = "failed" /\ \E i \in pushJobs : Own(i) /\ i.rt = push.rt
      <4>1. PICK i \in pushJobs : Own(i) /\ i.rt = push.rt
        BY <3>4
      <4>2. i \in pushJobs'
        BY <1>8, <4>1 DEF Own
      <4>3. reg'.promise[push.rt] = "failed"
        BY <1>7, <3>1, <3>4
      <4> QED
        BY <1>0, <4>1, <4>2, <4>3
    <3> QED
      BY <1>0, <2>2, <3>1, <3>2, <3>3, <3>4 DEF Sound, AwakeOK
  <2> QED
    BY <2>1, <2>2 DEF AwakeOK, Own
<1> QED
  BY <1>4, <1>5, <1>6, <1>9, <1>10 DEF Sound

\* When all is quiet the entry's own connect() is of the runtime it holds.
OwnJob == [at |-> "connect", rt |-> push.rt, own |-> TRUE, fresh |-> TRUE]

LEMMA OwnJobIs ==
    ASSUME TypeInv, LifeInv, Sound, Quiet
    PROVE  /\ \A i \in pushJobs : Own(i) => i = OwnJob
           /\ OwnJob \in pushJobs => push.rt \in Runtimes /\ Own(OwnJob)
           /\ push.rt # 0 /\ (\E i \in pushJobs : i.at = "connect" /\ i.own /\ i.rt = push.rt)
                 => OwnJob \in pushJobs
<1>0. /\ OwnJob.at = "connect" /\ OwnJob.rt = push.rt /\ OwnJob.own /\ OwnJob.fresh
      /\ pushJobs \subseteq Jobs
  BY JobsAre DEF OwnJob
<1>1. ASSUME NEW i \in pushJobs, Own(i) PROVE i = OwnJob
  <2>1. ~Settled(i.rt)
    BY <1>1 DEF Quiet, Own
  <2>2. i.rt = push.rt
    BY <1>1, <2>1 DEF Sound, JobsOK
  <2> QED
    BY <1>0, <1>1, <2>2 DEF Own, OwnJob, Jobs
<1>2. OwnJob \in pushJobs => push.rt \in Runtimes /\ Own(OwnJob)
  BY <1>0, JobsAre DEF Own
<1>3. ASSUME push.rt # 0, NEW i \in pushJobs, i.at = "connect", i.own, i.rt = push.rt
      PROVE  OwnJob \in pushJobs
  <2>1. PICK r \in Runtimes : r = push.rt
    BY <1>3, JobsAre
  <2>2. Awaits(r)
    BY <1>3, <2>1 DEF Awaits, Waits
  <2>3. reg.promise[r] = "pending"
    BY <2>2, QuietWaits DEF Sound
  <2>4. PICK k \in pushJobs : Own(k) /\ k.rt = push.rt
    BY <1>3, <2>1, <2>3 DEF Sound, JobsOK
  <2> QED
    BY <1>1, <2>4
<1> QED
  BY <1>1, <1>2, <1>3

\* A reconnect is scheduled: the jobs of the entry are late from now on.
LEMMA SchedulingIs ==
    ASSUME TypeInv, LifeInv, Sound, TypeInv', NEW j \in pushJobs, PushAlertSent(j), j.own
    PROVE  /\ j.at # "connect" /\ reg' = Release(reg, j.rt) /\ UNCHANGED <<ws, lent, notices>>
           /\ push'.rt = 0 /\ push'.timer
           /\ \A i \in pushJobs' : /\ ~Own(i)
                                   /\ \E x \in pushJobs : x.rt = i.rt /\ x.at = i.at /\ (Waits(i) => Waits(x))
           /\ \A q \in Runtimes : q # j.rt => Held(q)' = Held(q)
           /\ \A q \in Runtimes : q = j.rt => Held(q)' <= Held(q)
<1> DEFINE G(i) == IF i.own THEN [i EXCEPT !.fresh = FALSE] ELSE i
           S == pushJobs \ {j}
           f == [i \in S |-> G(i)]
           A == {i \in S : Waits(i)}
           E == \E i \in pushJobs : i.at = "connect" /\ i.own /\ i.rt = push.rt
<1>0. /\ Quiet /\ j.at # "connect" /\ reg' = Release(reg, j.rt) /\ UNCHANGED <<ws, lent, notices>>
      /\ push' = [push EXCEPT !.rt = 0, !.timer = TRUE]
      /\ pushJobs' = {G(i) : i \in S}
      /\ Cardinality(pushJobs') = Cardinality(S)
      /\ strays' = IF push.rt \notin {0, j.rt} /\ ~E THEN [strays EXCEPT ![push.rt] = @ + 1] ELSE strays
  BY DEF PushAlertSent, ScheduleReconnect, OneOfAKind
<1>1. /\ pushJobs \subseteq Jobs /\ IsFiniteSet(pushJobs) /\ j.rt \in Runtimes
      /\ push.rt # 0 => push.rt \in Runtimes
  BY JobsAre
<1>2. \A i \in Jobs : /\ G(i).rt = i.rt /\ G(i).at = i.at /\ G(i).own = i.own
                      /\ i.own => ~G(i).fresh
                      /\ ~i.own => G(i) = i
  BY DEF Jobs
<1>3. IsFiniteSet(S) /\ f \in Surjection(S, pushJobs') /\ \A x \in S : f[x] = G(x) /\ f[x].rt = x.rt
  BY <1>0, <1>1, <1>2, FS_RemoveElement DEF Surjection
<1>4. push'.rt = 0 /\ push'.timer
  BY <1>0 DEF TypeInv, PushOK
<1>5. E => push.rt # 0
  BY <1>1, RuntimesAre, JobsAre
<1> HIDE DEF G, f, E
<1>6. LateOf(pushJobs') = {f[x] : x \in A}
  <2>1. \A x \in S : Waits(x) <=> (G(x).at = "connect" /\ ~G(x).fresh)
    BY <1>1, <1>2 DEF Waits
  <2> QED
    BY <1>0, <1>3, <2>1 DEF LateOf
<1>7. \A q : Cardinality(Of(LateOf(pushJobs'), q)) = Cardinality(Of(A, q))
  <2>1. A \in SUBSET S /\ Cardinality(pushJobs') = Cardinality(S)
    BY <1>0
  <2>2. \A x \in S : f[x].rt = x.rt
    BY <1>3
  <2> HIDE DEF A, S
  <2> QED
    BY <1>3, <1>6, <2>1, <2>2, MappedOnce
<1>8. \A i \in pushJobs' : /\ ~Own(i)
                           /\ \E x \in pushJobs : x.rt = i.rt /\ x.at = i.at /\ (Waits(i) => Waits(x))
  <2>1. ASSUME NEW i \in pushJobs'
        PROVE  ~Own(i) /\ \E x \in pushJobs : x.rt = i.rt /\ x.at = i.at /\ (Waits(i) => Waits(x))
    <3>1. PICK x \in S : i = G(x)
      BY <1>0
    <3> QED
      BY <1>1, <1>2, <3>1 DEF Own, Waits
  <2> QED
    BY <2>1
<1>9. /\ \A i \in pushJobs : Own(i) => i = OwnJob
      /\ OwnJob \in pushJobs => push.rt \in Runtimes /\ Own(OwnJob)
      /\ E <=> OwnJob \in pushJobs
  <2>1. /\ \A i \in pushJobs : Own(i) => i = OwnJob
        /\ OwnJob \in pushJobs => push.rt \in Runtimes /\ Own(OwnJob)
        /\ push.rt # 0 /\ E => OwnJob \in pushJobs
    BY <1>0, OwnJobIs DEF E
  <2>2. OwnJob \in pushJobs => E
    BY <2>1 DEF E, Own, OwnJob
  <2> QED
    BY <1>5, <2>1, <2>2
<1>10. A = IF OwnJob \in pushJobs THEN Late \cup {OwnJob} ELSE Late
  <2>1. \A i \in pushJobs : i # j /\ Waits(i) <=> i \in Late \/ Own(i)
    BY <1>0, <1>1 DEF Waits, Own, Late, Jobs
  <2> QED
    BY <1>9, <2>1 DEF Late
<1>11. OwnJob \notin Late
  BY <1>9 DEF Own, Late
<1>12. ASSUME NEW q \in Runtimes
       PROVE  /\ OwnJob \in pushJobs /\ q = push.rt => LateHave(q)' = LateHave(q) + 1
              /\ ~(OwnJob \in pushJobs /\ q = push.rt) => LateHave(q)' = LateHave(q)
  <2>1. LateHave(q)' = Cardinality(Of(A, q)) /\ LateHave(q) = Cardinality(Of(Late, q))
    BY <1>7, LateIs DEF LateHave
  <2>2. CASE OwnJob \in pushJobs
    <3>1. A = Late \cup {OwnJob} /\ IsFiniteSet(Late) /\ OwnJob.rt = push.rt
      BY <1>10, <2>2, CountsAreNumbers DEF OwnJob
    <3>2. /\ OwnJob.rt = q => Cardinality(Of(A, q)) = Cardinality(Of(Late, q)) + 1
          /\ OwnJob.rt # q => Cardinality(Of(A, q)) = Cardinality(Of(Late, q))
      BY <1>11, <3>1, OneMore
    <3> QED
      BY <2>1, <2>2, <3>1, <3>2
  <2>3. CASE OwnJob \notin pushJobs
    BY <1>10, <2>1, <2>3
  <2> QED
    BY <2>2, <2>3
<1>13. ASSUME NEW q \in Runtimes
       PROVE  /\ q # j.rt => Held(q)' = Held(q)
              /\ q = j.rt => Held(q)' <= Held(q)
  <2>1. /\ PushHas(q) \in {0, 1} /\ LateHave(q) \in Nat /\ strays[q] \in Nat
        /\ SupervisorHas(q) \in Nat /\ Held(q) \in Nat
    BY NumbersNow
  <2>2. PushHas(q)' = 0
    BY <1>4, RuntimesAre DEF PushHas
  <2>3. /\ q = push.rt => PushHas(q) = 1
        /\ q # push.rt => PushHas(q) = 0
    BY DEF PushHas
  <2>4. /\ push.rt = q /\ q # j.rt /\ OwnJob \notin pushJobs => strays'[q] = strays[q] + 1
        /\ ~(push.rt = q /\ q # j.rt /\ OwnJob \notin pushJobs) => strays'[q] = strays[q]
    BY <1>0, <1>9, RuntimesAre DEF TypeInv, PushOK
  <2>5. CASE q # push.rt \/ OwnJob \in pushJobs \/ q # j.rt
    <3>1. PushHas(q)' + LateHave(q)' + strays'[q] = PushHas(q) + LateHave(q) + strays[q]
      BY <1>12, <2>1, <2>2, <2>3, <2>4, <2>5
    <3>2. SupervisorHas(q)' = SupervisorHas(q) + 0
      BY <2>1, <3>1 DEF SupervisorHas
    <3>3. Held(q)' = Held(q) + 0
      BY <1>0, <3>2, SupervisorMoves
    <3> QED
      BY <2>1, <3>3
  <2>6. CASE q = push.rt /\ OwnJob \notin pushJobs /\ q = j.rt
    <3>1. LateHave(q)' = LateHave(q) /\ strays'[q] = strays[q] /\ PushHas(q) = 1
      BY <1>12, <2>3, <2>4, <2>6
    <3>2. SupervisorHas(q)' = SupervisorHas(q) + (-1)
      BY <2>1, <2>2, <3>1 DEF SupervisorHas
    <3>3. Held(q)' = Held(q) + (-1)
      BY <1>0, <3>2, SupervisorMoves
    <3> QED
      BY <2>1, <2>6, <3>3
  <2> QED
    BY <2>5, <2>6
<1> QED
  BY <1>0, <1>4, <1>8, <1>13

LEMMA OwnAlertKeepsSound ==
    ASSUME TypeInv, LifeInv, Sound, TypeInv', LifeInv', NEW j \in pushJobs, PushAlertSent(j), j.own
    PROVE  Sound'
<1>0. /\ j.at # "connect" /\ reg' = Release(reg, j.rt) /\ UNCHANGED <<ws, lent, notices>>
      /\ push'.rt = 0 /\ push'.timer
      /\ \A i \in pushJobs' : /\ ~Own(i)
                              /\ \E x \in pushJobs : x.rt = i.rt /\ x.at = i.at /\ (Waits(i) => Waits(x))
      /\ \A q \in Runtimes : q # j.rt => Held(q)' = Held(q)
      /\ \A q \in Runtimes : q = j.rt => Held(q)' <= Held(q)
  BY SchedulingIs
<1>1. PICK r \in Runtimes : r = j.rt
  BY JobsAre
<1>2. /\ RegistryOK(reg) /\ LivesMatch(reg) /\ ~Alive(reg, r)
      /\ reg' = Release(reg, r)
  BY <1>0, <1>1 DEF TypeInv, LifeInv, Sound, JobsOK, Terminated, Alive
<1>3. Fades(reg, reg') /\ Goes(reg, reg')
  BY <1>2, ReleaseFades DEF Fades
<1>4. CountsOK'
  <2>1. /\ \A q \in Runtimes : Held(q)' \in Nat
        /\ \A q \in Runtimes : q # r => Held(q)' = Held(q)
        /\ Held(r)' <= Held(r)
    BY <1>0, <1>1, NumbersThen
  <2> QED
    BY <1>2, <2>1, DeadLetGo DEF Sound
<1>5. DetachedOK'
  BY <1>0, <1>3, DetachedStands
<1>6. AwaitedOK'
  <2>1. \A q \in Runtimes : Awaits(q)' => Awaits(q)
    BY <1>0 DEF Awaits, Waits, ws
  <2> QED
    BY <1>3, <2>1, AwaitedFades DEF Sound
<1>7. JobsOK'
  <2>1. \A i \in pushJobs' : i.at # "connect" => Terminated(reg', i.rt)
    <3>1. \A x \in pushJobs : x.at # "connect" => Terminated(reg', x.rt)
      BY <1>3, JobsAre DEF Sound, JobsOK, Goes
    <3> QED
      BY <1>0, <3>1
  <2> QED
    BY <1>0, <2>1 DEF JobsOK, Own
<1>8. AwakeOK'
  BY <1>0 DEF AwakeOK
<1> QED
  BY <1>4, <1>5, <1>6, <1>7, <1>8 DEF Sound

-----------------------------------------------------------------------------
(* The induction                                                           *)

\* What slipped once is not forgotten.
LEMMA SlipsGrow ==
    ASSUME TypeInv, [Next]_vars
    PROVE  slips \subseteq slips'
<1>1. CASE UNCHANGED vars
  BY <1>1 DEF vars
<1>2. ASSUME NEW s \in Sockets, HandleOpen(s) \/ HandleClose(s) \/ HandleDeviceConnect(s) \/ HandleDeviceDisconnect(s)
      PROVE  slips \subseteq slips'
  BY <1>2 DEF HandleOpen, HandleClose, HandleDeviceConnect, HandleDeviceDisconnect,
              JoinEntry, AwaitCreation, StartCreation
<1>3. CASE CreationSettles
  BY <1>3 DEF CreationSettles, Replaces
<1>4. CASE WsHearsEnd \/ ReconnectTimerFires
  BY <1>4 DEF WsHearsEnd, ReconnectTimerFires
<1>5. ASSUME NEW j \in retries, RetrySettles(j) PROVE slips \subseteq slips'
  BY <1>5 DEF RetrySettles, Replaces
<1>6. CASE PushUpsert \/ PushReconnect \/ PushRemove \/ PushHearsEnd \/ PushTimerFires
  BY <1>6 DEF PushUpsert, PushReconnect, PushRemove, PushHearsEnd, PushTimerFires
<1>7. ASSUME NEW j \in pushJobs, PushConnectSettles(j) \/ PushAlertSent(j) PROVE slips \subseteq slips'
  BY <1>7 DEF PushConnectSettles, PushAlertSent
<1>8. ASSUME NEW b \in Borrowers, Borrow(b) \/ GiveBack(b) PROVE slips \subseteq slips'
  BY <1>8 DEF Borrow, GiveBack
<1>9. ASSUME NEW r \in Runtimes, ConnectSettles(r) \/ RuntimeEnds(r) PROVE slips \subseteq slips'
  BY <1>9 DEF ConnectSettles, RuntimeEnds
<1> QED
  BY <1>1, <1>2, <1>3, <1>4, <1>5, <1>6, <1>7, <1>8, <1>9 DEF Next

LEMMA IdleKeepsSound == Sound /\ UNCHANGED vars => Sound'
BY DEF vars, ws, pushing, Sound, CountsOK, Held, ServerHas, EntryHas, CreationHas, RetriesHave,
       SupervisorHas, PushHas, LateHave, Late, LoansHave, DetachedOK, Settled, AwaitedOK, Awaits, Waits,
       JobsOK, Own, AwakeOK

LEMMA NextSound == TypeInv /\ LifeInv /\ SoundInv /\ [Next]_vars => SoundInv'
<1> SUFFICES ASSUME TypeInv, LifeInv, SoundInv, [Next]_vars, "stolen" \notin slips'
             PROVE  Sound'
  BY DEF SoundInv
<1>1. TypeInv' /\ LifeInv' /\ Sound
  BY NextTypes, NextLife, SlipsGrow DEF SoundInv
<1>2. CASE UNCHANGED vars
  BY <1>1, <1>2, IdleKeepsSound
<1>3. ASSUME NEW s \in Sockets, HandleOpen(s) \/ HandleClose(s) \/ HandleDeviceConnect(s) \/ HandleDeviceDisconnect(s)
      PROVE  Sound'
  BY <1>1, <1>3, SocketsKeepSound
<1>4. CASE CreationSettles \/ WsHearsEnd \/ ReconnectTimerFires \/ \E j \in retries : RetrySettles(j)
  BY <1>1, <1>4, ServerKeepsSound
<1>5. CASE PushUpsert \/ PushReconnect \/ PushTimerFires
  BY <1>1, <1>5, PushStartsKeepSound
<1>6. CASE PushRemove
  BY <1>1, <1>6, PushRemoveKeepsSound
<1>7. CASE PushHearsEnd
  BY <1>1, <1>7, PushHearingKeepsSound
<1>8. ASSUME NEW j \in pushJobs, PushConnectSettles(j) PROVE Sound'
  BY <1>1, <1>8, PushSettlingKeepsSound
<1>9. ASSUME NEW j \in pushJobs, PushAlertSent(j) PROVE Sound'
  BY <1>1, <1>9, OthersAlertKeepsSound, OwnAlertKeepsSound
<1>10. ASSUME NEW b \in Borrowers, Borrow(b) \/ GiveBack(b) PROVE Sound'
  BY <1>1, <1>10, BorrowKeepsSound, GiveBackKeepsSound
<1>11. ASSUME NEW r \in Runtimes, ConnectSettles(r) \/ RuntimeEnds(r) PROVE Sound'
  BY <1>1, <1>11, EndingKeepsSound
<1> QED
  BY <1>2, <1>3, <1>4, <1>5, <1>6, <1>7, <1>8, <1>9, <1>10, <1>11 DEF Next

LEMMA InitSound == Init => LifeInv /\ SoundInv
<1> SUFFICES ASSUME Init PROVE LifeInv /\ Sound
  BY DEF SoundInv
<1>1. /\ reg = NoRuntimes /\ conns = NoEntry /\ create.rt = 0 /\ retries = {} /\ pushJobs = {}
      /\ push = NoPush /\ push.rt = 0 /\ push.is = "new" /\ notices = {}
      /\ \A e \in Entries : ent[e].rt = 0
      /\ \A b \in Borrowers : lent[b].rt = 0
      /\ \A r \in Runtimes : lost[r] = 0 /\ strays[r] = 0
  BY DEF Init, NoCreation, NoPush, NewEntry, NoLoan
<1>2. LifeInv
  BY <1>1, InitLives DEF LifeInv
<1>3. ASSUME NEW r \in Runtimes PROVE HeldBy(reg, r, Held(r))
  <2>1. r # 0
    BY RuntimesAre
  <2>2. /\ Of(retries, r) = {} /\ Of(Late, r) = {}
        /\ {b \in Borrowers : lent[b].rt = r} = {}
    BY <1>1, <2>1 DEF Of, Late
  <2>3. RetriesHave(r) = 0 /\ LateHave(r) = 0 /\ LoansHave(r) = 0
    BY <2>2, FS_EmptySet DEF RetriesHave, LateHave, LoansHave
  <2>4. EntryHas(r) = 0 /\ CreationHas(r) = 0 /\ PushHas(r) = 0
    BY <1>1, <2>1 DEF EntryHas, CreationHas, PushHas
  <2>5. ServerHas(r) = 0 /\ SupervisorHas(r) = 0
    BY <1>1, <2>3, <2>4 DEF ServerHas, SupervisorHas
  <2>6. Held(r) = 0
    BY <2>3, <2>5 DEF Held
  <2>7. ~Alive(reg, r)
    BY <1>1 DEF NoRuntimes, Alive
  <2> QED
    BY <2>6, <2>7 DEF HeldBy
<1>4. DetachedOK /\ AwaitedOK /\ JobsOK /\ AwakeOK
  BY <1>1, RuntimesAre DEF DetachedOK, AwaitedOK, Awaits, JobsOK, AwakeOK
<1> QED
  BY <1>2, <1>3, <1>4 DEF Sound, CountsOK

HoldersInv == TypeInv /\ LifeInv /\ SoundInv

LEMMA HoldersInvariant == Spec => []HoldersInv
<1>1. Init => HoldersInv
  BY InitTypes, InitSound DEF HoldersInv
<1>2. HoldersInv /\ [Next]_vars => HoldersInv'
  BY NextTypes, NextLife, NextSound DEF HoldersInv
<1> QED
  BY <1>1, <1>2, PTL DEF Spec

-----------------------------------------------------------------------------
(* The set of holders, and their number                                    *)

Tagged(t, S) == {<<t, x>> : x \in S}

\* Things of a kind of their own are added to what there is.
LEMMA OneKindMore ==
    ASSUME NEW X, IsFiniteSet(X), NEW t, \A y \in X : y[1] # t, NEW S, IsFiniteSet(S)
    PROVE  /\ IsFiniteSet(X \cup Tagged(t, S))
           /\ Cardinality(X \cup Tagged(t, S)) = Cardinality(X) + Cardinality(S)
<1> DEFINE T == Tagged(t, S)
           f == [x \in S |-> <<t, x>>]
<1>1. f \in Bijection(S, T)
  <2>1. f \in [S -> T]
    BY DEF Tagged
  <2>2. \A x, y \in S : f[x] = f[y] => x = y
    OBVIOUS
  <2>3. \A y \in T : \E x \in S : f[x] = y
    BY DEF Tagged
  <2> HIDE DEF f
  <2> QED
    BY <2>1, <2>2, <2>3, Fun_IsBij
<1>2. IsFiniteSet(T) /\ Cardinality(T) = Cardinality(S)
  BY <1>1, FS_Bijection DEF ExistsBijection
<1>3. X \cap T = {}
  BY DEF Tagged
<1>4. Cardinality(X \cap T) = 0 /\ Cardinality(X) \in Nat /\ Cardinality(T) \in Nat
  BY <1>2, <1>3, FS_EmptySet, FS_CardinalityType
<1>5. IsFiniteSet(X \cup T) /\ Cardinality(X \cup T) = Cardinality(X) + Cardinality(T) - Cardinality(X \cap T)
  BY <1>2, FS_Union
<1> QED
  BY <1>2, <1>4, <1>5

LEMMA UpTo == ASSUME NEW n \in Nat PROVE IsFiniteSet(1 .. n) /\ Cardinality(1 .. n) = n
<1>1. IsFiniteSet(1 .. n) /\ Cardinality(1 .. n) = IF 1 > n THEN 0 ELSE n - 1 + 1
  BY FS_Interval
<1> QED
  BY <1>1

LEMMA HoldersAreHeld ==
    ASSUME TypeInv, NEW r \in Runtimes
    PROVE  IsFiniteSet(Holders(r)) /\ Cardinality(Holders(r)) = Held(r)
<1> DEFINE S1 == {e \in Entries : e = conns /\ ent[e].attached /\ ent[e].rt = r}
           S2 == {create.rt} \cap {r}
           S4 == 1 .. lost[r]
           S5 == {push.rt} \cap {r}
           S7 == 1 .. strays[r]
           S8 == {b \in Borrowers : lent[b].rt = r}
           T1 == Tagged("entry", S1)
           T2 == {<<"create", 0>> : x \in S2}
           T3 == Tagged("retry", Of(retries, r))
           T4 == Tagged("lost", S4)
           T5 == {<<"push", 0>> : x \in S5}
           T6 == Tagged("job", Of(Late, r))
           T7 == Tagged("stray", S7)
           T8 == Tagged("borrower", S8)
           Z(n) == IF n = 1 THEN {0} ELSE {}
<1>1. Holders(r) = T1 \cup T2 \cup T3 \cup T4 \cup T5 \cup T6 \cup T7 \cup T8
  BY DEF Holders, Tagged, Of, Late
<1>2. /\ EntryHas(r) \in {0, 1} /\ CreationHas(r) \in {0, 1} /\ RetriesHave(r) \in Nat
      /\ lost[r] \in Nat /\ PushHas(r) \in {0, 1} /\ LateHave(r) \in Nat
      /\ strays[r] \in Nat /\ LoansHave(r) \in Nat /\ IsFiniteSet(Late)
  BY CountsAreNumbers
<1>3. \A n \in {0, 1} : IsFiniteSet(Z(n)) /\ Cardinality(Z(n)) = n
  BY FS_EmptySet, FS_Singleton
<1>4. T2 = Tagged("create", Z(CreationHas(r))) /\ T5 = Tagged("push", Z(PushHas(r)))
  <2>1. /\ create.rt = r => S2 = {r} /\ Z(CreationHas(r)) = {0}
        /\ create.rt # r => S2 = {} /\ Z(CreationHas(r)) = {}
        /\ push.rt = r => S5 = {r} /\ Z(PushHas(r)) = {0}
        /\ push.rt # r => S5 = {} /\ Z(PushHas(r)) = {}
    <3>1. /\ create.rt = r => CreationHas(r) = 1
          /\ create.rt # r => CreationHas(r) = 0
          /\ push.rt = r => PushHas(r) = 1
          /\ push.rt # r => PushHas(r) = 0
      BY DEF CreationHas, PushHas
    <3>2. Z(1) = {0} /\ Z(0) = {}
      OBVIOUS
    <3> HIDE DEF Z
    <3>3. /\ create.rt = r => S2 = {r}
          /\ create.rt # r => S2 = {}
          /\ push.rt = r => S5 = {r}
          /\ push.rt # r => S5 = {}
      OBVIOUS
    <3> HIDE DEF S2, S5
    <3> QED
      BY <3>1, <3>2, <3>3
  <2> HIDE DEF S2, S5, Z
  <2> QED
    BY <2>1 DEF Tagged
<1>5. IsFiniteSet(S1) /\ Cardinality(S1) = EntryHas(r)
  <2>1. S1 = IF EntryHas(r) = 1 THEN {conns} ELSE {}
    BY HoldersAssumption DEF EntryHas, TypeInv, EntriesOK
  <2>2. IsFiniteSet({}) /\ Cardinality({}) = 0 /\ IsFiniteSet({conns}) /\ Cardinality({conns}) = 1
    BY FS_EmptySet, FS_Singleton
  <2> HIDE DEF S1
  <2>3. CASE EntryHas(r) = 1
    BY <2>1, <2>2, <2>3
  <2>4. CASE EntryHas(r) = 0
    BY <2>1, <2>2, <2>4
  <2> QED
    BY <1>2, <2>3, <2>4
<1>6. IsFiniteSet(S4) /\ Cardinality(S4) = lost[r] /\ IsFiniteSet(S7) /\ Cardinality(S7) = strays[r]
  BY <1>2, UpTo
<1>7. IsFiniteSet(Of(retries, r)) /\ IsFiniteSet(Of(Late, r))
  <2>1. IsFiniteSet(retries) /\ Of(retries, r) \in SUBSET retries /\ Of(Late, r) \in SUBSET Late
    BY DEF TypeInv, SocketsOK, Of
  <2> QED
    BY <1>2, <2>1, FS_Subset
<1>8. IsFiniteSet(S8) /\ Cardinality(S8) = LoansHave(r)
  <2>1. S8 \in SUBSET {b \in Borrowers : lent[b].rt # 0}
    BY RuntimesAre
  <2> QED
    BY <2>1, FS_Subset DEF TypeInv, LoansOK, LoansHave
<1>9. /\ \A y \in T1 : y[1] = "entry"
      /\ \A y \in T2 : y[1] = "create"
      /\ \A y \in T3 : y[1] = "retry"
      /\ \A y \in T4 : y[1] = "lost"
      /\ \A y \in T5 : y[1] = "push"
      /\ \A y \in T6 : y[1] = "job"
      /\ \A y \in T7 : y[1] = "stray"
  BY DEF Tagged
<1>10. /\ IsFiniteSet({}) /\ Cardinality({}) = 0 /\ {} \cup T1 = T1
  BY FS_EmptySet
<1> DEFINE U2 == T1 \cup T2
           U3 == U2 \cup T3
           U4 == U3 \cup T4
           U5 == U4 \cup T5
           U6 == U5 \cup T6
           U7 == U6 \cup T7
           U8 == U7 \cup T8
<1>11. Holders(r) = U8
  BY <1>1
<1>12. /\ T1 = Tagged("entry", S1) /\ T3 = Tagged("retry", Of(retries, r))
       /\ T4 = Tagged("lost", S4) /\ T6 = Tagged("job", Of(Late, r))
       /\ T7 = Tagged("stray", S7) /\ T8 = Tagged("borrower", S8)
  OBVIOUS
<1> HIDE DEF S1, S2, S4, S5, S7, S8, T1, T2, T3, T4, T5, T6, T7, T8, Z
<1>13. IsFiniteSet(T1) /\ Cardinality(T1) = EntryHas(r)
  <2>1. IsFiniteSet({} \cup T1) /\ Cardinality({} \cup T1) = Cardinality({}) + Cardinality(S1)
    <3>1. \A y \in {} : y[1] # "entry"
      OBVIOUS
    <3> QED
      BY <1>5, <1>10, <1>12, <3>1, OneKindMore
  <2> QED
    BY <1>2, <1>5, <1>10, <2>1
<1>14. IsFiniteSet(U2) /\ Cardinality(U2) = Cardinality(T1) + CreationHas(r)
  <2>1. \A y \in T1 : y[1] # "create"
    BY <1>9
  <2>2. IsFiniteSet(Z(CreationHas(r))) /\ Cardinality(Z(CreationHas(r))) = CreationHas(r)
    BY <1>2, <1>3
  <2> QED
    BY <1>4, <1>13, <2>1, <2>2, OneKindMore
<1>15. IsFiniteSet(U3) /\ Cardinality(U3) = Cardinality(U2) + RetriesHave(r)
  <2>1. \A y \in U2 : y[1] # "retry"
    BY <1>9
  <2> HIDE DEF U2
  <2> QED
    BY <1>7, <1>12, <1>14, <2>1, OneKindMore DEF RetriesHave
<1>16. IsFiniteSet(U4) /\ Cardinality(U4) = Cardinality(U3) + lost[r]
  <2>1. \A y \in U3 : y[1] # "lost"
    BY <1>9
  <2> HIDE DEF U3
  <2> QED
    BY <1>6, <1>12, <1>15, <2>1, OneKindMore
<1>17. IsFiniteSet(U5) /\ Cardinality(U5) = Cardinality(U4) + PushHas(r)
  <2>1. \A y \in U4 : y[1] # "push"
    BY <1>9
  <2>2. IsFiniteSet(Z(PushHas(r))) /\ Cardinality(Z(PushHas(r))) = PushHas(r)
    BY <1>2, <1>3
  <2> HIDE DEF U4
  <2> QED
    BY <1>4, <1>16, <2>1, <2>2, OneKindMore
<1>18. IsFiniteSet(U6) /\ Cardinality(U6) = Cardinality(U5) + LateHave(r)
  <2>1. \A y \in U5 : y[1] # "job"
    BY <1>9
  <2> HIDE DEF U5
  <2> QED
    BY <1>7, <1>12, <1>17, <2>1, OneKindMore DEF LateHave
<1>19. IsFiniteSet(U7) /\ Cardinality(U7) = Cardinality(U6) + strays[r]
  <2>1. \A y \in U6 : y[1] # "stray"
    BY <1>9
  <2> HIDE DEF U6
  <2> QED
    BY <1>6, <1>12, <1>18, <2>1, OneKindMore
<1>20. IsFiniteSet(U8) /\ Cardinality(U8) = Cardinality(U7) + LoansHave(r)
  <2>1. \A y \in U7 : y[1] # "borrower"
    BY <1>9
  <2> HIDE DEF U7
  <2> QED
    BY <1>8, <1>12, <1>19, <2>1, OneKindMore
<1> HIDE DEF U2, U3, U4, U5, U6, U7, U8
<1>21. Held(r) = ((EntryHas(r) + CreationHas(r) + RetriesHave(r) + lost[r])
                     + (PushHas(r) + LateHave(r) + strays[r])) + LoansHave(r)
  BY DEF Held, ServerHas, SupervisorHas
<1>22. Cardinality(U8) = Held(r)
  BY <1>2, <1>13, <1>14, <1>15, <1>16, <1>17, <1>18, <1>19, <1>20, <1>21
<1> QED
  BY <1>11, <1>20, <1>22

-----------------------------------------------------------------------------
(* What sockets were told, and what became of their device since           *)

\* A closed socket has been told nothing.
ClosedOK == \A s \in Sockets : s \notin open => told[s] = "nothing"

\* An entry listens to a runtime whose connect() came back well, and its
\* listener is called before anything else happens when that runtime is lost.
Listening ==
    conns # NoEntry /\ ent[conns].attached =>
        /\ reg.promise[ent[conns].rt] = "ok"
        /\ reg.life[ent[conns].rt] = "lost" => <<"entry", 0, 0>> \in notices

IsClient(s)  == conns # NoEntry /\ s \in ent[conns].clients
RetryAhead   == ent[conns].timer \/ \E j \in retries : j.ent = conns
ServedFor(s) == told[s] \in {"connected", "reconnected"} => IsClient(s) /\ ent[conns].attached
RetryFor(s)  == told[s] = "reconnecting" => IsClient(s) /\ RetryAhead

\* What is claimed to a socket; the other tidings claim nothing.
Claims == {"connected", "reconnected", "reconnecting"}

ServedOK == slips = {} => Listening /\ \A s \in open : ServedFor(s)
RetryOK  == "dropped" \notin slips => \A s \in open : RetryFor(s)
ToldInv  == ClosedOK /\ ServedOK /\ RetryOK

LEMMA TellIs ==
    ASSUME NEW hears, NEW who, NEW what
    PROVE  \A s \in Sockets : Tell(hears, who, what)[s] = IF s \in who \cap open THEN what ELSE hears[s]
BY DEF Tell

\* As long as only the registry goes on.
LEMMA ListeningStays ==
    ASSUME TypeInv, Listening, Goes(reg, reg'), <<"entry", 0, 0>> \in notices => <<"entry", 0, 0>> \in notices',
           conns' # NoEntry /\ ent'[conns'].attached =>
               conns' = conns /\ ent[conns].attached /\ ent'[conns'].rt = ent[conns].rt
    PROVE  Listening'
<1> SUFFICES ASSUME conns' # NoEntry, ent'[conns'].attached
             PROVE  /\ reg'.promise[ent'[conns'].rt] = "ok"
                    /\ reg'.life[ent'[conns'].rt] = "lost" => <<"entry", 0, 0>> \in notices'
  BY DEF Listening
<1> DEFINE r == ent[conns].rt
<1>1. conns # NoEntry /\ ent[conns].attached /\ ent'[conns'].rt = r /\ r \in Runtimes
  BY EntryRuntime
<1>2. reg.promise[r] = "ok" /\ (reg.life[r] = "lost" => <<"entry", 0, 0>> \in notices)
  BY <1>1 DEF Listening
<1> HIDE DEF r
<1>3. reg'.promise[r] = "ok" /\ (reg'.life[r] = "lost" => reg.life[r] = "lost")
  BY <1>1, <1>2 DEF Goes
<1> QED
  BY <1>1, <1>2, <1>3

\* Steps that leave the entry alone, and claim nothing new.
LEMMA ToldStands ==
    ASSUME TypeInv, ToldInv, Goes(reg, reg'), slips \subseteq slips',
           <<"entry", 0, 0>> \in notices => <<"entry", 0, 0>> \in notices',
           UNCHANGED <<conns, ent>>, retries \subseteq retries',
           open' \subseteq Sockets,
           \A s \in Sockets : \/ s \in open /\ told'[s] = told[s]
                              \/ told'[s] \notin Claims,
           \A s \in Sockets : s \notin open' => told'[s] = "nothing"
    PROVE  ToldInv'
<1>1. ClosedOK'
  BY DEF ClosedOK
<1>2. ASSUME slips' = {} PROVE Listening' /\ \A s \in open' : ServedFor(s)'
  <2>1. Listening /\ \A s \in open : ServedFor(s)
    BY <1>2 DEF ToldInv, ServedOK
  <2> QED
    BY <2>1, ListeningStays DEF ServedFor, IsClient, Claims
<1>3. ASSUME "dropped" \notin slips' PROVE \A s \in open' : RetryFor(s)'
  <2>1. \A s \in open : RetryFor(s)
    BY <1>3 DEF ToldInv, RetryOK
  <2> QED
    BY <2>1 DEF RetryFor, IsClient, RetryAhead, Claims
<1> QED
  BY <1>1, <1>2, <1>3 DEF ToldInv, ServedOK, RetryOK

\* A socket leaves the entry: those who stay keep what they have.
LEMMA LeavingTold ==
    ASSUME TypeInv, LifeInv, ToldInv, NEW s \in Sockets, NEW what \in Tidings, what \notin Claims,
           s \in open, conns # NoEntry, ReleaseConnectionEntry(ent[conns].clients \ {s}),
           told' = Tell(told, {s}, what),
           open' = open \/ (open' = open \ {s} /\ what = "nothing"),
           Goes(reg, reg'), UNCHANGED <<retries, notices, slips>>
    PROVE  ToldInv'
<1> DEFINE rest == ent[conns].clients \ {s}
<1>0. conns \in Entries /\ ent[conns] \in Ents /\ ent \in [Entries -> Ents] /\ open \subseteq Sockets
  BY EntryRuntime DEF TypeInv, EntriesOK, SocketsOK
<1>1. \A x \in Sockets : told'[x] = IF x = s THEN what ELSE told[x]
  BY TellIs
<1>2. ClosedOK'
  BY <1>1 DEF ToldInv, ClosedOK
<1>3. \/ /\ conns' = conns /\ ent'[conns].clients = rest /\ ent'[conns].attached = ent[conns].attached
         /\ ent'[conns].rt = ent[conns].rt /\ ent'[conns].timer = ent[conns].timer
      \/ rest = {} /\ conns' = NoEntry
  <2>1. CASE rest = {}
    BY <2>1 DEF ReleaseConnectionEntry
  <2>2. CASE rest # {}
    <3>1. ent' = [ent EXCEPT ![conns].clients = rest] /\ conns' = conns
      BY <2>2 DEF ReleaseConnectionEntry
    <3> HIDE DEF rest
    <3> QED
      BY <1>0, <3>1 DEF Ents
  <2> QED
    BY <2>1, <2>2
<1>4. \A x \in open' : IsClient(x) /\ x # s =>
          /\ IsClient(x)' /\ conns' = conns /\ ent'[conns].attached = ent[conns].attached
          /\ ent'[conns].timer = ent[conns].timer
  BY <1>3 DEF IsClient
<1>5. \A x \in open' : x \in open /\ ((told'[x] = told[x] /\ x # s) \/ told'[x] \notin Claims)
  BY <1>0, <1>1
<1>6. ASSUME slips' = {} PROVE Listening' /\ \A x \in open' : ServedFor(x)'
  <2>1. Listening /\ \A x \in open : ServedFor(x)
    BY <1>6 DEF ToldInv, ServedOK
  <2>2. Listening'
    BY <1>3, <2>1, ListeningStays
  <2>3. ASSUME NEW x \in open', told'[x] \in {"connected", "reconnected"} PROVE (IsClient(x) /\ ent[conns].attached)'
    <3>1. x \in open /\ told'[x] = told[x] /\ x # s
      BY <1>5, <2>3 DEF Claims
    <3>2. IsClient(x) /\ ent[conns].attached
      BY <2>1, <2>3, <3>1 DEF ServedFor
    <3> QED
      BY <1>4, <3>1, <3>2
  <2> QED
    BY <2>2, <2>3 DEF ServedFor
<1>7. ASSUME "dropped" \notin slips', NEW x \in open', told'[x] = "reconnecting" PROVE (IsClient(x) /\ RetryAhead)'
  <2>1. x \in open /\ told'[x] = told[x] /\ x # s
    BY <1>5, <1>7 DEF Claims
  <2>2. IsClient(x) /\ RetryAhead
    BY <1>7, <2>1 DEF ToldInv, RetryOK, RetryFor
  <2> QED
    BY <1>4, <2>1, <2>2 DEF RetryAhead
<1> QED
  BY <1>2, <1>6, <1>7 DEF ToldInv, ServedOK, RetryOK, RetryFor

\* handleConnectionClose: whoever was told of the entry is told that it ended.
LEMMA ClosingTold ==
    ASSUME TypeInv, ToldInv, NEW g, NEW hears, HandleConnectionClose(g, hears),
           \A s \in Sockets : hears[s] = told[s] \/ (s \in open /\ hears[s] \notin Claims),
           UNCHANGED <<open, slips>>
    PROVE  ToldInv'
<1>0. open \subseteq Sockets /\ ent \in [Entries -> Ents]
  BY DEF TypeInv, SocketsOK, EntriesOK
<1>1. CASE conns = NoEntry
  <2>1. told' = hears /\ conns' = NoEntry
    BY <1>1 DEF HandleConnectionClose
  <2>2. ClosedOK'
    BY <2>1 DEF ToldInv, ClosedOK
  <2>3. slips' = {} => Listening' /\ \A s \in open' : ServedFor(s)'
    BY <1>0, <1>1, <2>1 DEF ToldInv, ServedOK, Listening, ServedFor, IsClient, Claims
  <2>4. "dropped" \notin slips' => \A s \in open' : RetryFor(s)'
    BY <1>0, <1>1, <2>1 DEF ToldInv, RetryOK, RetryFor, IsClient, Claims
  <2> QED
    BY <2>2, <2>3, <2>4 DEF ToldInv, ServedOK, RetryOK
<1>2. CASE conns # NoEntry
  <2> DEFINE c == ent[conns]
  <2>0. conns \in Entries /\ c \in Ents
    BY <1>0, <1>2, EntryRuntime
  <2>1. CASE c.clients # {} /\ c.attempts < MaxRetries
    <3>1. /\ ent' = [ent EXCEPT ![conns] = [c EXCEPT !.attached = FALSE, !.attempts = @ + 1, !.timer = TRUE]]
          /\ told' = Tell(hears, c.clients, "reconnecting") /\ conns' = conns
      BY <1>2, <2>1 DEF HandleConnectionClose
    <3>2. ent'[conns].clients = c.clients /\ ~ent'[conns].attached /\ ent'[conns].timer
      BY <1>0, <2>0, <3>1 DEF Ents
    <3>3. \A s \in Sockets : told'[s] = IF s \in c.clients /\ s \in open THEN "reconnecting" ELSE hears[s]
      BY <3>1, TellIs
    <3> HIDE DEF c
    <3>4. ClosedOK'
      BY <3>3 DEF ToldInv, ClosedOK
    <3>5. slips' = {} => Listening' /\ \A s \in open' : ServedFor(s)'
      BY <1>0, <3>1, <3>2, <3>3 DEF ToldInv, ServedOK, Listening, ServedFor, IsClient, Claims, c
    <3>6. "dropped" \notin slips' => \A s \in open' : RetryFor(s)'
      BY <1>0, <1>2, <3>1, <3>2, <3>3 DEF ToldInv, RetryOK, RetryFor, IsClient, RetryAhead, Claims, c
    <3> QED
      BY <3>4, <3>5, <3>6 DEF ToldInv, ServedOK, RetryOK
  <2>2. CASE ~(c.clients # {} /\ c.attempts < MaxRetries)
    <3>1. told' = Tell(hears, c.clients, "disconnected") /\ conns' = NoEntry
      BY <1>2, <2>2 DEF HandleConnectionClose
    <3>2. \A s \in Sockets : told'[s] = IF s \in c.clients /\ s \in open THEN "disconnected" ELSE hears[s]
      BY <3>1, TellIs
    <3>3. ClosedOK'
      BY <3>2 DEF ToldInv, ClosedOK
    <3>4. slips' = {} => Listening' /\ \A s \in open' : ServedFor(s)'
      BY <1>0, <3>1, <3>2 DEF ToldInv, ServedOK, Listening, ServedFor, IsClient, Claims
    <3>5. "dropped" \notin slips' => \A s \in open' : RetryFor(s)'
      BY <1>0, <3>1, <3>2 DEF ToldInv, RetryOK, RetryFor, IsClient, Claims
    <3> QED
      BY <3>3, <3>4, <3>5 DEF ToldInv, ServedOK, RetryOK
  <2> QED
    BY <2>1, <2>2
<1> QED
  BY <1>1, <1>2

LEMMA SocketsTold ==
    ASSUME TypeInv, LifeInv, ToldInv, NEW s \in Sockets,
           HandleOpen(s) \/ HandleClose(s) \/ HandleDeviceConnect(s) \/ HandleDeviceDisconnect(s)
    PROVE  ToldInv'
<1>0. /\ Goes(reg, reg') /\ notices = {} /\ notices' = notices /\ slips \subseteq slips' /\ retries' = retries
      /\ open \subseteq Sockets /\ "nothing" \in Tidings /\ "left" \in Tidings
      /\ "nothing" \notin Claims /\ "left" \notin Claims
  <2>1. Goes(reg, reg')
    BY SocketsGo
  <2>2. notices = {} /\ notices' = notices /\ retries' = retries
    BY DEF HandleOpen, HandleClose, HandleDeviceConnect, HandleDeviceDisconnect, Quiet
  <2>3. slips \subseteq slips'
    BY DEF HandleOpen, HandleClose, HandleDeviceConnect, HandleDeviceDisconnect, JoinEntry, AwaitCreation, StartCreation
  <2> QED
    BY <2>1, <2>2, <2>3 DEF TypeInv, SocketsOK, Tidings, Claims
<1>c. \A x \in Sockets : x \notin open => told[x] = "nothing"
  BY DEF ToldInv, ClosedOK
<1>1. CASE HandleOpen(s)
  <2>1. UNCHANGED <<conns, ent, retries, told>> /\ open' = open \cup {s}
    BY <1>1 DEF HandleOpen
  <2> QED
    BY <1>0, <1>c, <2>1, ToldStands
<1>2. CASE HandleClose(s)
  <2>1. s \in open /\ told' = Tell(told, {s}, "nothing") /\ open' = open \ {s} /\ slips' = slips
    BY <1>2 DEF HandleClose
  <2>2. \A x \in Sockets : told'[x] = IF x = s THEN "nothing" ELSE told[x]
    BY <2>1, TellIs
  <2>3. CASE UNCHANGED <<ent, reg, conns>>
    BY <1>0, <1>c, <2>1, <2>2, <2>3, ToldStands
  <2>4. CASE conns # NoEntry /\ ReleaseConnectionEntry(ent[conns].clients \ {s})
    BY <1>0, <2>1, <2>4, LeavingTold
  <2> QED
    BY <1>2, <2>3, <2>4 DEF HandleClose
<1>3. CASE HandleDeviceDisconnect(s)
  <2>1. s \in open /\ told' = Tell(told, {s}, "left") /\ open' = open /\ slips' = slips
    BY <1>3 DEF HandleDeviceDisconnect
  <2>2. \A x \in Sockets : told'[x] = IF x = s THEN "left" ELSE told[x]
    BY <2>1, TellIs
  <2>3. CASE UNCHANGED <<ent, reg, conns>>
    BY <1>0, <1>c, <2>1, <2>2, <2>3, ToldStands
  <2>4. CASE conns # NoEntry /\ ReleaseConnectionEntry(ent[conns].clients \ {s})
    BY <1>0, <2>1, <2>4, LeavingTold
  <2> QED
    BY <1>3, <2>3, <2>4 DEF HandleDeviceDisconnect
<1>4. CASE HandleDeviceConnect(s)
  <2>0. s \in open /\ open' = open /\ conns' = conns
    BY <1>4 DEF HandleDeviceConnect
  <2>1. CASE AwaitCreation(s) \/ StartCreation(s)
    <3>1. told' = Tell(told, {s}, "nothing") /\ ent' = ent
      BY <2>1 DEF AwaitCreation, StartCreation
    <3>2. \A x \in Sockets : told'[x] = IF x = s THEN "nothing" ELSE told[x]
      BY <2>0, <3>1, TellIs
    <3> QED
      BY <1>0, <1>c, <2>0, <3>1, <3>2, ToldStands
  <2>2. CASE JoinEntry(s)
    <3>1. /\ conns # NoEntry /\ ent' = [ent EXCEPT ![conns].clients = @ \cup {s}]
          /\ told' = Tell(told, {s}, "connected") /\ (slips' = {} => ent[conns].attached)
      BY <2>2 DEF JoinEntry
    <3>2. \A x \in Sockets : told'[x] = IF x = s THEN "connected" ELSE told[x]
      BY <2>0, <3>1, TellIs
    <3>3. /\ ent'[conns].clients = ent[conns].clients \cup {s} /\ ent'[conns].attached = ent[conns].attached
          /\ ent'[conns].rt = ent[conns].rt /\ ent'[conns].timer = ent[conns].timer
      <4>1. conns \in Entries /\ ent[conns] \in Ents /\ ent \in [Entries -> Ents]
        BY <3>1, EntryRuntime DEF TypeInv, EntriesOK
      <4> QED
        BY <3>1, <4>1 DEF Ents
    <3>4. ClosedOK'
      BY <1>c, <2>0, <3>2 DEF ClosedOK
    <3>5. slips' = {} => Listening' /\ \A x \in open' : ServedFor(x)'
      <4> SUFFICES ASSUME slips' = {} PROVE Listening' /\ \A x \in open' : ServedFor(x)'
        OBVIOUS
      <4>1. Listening /\ \A x \in open : ServedFor(x)
        BY <1>0 DEF ToldInv, ServedOK
      <4>2. Listening'
        BY <1>0, <2>0, <3>3, <4>1, ListeningStays
      <4> QED
        BY <1>0, <2>0, <3>1, <3>2, <3>3, <4>1, <4>2 DEF ServedFor, IsClient
    <3>6. "dropped" \notin slips' => \A x \in open' : RetryFor(x)'
      BY <1>0, <2>0, <3>1, <3>2, <3>3 DEF ToldInv, RetryOK, RetryFor, IsClient, RetryAhead
    <3> QED
      BY <3>4, <3>5, <3>6 DEF ToldInv, ServedOK, RetryOK
  <2> QED
    BY <1>4, <2>1, <2>2 DEF HandleDeviceConnect
<1> QED
  BY <1>1, <1>2, <1>3, <1>4

\* An entry comes into `connections', and its clients are told.
LEMMA ReplacingTold ==
    ASSUME TypeInv, ToldInv, NEW e \in Entries, NEW new \in Ents, new.attached, Replaces(e, new),
           reg' = reg, reg.promise[new.rt] = "ok", NEW what \in Claims, what # "reconnecting",
           told' = Tell(told, new.clients, what), UNCHANGED open,
           conns = e => new.clients = ent[e].clients
    PROVE  ToldInv'
<1>0. /\ conns' = e /\ e # NoEntry /\ ent'[e] = new /\ slips \subseteq slips' /\ open \subseteq Sockets
      /\ "dropped" \notin slips' => conns = NoEntry \/ (conns = e /\ ~ent[e].attached)
      /\ "misled" \notin slips' => reg.life[new.rt] # "lost"
  BY HoldersAssumption DEF Replaces, TypeInv, SocketsOK, EntriesOK, Terminated
<1>1. \A s \in Sockets : told'[s] = IF s \in new.clients /\ s \in open THEN what ELSE told[s]
  BY TellIs
<1>2. ClosedOK'
  BY <1>1 DEF ToldInv, ClosedOK
<1>3. ASSUME slips' = {} PROVE Listening' /\ \A s \in open' : ServedFor(s)'
  <2>1. conns = NoEntry \/ (conns = e /\ ~ent[e].attached)
    BY <1>0, <1>3
  <2>2. Listening'
    BY <1>0, <1>3 DEF Listening
  <2>3. \A s \in open : ServedFor(s)
    BY <1>0, <1>3 DEF ToldInv, ServedOK
  <2>4. ASSUME NEW s \in open, told'[s] \in {"connected", "reconnected"} PROVE s \in new.clients
    BY <1>0, <1>1, <2>1, <2>3, <2>4 DEF ServedFor, IsClient
  <2> QED
    BY <1>0, <2>2, <2>4 DEF ServedFor, IsClient
<1>4. ASSUME "dropped" \notin slips', NEW s \in open, told'[s] = "reconnecting" PROVE FALSE
  <2>1. told[s] = "reconnecting" /\ s \notin new.clients
    BY <1>0, <1>1, <1>4
  <2>2. RetryFor(s)
    BY <1>0, <1>4 DEF ToldInv, RetryOK
  <2> QED
    BY <1>0, <1>4, <2>1, <2>2 DEF RetryFor, IsClient
<1> QED
  BY <1>2, <1>3, <1>4 DEF ToldInv, ServedOK, RetryOK, RetryFor

LEMMA CreationTold ==
    ASSUME TypeInv, LifeInv, ToldInv, CreationSettles
    PROVE  ToldInv'
<1>0. open' = open /\ notices' = notices /\ retries' = retries /\ create.rt \in Runtimes /\ open \subseteq Sockets
  BY RuntimesAre DEF CreationSettles, TypeInv, SocketsOK
<1>1. CASE reg.promise[create.rt] = "ok"
  <2>1. PICK e \in Unused : Replaces(e, [NewEntry EXCEPT !.rt = create.rt, !.attached = TRUE, !.clients = create.waiting])
    BY <1>1 DEF CreationSettles
  <2> DEFINE new == [NewEntry EXCEPT !.rt = create.rt, !.attached = TRUE, !.clients = create.waiting]
  <2>2. new \in Ents /\ new.attached /\ new.rt = create.rt /\ new.clients = create.waiting
    BY NewEntryFits DEF Ents, TypeInv, SocketsOK
  <2>3. told' = Tell(told, new.clients, "connected") /\ reg' = reg
    BY <1>1, <2>2 DEF CreationSettles
  <2>4. e \in Entries /\ e # conns /\ "connected" \in Claims
    BY <2>1 DEF Unused, Claims
  <2>5. Replaces(e, new)
    BY <2>1
  <2> HIDE DEF new
  <2> QED
    BY <1>0, <1>1, <2>2, <2>3, <2>4, <2>5, ReplacingTold
<1>2. CASE reg.promise[create.rt] # "ok"
  <2>1. told' = Tell(told, create.first, "error") /\ UNCHANGED <<conns, ent, slips>>
    BY <1>2 DEF CreationSettles
  <2>2. \A s \in Sockets : told'[s] = IF s \in create.first \cap open THEN "error" ELSE told[s]
    BY <2>1, TellIs
  <2>3. \A s \in Sockets : (s \in open /\ told'[s] = told[s]) \/ told'[s] \notin Claims
    BY <2>2 DEF ToldInv, ClosedOK, Claims
  <2>4. Goes(reg, reg')
    BY ServerGoes
  <2>5. \A s \in Sockets : s \notin open' => told'[s] = "nothing"
    BY <1>0, <2>2 DEF ToldInv, ClosedOK
  <2> QED
    BY <1>0, <2>1, <2>3, <2>4, <2>5, ToldStands
<1> QED
  BY <1>1, <1>2

LEMMA TimerTold ==
    ASSUME TypeInv, LifeInv, ToldInv, ReconnectTimerFires
    PROVE  ToldInv'
<1>0. /\ UNCHANGED <<open, told, conns, notices, slips>> /\ conns # NoEntry
      /\ ent' = [ent EXCEPT ![conns].timer = FALSE]
      /\ ent[conns].clients = {} \/ \E s \in ent[conns].clients : [ent |-> conns, rt |-> reg'.current, first |-> s] \in retries'
  BY DEF ReconnectTimerFires
<1>1. conns \in Entries /\ ent[conns] \in Ents /\ ent \in [Entries -> Ents]
  BY <1>0, EntryRuntime DEF TypeInv, EntriesOK
<1>2. ent'[conns].clients = ent[conns].clients /\ ent'[conns].attached = ent[conns].attached /\ ent'[conns].rt = ent[conns].rt
  BY <1>0, <1>1 DEF Ents
<1>3. ClosedOK'
  BY <1>0 DEF ToldInv, ClosedOK
<1>4. ASSUME slips' = {} PROVE Listening' /\ \A s \in open' : ServedFor(s)'
  <2>1. Listening /\ \A s \in open : ServedFor(s)
    BY <1>0, <1>4 DEF ToldInv, ServedOK
  <2>2. Listening'
    BY <1>0, <1>2, <2>1, ServerGoes, ListeningStays
  <2> QED
    BY <1>0, <1>2, <2>1, <2>2 DEF ServedFor, IsClient
<1>5. ASSUME "dropped" \notin slips', NEW s \in open, told'[s] = "reconnecting" PROVE (IsClient(s) /\ RetryAhead)'
  <2>1. IsClient(s)
    BY <1>0, <1>5 DEF ToldInv, RetryOK, RetryFor
  <2>2. \E j \in retries' : j.ent = conns
    BY <1>0, <2>1 DEF IsClient
  <2> QED
    BY <1>0, <1>2, <2>1, <2>2 DEF IsClient, RetryAhead
<1> QED
  BY <1>0, <1>3, <1>4, <1>5 DEF ToldInv, ServedOK, RetryOK, RetryFor

LEMMA RetryTold ==
    ASSUME TypeInv, LifeInv, ToldInv, NEW j \in retries, RetrySettles(j)
    PROVE  ToldInv'
<1>0. /\ open' = open /\ notices' = notices /\ retries' = retries \ {j} /\ j.ent \in Entries /\ j.rt \in Runtimes
      /\ open \subseteq Sockets /\ ent \in [Entries -> Ents]
  BY DEF RetrySettles, TypeInv, SocketsOK, EntriesOK
<1>1. CASE reg.promise[j.rt] = "ok"
  <2> DEFINE new == [ent[j.ent] EXCEPT !.rt = j.rt, !.attached = TRUE, !.timer = FALSE]
  <2>1. Replaces(j.ent, new) /\ told' = Tell(told, ent[j.ent].clients, "reconnected") /\ reg' = reg
    BY <1>1 DEF RetrySettles
  <2>2. new \in Ents /\ new.attached /\ new.rt = j.rt /\ new.clients = ent[j.ent].clients
    BY <1>0, RuntimesAre DEF Ents
  <2>3. "reconnected" \in Claims
    BY DEF Claims
  <2> HIDE DEF new
  <2> QED
    BY <1>0, <1>1, <2>1, <2>2, <2>3, ReplacingTold
<1>2. CASE reg.promise[j.rt] # "ok"
  <2> DEFINE g == Release(reg, j.rt)
             hears == Tell(told, {j.first}, "error")
  <2>1. RetryFails(j.ent, g, hears) /\ slips' = slips
    BY <1>2 DEF RetrySettles
  <2>2. \A s \in Sockets : hears[s] = IF s \in {j.first} \cap open THEN "error" ELSE told[s]
    BY TellIs
  <2>3. \A s \in Sockets : hears[s] = told[s] \/ (s \in open /\ hears[s] \notin Claims)
    BY <2>2 DEF Claims
  <2> HIDE DEF g, hears
  <2>4. CASE HandleConnectionClose(g, hears)
    BY <1>0, <2>1, <2>3, <2>4, ClosingTold
  <2>5. CASE ~HandleConnectionClose(g, hears)
    <3>1. told' = Tell(hears, ent[j.ent].clients, "reconnect_failed") /\ UNCHANGED <<conns, ent>>
      BY <2>1, <2>5 DEF RetryFails
    <3>2. \A s \in Sockets : told'[s] = IF s \in ent[j.ent].clients /\ s \in open THEN "reconnect_failed" ELSE hears[s]
      BY <3>1, TellIs
    <3>3. \A s \in open : told'[s] \in Claims => told'[s] = told[s] /\ s \notin ent[j.ent].clients
      BY <1>0, <2>3, <3>2 DEF Claims
    <3>4. ClosedOK'
      BY <1>0, <2>3, <3>2 DEF ToldInv, ClosedOK
    <3>5. ASSUME slips' = {} PROVE Listening' /\ \A s \in open' : ServedFor(s)'
      <4>1. Listening /\ \A s \in open : ServedFor(s)
        BY <2>1, <3>5 DEF ToldInv, ServedOK
      <4>2. Listening'
        BY <1>0, <3>1, <4>1, ServerGoes, ListeningStays
      <4> QED
        BY <1>0, <3>1, <3>3, <4>1, <4>2 DEF ServedFor, IsClient, Claims
    <3>6. ASSUME "dropped" \notin slips', NEW s \in open, told'[s] = "reconnecting" PROVE (IsClient(s) /\ RetryAhead)'
      <4>1. told[s] = "reconnecting" /\ s \notin ent[j.ent].clients
        BY <3>3, <3>6 DEF Claims
      <4>2. IsClient(s) /\ RetryAhead
        BY <2>1, <3>6, <4>1 DEF ToldInv, RetryOK, RetryFor
      <4>3. conns # j.ent
        BY <4>1, <4>2 DEF IsClient
      <4> QED
        BY <1>0, <3>1, <4>2, <4>3 DEF IsClient, RetryAhead
    <3> QED
      BY <1>0, <3>4, <3>5, <3>6 DEF ToldInv, ServedOK, RetryOK, RetryFor
  <2> QED
    BY <2>4, <2>5
<1> QED
  BY <1>1, <1>2

\* The end of a runtime calls the listener of its entry.
LEMMA EndingTold ==
    ASSUME TypeInv, LifeInv, ToldInv, NEW r \in Runtimes, ConnectSettles(r) \/ RuntimeEnds(r)
    PROVE  ToldInv'
<1>0. UNCHANGED <<open, told, conns, ent, retries, slips>> /\ notices = {}
  BY DEF ConnectSettles, RuntimeEnds, ws, pushing, Quiet
<1>1. ClosedOK' /\ RetryOK'
  BY <1>0 DEF ToldInv, ClosedOK, RetryOK, RetryFor, IsClient, RetryAhead
<1>2. ASSUME slips = {} PROVE Listening' /\ \A s \in open : ServedFor(s)'
  <2>1. Listening /\ \A s \in open : ServedFor(s)
    BY <1>2 DEF ToldInv, ServedOK
  <2>2. ASSUME conns # NoEntry, ent[conns].attached
        PROVE  /\ reg'.promise[ent[conns].rt] = "ok"
               /\ reg'.life[ent[conns].rt] = "lost" => <<"entry", 0, 0>> \in notices'
    <3> DEFINE q == ent[conns].rt
    <3>1. q \in Runtimes /\ conns \in Entries /\ reg.promise[q] = "ok" /\ reg.life[q] # "lost"
      BY <1>0, <2>1, <2>2, EntryRuntime DEF Listening
    <3>2. CASE q # r
      BY <3>1, <3>2, EndingIs
    <3>3. CASE q = r
      <4>1. reg.life[r] = "up" /\ RuntimeEnds(r)
        <5>1. RuntimeEnds(r) /\ reg.life[r] \in {"connecting", "up"}
          BY <3>1, <3>3 DEF ConnectSettles, RuntimeEnds
        <5>2. reg.life[r] # "connecting"
          BY <3>1, <3>3 DEF LifeInv, LivesMatch
        <5> QED
          BY <5>1, <5>2
      <4>2. reg' = Lose(reg, r) /\ notices' = Listeners(r)
        BY <4>1 DEF RuntimeEnds
      <4>3. reg'.promise = reg.promise
        BY <4>2 DEF Lose, TypeInv, RegistryOK, Registries
      <4>4. <<"entry", 0, 0>> \in Listeners(r)
        BY <2>2, <3>1, <3>3 DEF Listeners
      <4> QED
        BY <3>1, <3>3, <4>2, <4>3, <4>4
    <3> QED
      BY <3>2, <3>3
  <2> QED
    BY <1>0, <2>1, <2>2 DEF Listening, ServedFor, IsClient
<1> QED
  BY <1>0, <1>1, <1>2 DEF ToldInv, ServedOK

LEMMA NextTold == TypeInv /\ LifeInv /\ ToldInv /\ [Next]_vars => ToldInv'
<1> SUFFICES ASSUME TypeInv, LifeInv, ToldInv, [Next]_vars PROVE ToldInv'
  OBVIOUS
<1>0. /\ slips \subseteq slips' /\ open \subseteq Sockets
      /\ \A s \in Sockets : s \notin open => told[s] = "nothing"
      /\ "nothing" \notin Claims
  BY SlipsGrow DEF TypeInv, SocketsOK, ToldInv, ClosedOK, Claims
<1>1. ASSUME UNCHANGED <<open, told, conns, ent, retries>>, Goes(reg, reg'),
             <<"entry", 0, 0>> \in notices => <<"entry", 0, 0>> \in notices'
      PROVE  ToldInv'
  <2>1. \A s \in Sockets : (s \in open /\ told'[s] = told[s]) \/ told'[s] \notin Claims
    BY <1>0, <1>1
  <2> QED
    BY <1>0, <1>1, <2>1, ToldStands
<1>2. CASE UNCHANGED vars
  BY <1>1, <1>2 DEF vars, ws, Goes
<1>3. ASSUME NEW s \in Sockets, HandleOpen(s) \/ HandleClose(s) \/ HandleDeviceConnect(s) \/ HandleDeviceDisconnect(s)
      PROVE  ToldInv'
  BY <1>3, SocketsTold
<1>4. CASE CreationSettles \/ ReconnectTimerFires
  BY <1>4, CreationTold, TimerTold
<1>5. CASE WsHearsEnd
  <2>1. HandleConnectionClose(reg, told) /\ UNCHANGED <<open, slips>>
    BY <1>5 DEF WsHearsEnd
  <2> QED
    BY <2>1, ClosingTold
<1>6. ASSUME NEW j \in retries, RetrySettles(j) PROVE ToldInv'
  BY <1>6, RetryTold
<1>7. CASE PushUpsert \/ PushReconnect \/ PushRemove \/ PushTimerFires \/ \E j \in pushJobs : PushConnectSettles(j) \/ PushAlertSent(j)
  <2>1. UNCHANGED <<open, told, conns, ent, retries, notices>>
    BY <1>7 DEF PushUpsert, PushReconnect, PushRemove, PushTimerFires, PushConnectSettles, PushAlertSent, ws
  <2> QED
    BY <1>1, <1>7, <2>1, PushGoes
<1>8. CASE PushHearsEnd
  <2>1. PICK n \in notices : n[1] = "push" /\ notices' = notices \ {n} /\ UNCHANGED ws
    BY <1>8 DEF PushHearsEnd
  <2>2. n # <<"entry", 0, 0>>
    BY <2>1
  <2> QED
    BY <1>1, <1>8, <2>1, <2>2, PushGoes DEF ws
<1>9. ASSUME NEW b \in Borrowers, Borrow(b) \/ GiveBack(b) PROVE ToldInv'
  <2>1. UNCHANGED <<open, told, conns, ent, retries, notices>>
    BY <1>9 DEF Borrow, GiveBack, ws
  <2> QED
    BY <1>1, <1>9, <2>1, BorrowersGo
<1>10. ASSUME NEW r \in Runtimes, ConnectSettles(r) \/ RuntimeEnds(r) PROVE ToldInv'
  BY <1>10, EndingTold
<1>11. CASE Next
  BY <1>3, <1>4, <1>5, <1>6, <1>7, <1>8, <1>9, <1>10, <1>11 DEF Next
<1> QED
  BY <1>2, <1>11

-----------------------------------------------------------------------------
(* Theorems                                                                *)

\* The device never has two live runtimes, and the live one is the one that
\* acquire() hands out: however often runtimes die, are replaced and are
\* released late, twice or not at all (runtime-registry.ts).
THEOREM OneRuntimeAlways == Spec => []OneRuntime
<1>1. Init => RegInv
  BY InitRegistry DEF Init, RegInv
<1>2. RegInv => OneRuntime
  BY DEF RegInv, RegistryOK, OnlyCurrentLives, OneRuntime
<1> QED
  BY <1>1, <1>2, NextRegistry, PTL DEF Spec

\* Every variable keeps its type; only the entry in `connections' has a reconnect
\* timer, and then no listener; sockets wait only for a creation under way.
THEOREM HoldersTypes == Spec => []HoldersTypeOK
<1>1. HoldersInv => HoldersTypeOK
  BY DEF HoldersInv, TypeInv, RegistryOK, SocketsOK, EntriesOK, Ents, PushOK, LoansOK, HoldersTypeOK
<1> QED
  BY <1>1, HoldersInvariant, PTL

\* refCount of a live runtime is the number of those that hold it, whoever acquires,
\* is overtaken while it waits for connect(), or releases what has died: no
\* reference is lost or given back twice, until the supervisor has done so
\* (push/supervisor.ts, connectEntry after a teardown).
THEOREM RefsAreHolders == Spec => []CountsAreHolders
<1>1. HoldersInv => CountsAreHolders
  <2> SUFFICES ASSUME HoldersInv, "stolen" \notin slips, NEW r \in Runtimes, Alive(reg, r)
               PROVE  reg.refs[r] = Cardinality(Holders(r))
    BY DEF CountsAreHolders
  <2>1. TypeInv /\ HeldBy(reg, r, Held(r))
    BY DEF HoldersInv, SoundInv, Sound, CountsOK
  <2>2. Cardinality(Holders(r)) = Held(r)
    BY <2>1, HoldersAreHeld
  <2> QED
    BY <2>1, <2>2 DEF HeldBy
<1> QED
  BY <1>1, HoldersInvariant, PTL

\* The registry shuts a runtime down only when nobody holds it any more: no
\* socket, request, agent run or alert is left with one that was shut under it,
\* until the supervisor has released a live runtime twice.
THEOREM OnlyTheUnheldAreShut == Spec => []ShutWhenUnheldOrStolen
<1>1. HoldersInv => ShutWhenUnheldOrStolen
  <2> SUFFICES ASSUME HoldersInv, "stolen" \notin slips, NEW r \in Runtimes, reg.life[r] = "shut"
               PROVE  Holders(r) = {}
    BY DEF ShutWhenUnheldOrStolen, ShutWhenUnheld
  <2>1. TypeInv /\ HeldBy(reg, r, Held(r))
    BY DEF HoldersInv, SoundInv, Sound, CountsOK
  <2>2. Cardinality(Holders(r)) = 0 /\ IsFiniteSet(Holders(r))
    BY <2>1, HoldersAreHeld DEF HeldBy
  <2> QED
    BY <2>2, FS_EmptySet
<1> QED
  BY <1>1, HoldersInvariant, PTL

\* The supervisor never gives up on a device: its entry listens to a live runtime,
\* is connecting or alerting, or waits for its reconnect timer.  Two histories are
\* excepted and no other: a live runtime was released twice, or an older connect
\* cleared the newer one's runtime and no reconnect has been scheduled since
\* (push/supervisor.ts, connectEntry).
THEOREM PushStaysAwake == Spec => []PushNeverSleeps
<1>1. HoldersInv => PushNeverSleeps
  <2> SUFFICES ASSUME HoldersInv, Quiet, push.is = "on", "stolen" \notin slips,
                      ~silenced, ~push.timer,
                      ~(push.rt # 0 /\ Alive(reg, push.rt))
               PROVE  \E j \in pushJobs : j.own
    BY DEF PushNeverSleeps
  <2>1. AwakeOK /\ notices = {}
    BY DEF HoldersInv, SoundInv, Sound, Quiet
  <2>2. push.rt # 0
    BY <2>1 DEF AwakeOK
  <2> QED
    BY <2>1, <2>2 DEF AwakeOK, Own
<1> QED
  BY <1>1, HoldersInvariant, PTL

\* What a socket was last told of its device is true: told that it is connected,
\* it is a client of the entry, and the entry listens to a live runtime; told
\* that the device is reconnecting, it is a client of an entry whose timer is
\* armed or whose retry is under way.  So it is however connects, disconnects,
\* retries, ends of the runtime and closed sockets come in between, unless an
\* entry was replaced or a runtime ended during the creation (ws/index.ts,
\* handleDeviceConnect, handleConnectionClose).
THEOREM TidingsAreTrue == Spec => []ToldIsTrue
<1>1. Init => ToldInv
  BY DEF Init, ToldInv, ClosedOK, ServedOK, RetryOK, Listening
<1>2. HoldersInv /\ ToldInv /\ [Next]_vars => ToldInv'
  BY NextTold DEF HoldersInv
<1>3. HoldersInv /\ ToldInv => ToldIsTrue
  <2> SUFFICES ASSUME HoldersInv, ToldInv, Quiet PROVE ToldIsTrue
    BY DEF ToldIsTrue, ConnectedIsServed, RetryIsUnderWay
  <2>1. RetryIsUnderWay
    BY DEF ToldInv, RetryOK, RetryFor, IsClient, RetryAhead, RetryIsUnderWay
  <2>2. ASSUME slips = {}, NEW s \in open, told[s] \in {"connected", "reconnected"}
        PROVE  IsClient(s) /\ ent[conns].attached /\ Alive(reg, ent[conns].rt)
    <3>1. IsClient(s) /\ ent[conns].attached /\ reg.life[ent[conns].rt] # "lost"
      BY <2>2 DEF ToldInv, ServedOK, ServedFor, Listening, IsClient, Quiet
    <3>2. PICK r \in Runtimes : r = ent[conns].rt
      BY <3>1, EntryRuntime DEF HoldersInv, IsClient
    <3>3. HeldBy(reg, r, Held(r)) /\ Held(r) # 0 /\ RegistryOK(reg)
      BY <2>2, <3>1, <3>2, EntryIsHeld DEF HoldersInv, SoundInv, Sound, CountsOK, TypeInv, IsClient
    <3> QED
      BY <3>1, <3>2, <3>3, HeldIsMade
  <2> QED
    BY <2>1, <2>2 DEF ToldIsTrue, ConnectedIsServed, IsClient
<1> QED
  BY <1>1, <1>2, <1>3, HoldersInvariant, PTL DEF Spec

=============================================================================

--------------------------- MODULE WatchRulesProofs ---------------------------
(***************************************************************************)
(* Theorems about WatchRules, for every set of rules of every kind, every  *)
(* set of values, every interval, threshold and bound.                     *)
(***************************************************************************)
EXTENDS WatchRules, RegistryProofs, FiniteSetTheorems

-----------------------------------------------------------------------------
(* What scheduling keeps true of the service's maps and samples            *)

Devices  == [on : BOOLEAN, rules : SUBSET Rules, rt : 0 .. MaxRuntimes]
Jobs     == [nth : {0, 1}, rt : Runtimes, own : BOOLEAN, adds : SUBSET Rules]
Services == [sched : SUBSET Rules, dev : Devices, jobs : SUBSET Jobs,
             ticks : SUBSET Ticks, reg : Registries]

\* The promises are told apart, and at most one is the device's own.
JobsOK(x) ==
    /\ \A i, j \in x.jobs : i.nth = j.nth => i = j
    /\ \A i, j \in x.jobs : i.own /\ j.own => i = j
    /\ \A j \in x.jobs : j.rt <= x.reg.made

\* The samples are told apart; a refresh waits only for one that was let go.
TicksOK(x) ==
    /\ \A t, u \in x.ticks : t.rule = u.rule /\ t.nth = u.nth => t = u
    /\ \A t \in x.ticks : t.live => ~t.refresh

\* A device entry has rules; it has a runtime, or connects one, or neither.
DeviceOK(x) ==
    /\ x.dev.on <=> x.dev.rules # {}
    /\ ~x.dev.on => x.dev.rt = 0 /\ \A j \in x.jobs : ~j.own
    /\ x.dev.rt # 0 => \A j \in x.jobs : ~j.own
    /\ x.dev.rt <= x.reg.made

\* Who holds runtime r, and that no more and no fewer are counted.
Waiting(J, r) == {j \in J : j.rt = r}
Counted(x) == \A r \in Runtimes : Alive(x.reg, r) =>
    x.reg.refs[r] = Cardinality(Waiting(x.jobs, r)) + (IF x.dev.rt = r THEN 1 ELSE 0)

ServiceOK(x) == /\ x \in Services /\ RegistryOK(x.reg)
                /\ JobsOK(x) /\ TicksOK(x) /\ DeviceOK(x) /\ Counted(x)

\* There are few promises.
LEMMA JobsAreFinite ==
    ASSUME NEW x, x \in Services, JobsOK(x), NEW r
    PROVE  IsFiniteSet(Waiting(x.jobs, r)) /\ Cardinality(Waiting(x.jobs, r)) \in Nat
<1> DEFINE J == x.jobs
           f == [j \in J |-> j.nth]
<1>1. f \in Injection(J, {0, 1})
  BY DEF Services, Jobs, JobsOK, Injection, IsInjective
<1>2. IsFiniteSet({0, 1})
  <2>1. {0, 1} = 0 .. 1
    OBVIOUS
  <2>2. 0 \in Int /\ 1 \in Int
    OBVIOUS
  <2>3. IsFiniteSet(0 .. 1)
    BY <2>2, FS_Interval, Zenon
  <2> QED
    BY <2>1, <2>3, Zenon
<1>3. IsFiniteSet(J)
  BY <1>1, <1>2, FS_Injection
<1>4. Waiting(J, r) \in SUBSET J
  BY DEF Waiting
<1> QED
  BY <1>3, <1>4, FS_Subset, FS_CardinalityType

LEMMA AddingFits ==
    ASSUME NEW x, ServiceOK(x), NEW ws \in SUBSET Rules
    PROVE  /\ ServiceOK(AddRules(x, ws))
           /\ AddRules(x, ws).sched = x.sched \cup ws
           /\ AddRules(x, ws).jobs = x.jobs /\ AddRules(x, ws).ticks = x.ticks
           /\ AddRules(x, ws).reg = x.reg /\ AddRules(x, ws).dev.rt = x.dev.rt
           /\ AddRules(x, ws).dev.rules = x.dev.rules \cup (ws \ x.sched)
<1>1. CASE ws \subseteq x.sched
  <2>1. AddRules(x, ws) = x
    BY <1>1 DEF AddRules
  <2>2. x.sched \cup ws = x.sched /\ x.dev.rules \cup (ws \ x.sched) = x.dev.rules
    BY <1>1
  <2> QED
    BY <2>1, <2>2
<1>2. CASE ~(ws \subseteq x.sched)
  <2> DEFINE d == [on |-> TRUE, rules |-> x.dev.rules \cup (ws \ x.sched), rt |-> x.dev.rt]
             y == AddRules(x, ws)
  <2>1. x \in Services /\ d \in Devices
    BY DEF ServiceOK, Services, Devices
  <2>2. y = [x EXCEPT !.sched = x.sched \cup ws, !.dev = d]
    BY <1>2, <2>1 DEF AddRules, Services, Devices
  <2>3. d.on /\ d.rules = x.dev.rules \cup (ws \ x.sched) /\ d.rt = x.dev.rt /\ d.rules # {}
    BY <1>2
  <2> HIDE DEF d, y
  <2>4. /\ y \in Services /\ y.sched = x.sched \cup ws /\ y.dev = d
        /\ y.jobs = x.jobs /\ y.ticks = x.ticks /\ y.reg = x.reg
    BY <2>1, <2>2 DEF Services
  <2>5. JobsOK(y) /\ TicksOK(y)
    BY <2>4 DEF ServiceOK, JobsOK, TicksOK
  <2>6. DeviceOK(y) /\ Counted(y)
    BY <2>3, <2>4 DEF ServiceOK, DeviceOK, Counted
  <2> QED
    BY <2>3, <2>4, <2>5, <2>6 DEF ServiceOK, y
<1> QED
  BY <1>1, <1>2

\* What becomes of a promise when its device entry is removed.
Orphaned(j, adds) == [j EXCEPT !.own = FALSE, !.adds = IF j.own THEN @ \cup adds ELSE @]

LEMMA OrphanedIsJob ==
    ASSUME NEW j \in Jobs, NEW adds \in SUBSET Rules
    PROVE  /\ Orphaned(j, adds) \in Jobs
           /\ Orphaned(j, adds).nth = j.nth /\ Orphaned(j, adds).rt = j.rt
           /\ ~Orphaned(j, adds).own
           /\ Orphaned(j, adds).adds = IF j.own THEN j.adds \cup adds ELSE j.adds
<1>1. (IF j.own THEN j.adds \cup adds ELSE j.adds) \in SUBSET Rules
  BY DEF Jobs
<1> QED
  BY <1>1 DEF Orphaned, Jobs

\* They still wait for the runtimes they waited for.
LEMMA OrphansAreAsMany ==
    ASSUME NEW x, x \in Services, JobsOK(x), NEW adds \in SUBSET Rules, NEW r
    PROVE  Cardinality(Waiting({Orphaned(j, adds) : j \in x.jobs}, r))
               = Cardinality(Waiting(x.jobs, r))
<1> DEFINE W == Waiting(x.jobs, r)
           V == Waiting({Orphaned(j, adds) : j \in x.jobs}, r)
           f == [j \in W |-> Orphaned(j, adds)]
<1>1. \A j \in x.jobs : Orphaned(j, adds).nth = j.nth /\ Orphaned(j, adds).rt = j.rt
  BY OrphanedIsJob DEF Services
<1>2. \A j \in W : j \in x.jobs /\ Orphaned(j, adds) \in V
  BY <1>1 DEF Waiting
<1>3. \A k \in V : \E j \in W : k = Orphaned(j, adds)
  BY <1>1 DEF Waiting
<1>4. \A i, j \in W : Orphaned(i, adds) = Orphaned(j, adds) => i = j
  <2> SUFFICES ASSUME NEW i \in x.jobs, NEW j \in x.jobs, Orphaned(i, adds) = Orphaned(j, adds)
               PROVE  i = j
    BY <1>2, Zenon
  <2>1. i.nth = j.nth
    BY <1>1
  <2> QED
    BY <2>1 DEF JobsOK
<1> HIDE DEF W, V
<1>5. f \in Bijection(W, V)
  BY <1>2, <1>3, <1>4 DEF Bijection, Injection, IsInjective, Surjection
<1>6. ExistsBijection(W, V)
  BY <1>5 DEF ExistsBijection
<1>7. IsFiniteSet(W)
  BY JobsAreFinite DEF W
<1> QED
  BY <1>6, <1>7, FS_Bijection DEF W, V

\* The device entry goes, with its last rule, or stays.
LastRef(x, w) == x.dev.on /\ x.dev.rules = {w}

\* What follows when it goes.
LEMMA DropsDevice ==
    ASSUME NEW x, ServiceOK(x), NEW w, NEW adds \in SUBSET Rules, LastRef(x, w)
    PROVE  LET y == RemoveDeviceRef(x, w, adds) IN
           /\ ServiceOK(y) /\ y.sched = x.sched /\ y.ticks = x.ticks /\ y.dev = NoDevice
           /\ y.jobs = {Orphaned(j, adds) : j \in x.jobs}
           /\ y.reg = IF x.dev.rt = 0 THEN x.reg ELSE Release(x.reg, x.dev.rt)
<1> DEFINE y == RemoveDeviceRef(x, w, adds)
           J == {Orphaned(j, adds) : j \in x.jobs}
           g == IF x.dev.rt = 0 THEN x.reg ELSE Release(x.reg, x.dev.rt)
<1>1. x \in Services /\ \A j \in x.jobs : j \in Jobs
  BY DEF ServiceOK, Services
<1>2. \A k \in J : /\ k \in Jobs /\ ~k.own
                  /\ \E j \in x.jobs : k = Orphaned(j, adds) /\ k.nth = j.nth /\ k.rt = j.rt
  <2> SUFFICES ASSUME NEW j \in x.jobs
               PROVE  /\ Orphaned(j, adds) \in Jobs /\ ~Orphaned(j, adds).own
                      /\ Orphaned(j, adds).nth = j.nth /\ Orphaned(j, adds).rt = j.rt
    BY Zenon
  <2> QED
    BY <1>1, OrphanedIsJob
<1>3. RegistryOK(g) /\ g.made = x.reg.made
  BY ReleaseKeepsRegistry DEF ServiceOK
<1>4. NoDevice \in Devices /\ NoDevice.on = FALSE /\ NoDevice.rules = {} /\ NoDevice.rt = 0
  BY MaxRuntimesAssumption DEF NoDevice, Devices
<1>5. y = [x EXCEPT !.dev = NoDevice, !.jobs = J, !.reg = g]
  BY <1>1 DEF RemoveDeviceRef, LastRef, Orphaned, Services
<1>6. x.reg.made \in Nat
  BY <1>1, MaxRuntimesAssumption DEF Services, Registries
<1> HIDE DEF J, g, y
<1>7. /\ y \in Services /\ y.sched = x.sched /\ y.ticks = x.ticks /\ y.dev = NoDevice
      /\ y.jobs = J /\ y.reg = g
  BY <1>1, <1>2, <1>3, <1>4, <1>5 DEF Services, RegistryOK
<1>8. JobsOK(y)
  <2>1. \A i, k \in J : i.nth = k.nth => i = k
    <3> SUFFICES ASSUME NEW i \in J, NEW k \in J, i.nth = k.nth PROVE i = k
      OBVIOUS
    <3>1. PICK a \in x.jobs : i = Orphaned(a, adds) /\ i.nth = a.nth
      BY <1>2
    <3>2. PICK b \in x.jobs : k = Orphaned(b, adds) /\ k.nth = b.nth
      BY <1>2
    <3>3. a = b
      BY <3>1, <3>2 DEF ServiceOK, JobsOK
    <3> QED
      BY <3>1, <3>2, <3>3
  <2>2. \A k \in J : ~k.own /\ k.rt <= x.reg.made
    BY <1>2 DEF ServiceOK, JobsOK
  <2> QED
    BY <1>3, <1>7, <2>1, <2>2 DEF JobsOK
<1>9. TicksOK(y)
  BY <1>7 DEF ServiceOK, TicksOK
<1>10. DeviceOK(y)
  BY <1>2, <1>3, <1>4, <1>6, <1>7 DEF DeviceOK
<1>11. Counted(y)
  <2> SUFFICES ASSUME NEW r \in Runtimes, Alive(g, r)
               PROVE  g.refs[r] = Cardinality(Waiting(J, r)) + (IF 0 = r THEN 1 ELSE 0)
    BY <1>4, <1>7 DEF Counted
  <2>1. r # 0 /\ r \in Int
    BY MaxRuntimesAssumption DEF Runtimes
  <2>2. Cardinality(Waiting(J, r)) = Cardinality(Waiting(x.jobs, r))
    <3>1. JobsOK(x)
      BY DEF ServiceOK
    <3> QED
      BY <1>1, <3>1, OrphansAreAsMany, Zenon DEF J
  <2>3. CASE x.dev.rt = 0
    BY <2>1, <2>2, <2>3 DEF ServiceOK, Counted, g
  <2>4. CASE x.dev.rt # 0
    <3>1. Alive(x.reg, r) /\ g.refs[r] = IF r = x.dev.rt THEN x.reg.refs[r] - 1 ELSE x.reg.refs[r]
      BY <2>4, ReleaseKeepsRegistry DEF ServiceOK, g, Lessened
    <3>2. x.reg.refs[r] = Cardinality(Waiting(x.jobs, r)) + (IF x.dev.rt = r THEN 1 ELSE 0)
      BY <3>1 DEF ServiceOK, Counted
    <3>3. Cardinality(Waiting(x.jobs, r)) \in Nat
      BY JobsAreFinite DEF ServiceOK
    <3> HIDE DEF g
    <3> QED
      BY <2>1, <2>2, <3>1, <3>2, <3>3
  <2> QED
    BY <2>3, <2>4
<1> QED
  BY <1>3, <1>7, <1>8, <1>9, <1>10, <1>11 DEF ServiceOK, J, g, y

LEMMA KeepsDevice ==
    ASSUME NEW x, ServiceOK(x), NEW w, NEW adds, ~LastRef(x, w)
    PROVE  LET y == RemoveDeviceRef(x, w, adds) IN
           /\ ServiceOK(y) /\ y.sched = x.sched /\ y.ticks = x.ticks
           /\ y.jobs = x.jobs /\ y.reg = x.reg
           /\ y.dev.on = x.dev.on /\ y.dev.rules = x.dev.rules \ {w} /\ y.dev.rt = x.dev.rt
<1> DEFINE y == RemoveDeviceRef(x, w, adds)
           d == [x.dev EXCEPT !.rules = x.dev.rules \ {w}]
<1>1. x \in Services /\ d \in Devices
  BY DEF ServiceOK, Services, Devices
<1>2. y = [x EXCEPT !.dev = d]
  BY <1>1 DEF RemoveDeviceRef, LastRef, Services, Devices
<1>3. d.on = x.dev.on /\ d.rules = x.dev.rules \ {w} /\ d.rt = x.dev.rt
  BY <1>1 DEF Services, Devices
<1> HIDE DEF d, y
<1>4. /\ y \in Services /\ y.sched = x.sched /\ y.ticks = x.ticks /\ y.dev = d
      /\ y.jobs = x.jobs /\ y.reg = x.reg
  BY <1>1, <1>2 DEF Services
<1>5. JobsOK(y) /\ TicksOK(y)
  BY <1>4 DEF ServiceOK, JobsOK, TicksOK
<1>6. DeviceOK(y) /\ Counted(y)
  BY <1>3, <1>4 DEF ServiceOK, DeviceOK, LastRef, Counted
<1> QED
  BY <1>3, <1>4, <1>5, <1>6 DEF ServiceOK, y

\* What becomes of a sample when rule w leaves the schedule.
LetGo(t, w, waits) == IF t.rule = w /\ t.live
                      THEN [t EXCEPT !.live = FALSE, !.refresh = waits] ELSE t

\* A rule that leaves the schedule, alone and with the rest of what goes with it.
LEMMA UnschedulingFits ==
    ASSUME NEW x, ServiceOK(x), NEW w \in Rules, NEW waits \in BOOLEAN
    PROVE  LET y == Unscheduled(x, w, waits) IN
           /\ ServiceOK(y) /\ y.sched = x.sched \ {w}
           /\ y.dev = x.dev /\ y.jobs = x.jobs /\ y.reg = x.reg
           /\ y.ticks = {LetGo(t, w, waits) : t \in x.ticks}
           /\ \A t \in x.ticks :
                 /\ LetGo(t, w, waits) \in Ticks
                 /\ LetGo(t, w, waits).rule = t.rule /\ LetGo(t, w, waits).nth = t.nth /\ LetGo(t, w, waits).at = t.at /\ LetGo(t, w, waits).job = t.job
                 /\ LetGo(t, w, waits).rt = t.rt /\ LetGo(t, w, waits).now = t.now /\ LetGo(t, w, waits).seen = t.seen
                 /\ LetGo(t, w, waits).live <=> t.live /\ t.rule # w
                 /\ LetGo(t, w, waits).refresh = IF t.rule = w /\ t.live THEN waits ELSE t.refresh
<1> DEFINE y == Unscheduled(x, w, waits)
           T == {LetGo(t, w, waits) : t \in x.ticks}
<1>1. x \in Services
  BY DEF ServiceOK
<1>2. \A t \in x.ticks :
         /\ LetGo(t, w, waits) \in Ticks
         /\ LetGo(t, w, waits).rule = t.rule /\ LetGo(t, w, waits).nth = t.nth /\ LetGo(t, w, waits).at = t.at /\ LetGo(t, w, waits).job = t.job
         /\ LetGo(t, w, waits).rt = t.rt /\ LetGo(t, w, waits).now = t.now /\ LetGo(t, w, waits).seen = t.seen
         /\ LetGo(t, w, waits).live <=> t.live /\ t.rule # w
         /\ LetGo(t, w, waits).refresh = IF t.rule = w /\ t.live THEN waits ELSE t.refresh
  BY <1>1 DEF Services, Ticks, LetGo
<1>3. y = [x EXCEPT !.sched = x.sched \ {w}, !.ticks = T]
  BY <1>1 DEF Unscheduled, Services, LetGo
<1> HIDE DEF y
<1>4. T \in SUBSET Ticks
  BY <1>2
<1>5. /\ y \in Services /\ y.sched = x.sched \ {w} /\ y.ticks = T
      /\ y.dev = x.dev /\ y.jobs = x.jobs /\ y.reg = x.reg
  <2> HIDE DEF T
  <2> QED
    BY <1>1, <1>3, <1>4 DEF Services
<1>6. TicksOK(y)
  <2>1. ASSUME NEW t \in x.ticks, NEW u \in x.ticks,
               LetGo(t, w, waits).rule = LetGo(u, w, waits).rule, LetGo(t, w, waits).nth = LetGo(u, w, waits).nth
        PROVE  LetGo(t, w, waits) = LetGo(u, w, waits)
    BY <1>2, <2>1 DEF ServiceOK, TicksOK
  <2>2. ASSUME NEW t \in x.ticks, LetGo(t, w, waits).live PROVE ~LetGo(t, w, waits).refresh
    BY <1>2, <2>2 DEF ServiceOK, TicksOK
  <2> QED
    BY <1>5, <2>1, <2>2 DEF TicksOK
<1>7. JobsOK(y) /\ DeviceOK(y) /\ Counted(y)
  BY <1>5 DEF ServiceOK, JobsOK, DeviceOK, Counted
<1>8. ServiceOK(y)
  BY <1>5, <1>6, <1>7 DEF ServiceOK
<1> QED
  BY <1>2, <1>5, <1>8 DEF y

LEMMA RemovingFits ==
    ASSUME NEW x, ServiceOK(x), NEW w, NEW adds \in SUBSET Rules
    PROVE  LET y == RemoveDeviceRef(x, w, adds) IN
           /\ ServiceOK(y) /\ y.sched = x.sched /\ y.ticks = x.ticks
           /\ y.dev.rules = x.dev.rules \ {w}
           /\ LastRef(x, w) => y.jobs = {Orphaned(j, adds) : j \in x.jobs}
           /\ ~LastRef(x, w) => y.jobs = x.jobs
<1>1. CASE LastRef(x, w)
  <2>1. NoDevice.rules = x.dev.rules \ {w}
    BY <1>1 DEF LastRef, NoDevice
  <2> QED
    BY <1>1, <2>1, DropsDevice
<1>2. CASE ~LastRef(x, w)
  BY <1>2, KeepsDevice
<1> QED
  BY <1>1, <1>2

\* Those who wait for a device's connect() are told what to add after it.
LEMMA RemovingGrows ==
    ASSUME NEW x, ServiceOK(x), NEW w, NEW adds \in SUBSET Rules
    PROVE  LET z == RemoveDeviceRef(x, w, adds) IN
           /\ ServiceOK(z) /\ z.ticks = x.ticks /\ z.sched = x.sched
           /\ \A j \in x.jobs : \E k \in z.jobs :
                 /\ k.nth = j.nth /\ j.adds \subseteq k.adds
                 /\ LastRef(x, w) /\ j.own => adds \subseteq k.adds
<1> DEFINE z == RemoveDeviceRef(x, w, adds)
<1>1. /\ ServiceOK(z) /\ z.ticks = x.ticks /\ z.sched = x.sched
      /\ LastRef(x, w) => z.jobs = {Orphaned(j, adds) : j \in x.jobs}
      /\ ~LastRef(x, w) => z.jobs = x.jobs
  BY RemovingFits
<1> HIDE DEF z
<1>2. ASSUME NEW j \in x.jobs
      PROVE  \E k \in z.jobs : /\ k.nth = j.nth /\ j.adds \subseteq k.adds
                               /\ LastRef(x, w) /\ j.own => adds \subseteq k.adds
  <2>1. CASE LastRef(x, w)
    <3>1. Orphaned(j, adds) \in z.jobs
      BY <1>1, <2>1
    <3>2. /\ Orphaned(j, adds).nth = j.nth
          /\ Orphaned(j, adds).adds = IF j.own THEN j.adds \cup adds ELSE j.adds
      BY OrphanedIsJob DEF ServiceOK, Services
    <3> QED
      BY <3>1, <3>2
  <2>2. CASE ~LastRef(x, w)
    BY <1>1, <2>2
  <2> QED
    BY <2>1, <2>2
<1> QED
  BY <1>1, <1>2 DEF z

\* teardownRule.
LEMMA TearingFits ==
    ASSUME NEW x, ServiceOK(x), NEW w \in Rules
    PROVE  /\ ServiceOK(Teardown(x, w))
           /\ Teardown(x, w).sched = x.sched \ {w}
           /\ \A u \in x.ticks : \E v \in Teardown(x, w).ticks :
                 /\ v.rule = u.rule /\ v.nth = u.nth /\ v.at = u.at
                 /\ u.rule # w => (v.refresh <=> u.refresh)
           /\ \A j \in x.jobs : \E k \in Teardown(x, w).jobs : j.adds \subseteq k.adds
<1>1. CASE w \in x.sched
  <2> DEFINE z == Unscheduled(x, w, FALSE)
  <2>1. /\ ServiceOK(z) /\ z.sched = x.sched \ {w} /\ z.jobs = x.jobs
        /\ \A u \in x.ticks : \E v \in z.ticks :
              /\ v.rule = u.rule /\ v.nth = u.nth /\ v.at = u.at
              /\ u.rule # w => (v.refresh <=> u.refresh)
    <3>1. ASSUME NEW waits \in BOOLEAN
          PROVE  LET s == Unscheduled(x, w, waits) IN
                 /\ ServiceOK(s) /\ s.sched = x.sched \ {w} /\ s.jobs = x.jobs
                 /\ \A u \in x.ticks : \E v \in s.ticks :
                       /\ v.rule = u.rule /\ v.nth = u.nth /\ v.at = u.at
                       /\ u.rule # w => (v.refresh <=> u.refresh)
      BY UnschedulingFits
    <3> QED
      BY <3>1, Zenon
  <2>2. Teardown(x, w) = RemoveDeviceRef(z, w, {})
    BY <1>1 DEF Teardown
  <2> HIDE DEF z
  <2>3. /\ ServiceOK(RemoveDeviceRef(z, w, {}))
        /\ RemoveDeviceRef(z, w, {}).sched = z.sched
        /\ RemoveDeviceRef(z, w, {}).ticks = z.ticks
        /\ \A j \in z.jobs : \E k \in RemoveDeviceRef(z, w, {}).jobs : j.adds \subseteq k.adds
    BY <2>1, RemovingGrows
  <2> QED
    BY <2>1, <2>2, <2>3
<1>2. CASE w \notin x.sched
  BY <1>2 DEF Teardown
<1> QED
  BY <1>1, <1>2

\* The rest of refreshRule: an enabled rule is scheduled again, or will be when
\* the connect() it waits for is over.
LEMMA RefreshingFits ==
    ASSUME NEW x, ServiceOK(x), NEW w \in Rules, NEW on \in BOOLEAN
    PROVE  LET y == Refreshed(x, w, on) IN
           /\ ServiceOK(y) /\ y.ticks = x.ticks
           /\ y.sched = x.sched \/ (on /\ y.sched = x.sched \cup {w})
           /\ on => w \in y.sched \/ \E k \in y.jobs : w \in k.adds
           /\ \A j \in x.jobs : \E k \in y.jobs : k.nth = j.nth /\ j.adds \subseteq k.adds
<1> DEFINE y == Refreshed(x, w, on)
           waits == LastRef(x, w) /\ \E j \in x.jobs : j.own
<1>1. x \in Services /\ \A j \in x.jobs : j \in Jobs
  BY DEF ServiceOK, Services
<1>2. ASSUME NEW adds \in SUBSET Rules, NEW z, z = RemoveDeviceRef(x, w, adds)
      PROVE  /\ ServiceOK(z) /\ z.ticks = x.ticks /\ z.sched = x.sched
             /\ \A j \in x.jobs : \E k \in z.jobs : /\ k.nth = j.nth /\ j.adds \subseteq k.adds
                                                    /\ LastRef(x, w) /\ j.own => adds \subseteq k.adds
  BY <1>2, RemovingGrows
<1>3. CASE ~on
  <2>1. y = RemoveDeviceRef(x, w, {})
    BY <1>3 DEF Refreshed
  <2> QED
    BY <1>2, <1>3, <2>1
<1>4. CASE on /\ waits
  <2>1. y = RemoveDeviceRef(x, w, {w})
    BY <1>4 DEF Refreshed, LastRef
  <2> HIDE DEF y
  <2>2. \E k \in y.jobs : w \in k.adds
    BY <1>2, <1>4, <2>1
  <2> QED
    BY <1>2, <2>1, <2>2 DEF y
<1>5. CASE on /\ ~waits
  <2> DEFINE z == RemoveDeviceRef(x, w, {})
  <2>1. y = AddRules(z, {w})
    BY <1>5 DEF Refreshed, LastRef
  <2>2. /\ ServiceOK(z) /\ z.ticks = x.ticks /\ z.sched = x.sched
        /\ \A j \in x.jobs : \E k \in z.jobs : k.nth = j.nth /\ j.adds \subseteq k.adds
    BY <1>2
  <2> HIDE DEF y, z
  <2>3. /\ ServiceOK(y) /\ y.ticks = z.ticks /\ y.jobs = z.jobs /\ y.sched = z.sched \cup {w}
    BY <2>1, <2>2, AddingFits
  <2> QED
    BY <1>5, <2>2, <2>3 DEF y
<1> QED
  BY <1>3, <1>4, <1>5

-----------------------------------------------------------------------------
(* What scheduling does to the rules that wait, and to a calm service      *)

\* Every rule of en is scheduled or will be, and no other is.
Awaited(x, en) ==
    /\ x.sched \subseteq en
    /\ \A w \in en : \/ w \in x.sched
                     \/ \E t \in x.ticks : t.rule = w /\ t.refresh
                     \/ \E j \in x.jobs : w \in j.adds

\* As long as no rule was scheduled again behind a sample under way: samples of a
\* rule do not overlap, one that was let go has its rule out of the schedule, no
\* rule waits for a connect(), which a rule's sample still does, and the schedule
\* is of rules of the device.
Calm(x) ==
    /\ \A t, u \in x.ticks : t.rule = u.rule => t = u
    /\ \A t \in x.ticks : t.rule \in x.sched => t.live
    /\ \A j \in x.jobs : j.adds = {}
    /\ \A j \in x.jobs : j.own =>
          \E t \in x.ticks : t.at = "joining" /\ t.job = j.nth /\ t.rule \in x.dev.rules
    /\ x.sched \subseteq x.dev.rules

\* A sample of rule w, the n-th, is over.
Without(x, w, n) == [x EXCEPT !.ticks = {u \in @ : u.rule # w \/ u.nth # n}]

LEMMA EndingFits ==
    ASSUME NEW x, ServiceOK(x), NEW w, NEW n
    PROVE  /\ ServiceOK(Without(x, w, n))
           /\ Without(x, w, n).sched = x.sched /\ Without(x, w, n).jobs = x.jobs
           /\ Without(x, w, n).dev = x.dev /\ Without(x, w, n).reg = x.reg
           /\ Without(x, w, n).ticks = {u \in x.ticks : u.rule # w \/ u.nth # n}
<1> DEFINE y == Without(x, w, n)
           T == {u \in x.ticks : u.rule # w \/ u.nth # n}
<1>1. x \in Services /\ T \in SUBSET Ticks
  BY DEF ServiceOK, Services
<1>2. y = [x EXCEPT !.ticks = T]
  BY <1>1 DEF Without, Services
<1>3. T \subseteq x.ticks
  OBVIOUS
<1> HIDE DEF y
<1>4. /\ y \in Services /\ y.sched = x.sched /\ y.ticks = T
      /\ y.dev = x.dev /\ y.jobs = x.jobs /\ y.reg = x.reg
  <2> HIDE DEF T
  <2> QED
    BY <1>1, <1>2 DEF Services
<1>5. TicksOK(y)
  <2> HIDE DEF T
  <2> QED
    BY <1>3, <1>4 DEF ServiceOK, TicksOK
<1>6. JobsOK(y) /\ DeviceOK(y) /\ Counted(y)
  BY <1>4 DEF ServiceOK, JobsOK, DeviceOK, Counted
<1> QED
  BY <1>4, <1>5, <1>6 DEF ServiceOK, y

\* What is left of the service when the sample has ended.
After(t, x, on) == IF t.refresh THEN Refreshed(Without(x, t.rule, t.nth), t.rule, on)
                                ELSE Without(x, t.rule, t.nth)

\* The rule of a sample that ends is scheduled again if a refresh waited for it.
LEMMA EndAwaited ==
    ASSUME NEW x, ServiceOK(x), NEW t, t.rule \in Rules, NEW en \in SUBSET Rules,
           x.sched \subseteq en,
           \A w \in en : \/ w \in x.sched
                         \/ \E u \in x.ticks : /\ u.rule = w /\ u.refresh
                                               /\ u.rule = t.rule /\ u.nth = t.nth => t.refresh
                         \/ \E j \in x.jobs : w \in j.adds
    PROVE  LET z == After(t, x, t.rule \in en) IN
           ServiceOK(z) /\ Awaited(z, en)
<1> DEFINE y == Without(x, t.rule, t.nth)
           on == t.rule \in en
           z == Refreshed(y, t.rule, on)
<1>1. /\ ServiceOK(y) /\ y.sched = x.sched /\ y.jobs = x.jobs
      /\ y.ticks = {u \in x.ticks : u.rule # t.rule \/ u.nth # t.nth}
  BY EndingFits
<1>2. on \in BOOLEAN
  OBVIOUS
<1> HIDE DEF y, on
<1>3. CASE ~t.refresh
  <2>1. Awaited(y, en)
    BY <1>1, <1>3 DEF Awaited
  <2> QED
    BY <1>1, <1>3, <2>1 DEF After, y
<1>4. CASE t.refresh
  <2>1. /\ ServiceOK(z) /\ z.ticks = y.ticks
        /\ z.sched = y.sched \/ (on /\ z.sched = y.sched \cup {t.rule})
        /\ on => t.rule \in z.sched \/ \E k \in z.jobs : t.rule \in k.adds
        /\ \A j \in y.jobs : \E k \in z.jobs : k.nth = j.nth /\ j.adds \subseteq k.adds
    BY <1>1, <1>2, RefreshingFits
  <2> HIDE DEF z
  <2>2. z.sched \subseteq en
    BY <1>1, <2>1 DEF on
  <2>3. ASSUME NEW w \in en
        PROVE  \/ w \in z.sched
               \/ \E u \in z.ticks : u.rule = w /\ u.refresh
               \/ \E j \in z.jobs : w \in j.adds
    <3>1. CASE w = t.rule
      BY <2>1, <3>1 DEF on
    <3>2. CASE w # t.rule /\ w \in x.sched
      BY <1>1, <2>1, <3>2
    <3>3. CASE w # t.rule /\ \E u \in x.ticks : u.rule = w /\ u.refresh
      BY <1>1, <2>1, <3>3
    <3>4. CASE \E j \in x.jobs : w \in j.adds
      BY <1>1, <2>1, <3>4
    <3> QED
      BY <3>1, <3>2, <3>3, <3>4
  <2> QED
    BY <1>4, <2>1, <2>2, <2>3 DEF After, Awaited, y, z, on
<1> QED
  BY <1>3, <1>4

\* A rule that no connecting sample is of leaves the device.
LEMMA RemovingIsCalm ==
    ASSUME NEW x, ServiceOK(x), Calm(x), NEW w, w \notin x.sched,
           \A t \in x.ticks : t.rule = w => t.at # "joining"
    PROVE  /\ Calm(RemoveDeviceRef(x, w, {}))
           /\ ~(LastRef(x, w) /\ \E j \in x.jobs : j.own)
<1> DEFINE y == RemoveDeviceRef(x, w, {})
<1>1. /\ y.sched = x.sched /\ y.ticks = x.ticks /\ y.dev.rules = x.dev.rules \ {w}
      /\ LastRef(x, w) => y.jobs = {Orphaned(j, {}) : j \in x.jobs}
      /\ ~LastRef(x, w) => y.jobs = x.jobs
  BY RemovingFits
<1>2. \A j \in x.jobs : j \in Jobs
  BY DEF ServiceOK, Services
<1> HIDE DEF y
<1>3. ~(LastRef(x, w) /\ \E j \in x.jobs : j.own)
  BY DEF Calm, LastRef
<1>4. \A k \in y.jobs : k.adds = {}
  <2>1. CASE LastRef(x, w)
    <3>1. \A j \in x.jobs : Orphaned(j, {}).adds = {}
      <4> SUFFICES ASSUME NEW j \in x.jobs PROVE Orphaned(j, {}).adds = {}
        OBVIOUS
      <4>1. j \in Jobs /\ j.adds = {}
        BY <1>2 DEF Calm
      <4>2. Orphaned(j, {}).adds = IF j.own THEN j.adds \cup {} ELSE j.adds
        BY <4>1, OrphanedIsJob
      <4> QED
        BY <4>1, <4>2
    <3> QED
      BY <1>1, <2>1, <3>1
  <2>2. CASE ~LastRef(x, w)
    BY <1>1, <2>2 DEF Calm
  <2> QED
    BY <2>1, <2>2
<1>5. ASSUME NEW k \in y.jobs, k.own
      PROVE  \E t \in y.ticks : t.at = "joining" /\ t.job = k.nth /\ t.rule \in y.dev.rules
  <2>1. CASE LastRef(x, w)
    <3>1. \A j \in x.jobs : ~Orphaned(j, {}).own
      BY <1>2, OrphanedIsJob
    <3> QED
      BY <1>1, <1>5, <2>1, <3>1
  <2>2. CASE ~LastRef(x, w)
    BY <1>1, <1>5, <2>2 DEF Calm
  <2> QED
    BY <2>1, <2>2
<1> QED
  BY <1>1, <1>3, <1>4, <1>5 DEF Calm, y

LEMMA AddingIsCalm ==
    ASSUME NEW x, ServiceOK(x), Calm(x), NEW w \in Rules, \A t \in x.ticks : t.rule # w
    PROVE  Calm(AddRules(x, {w}))
<1> DEFINE y == AddRules(x, {w})
<1>1. /\ y.sched = x.sched \cup {w} /\ y.jobs = x.jobs /\ y.ticks = x.ticks
      /\ y.dev.rules = x.dev.rules \cup ({w} \ x.sched)
  BY AddingFits
<1> HIDE DEF y
<1> QED
  BY <1>1 DEF Calm, y

LEMMA RefreshingIsCalm ==
    ASSUME NEW x, ServiceOK(x), Calm(x), NEW w \in Rules, NEW on \in BOOLEAN,
           w \notin x.sched, \A t \in x.ticks : t.rule # w
    PROVE  Calm(Refreshed(x, w, on))
<1> DEFINE y == RemoveDeviceRef(x, w, {})
<1>1. Calm(y) /\ ~(LastRef(x, w) /\ \E j \in x.jobs : j.own)
  BY RemovingIsCalm
<1>2. ServiceOK(y) /\ y.ticks = x.ticks
  BY RemovingFits
<1>3. Refreshed(x, w, on) = IF on THEN AddRules(y, {w}) ELSE y
  BY <1>1 DEF Refreshed, LastRef
<1> HIDE DEF y
<1>4. Calm(AddRules(y, {w}))
  BY <1>1, <1>2, AddingIsCalm
<1> QED
  BY <1>1, <1>3, <1>4

LEMMA UnschedulingIsCalm ==
    ASSUME NEW x, ServiceOK(x), Calm(x), NEW w \in Rules, NEW waits \in BOOLEAN
    PROVE  Calm(Unscheduled(x, w, waits))
<1> DEFINE y == Unscheduled(x, w, waits)
<1>1. /\ y.sched = x.sched \ {w} /\ y.dev = x.dev /\ y.jobs = x.jobs
      /\ y.ticks = {LetGo(t, w, waits) : t \in x.ticks}
      /\ \A t \in x.ticks :
            /\ LetGo(t, w, waits).rule = t.rule /\ LetGo(t, w, waits).at = t.at /\ LetGo(t, w, waits).job = t.job
            /\ LetGo(t, w, waits).live <=> t.live /\ t.rule # w
  BY UnschedulingFits
<1> HIDE DEF y
<1>2. ASSUME NEW t \in x.ticks, NEW u \in x.ticks, LetGo(t, w, waits).rule = LetGo(u, w, waits).rule
      PROVE  LetGo(t, w, waits) = LetGo(u, w, waits)
  BY <1>1, <1>2 DEF Calm
<1>3. ASSUME NEW t \in x.ticks, LetGo(t, w, waits).rule \in y.sched PROVE LetGo(t, w, waits).live
  BY <1>1, <1>3 DEF Calm
<1>4. ASSUME NEW j \in y.jobs, j.own
      PROVE  \E t \in y.ticks : t.at = "joining" /\ t.job = j.nth /\ t.rule \in y.dev.rules
  <2>1. PICK t \in x.ticks : t.at = "joining" /\ t.job = j.nth /\ t.rule \in x.dev.rules
    BY <1>1, <1>4 DEF Calm
  <2> QED
    BY <1>1, <2>1
<1> QED
  BY <1>1, <1>2, <1>3, <1>4 DEF Calm, y

\* No sample of a rule that is torn down is one that connects.
LEMMA TearingIsCalm ==
    ASSUME NEW x, ServiceOK(x), Calm(x), NEW w \in Rules,
           \A t \in x.ticks : t.rule = w => t.at # "joining"
    PROVE  Calm(Teardown(x, w))
<1>1. CASE w \in x.sched
  <2> DEFINE z == Unscheduled(x, w, FALSE)
  <2>1. ServiceOK(z) /\ Calm(z) /\ w \notin z.sched /\ \A t \in z.ticks : t.rule = w => t.at # "joining"
    <3>1. ASSUME NEW waits \in BOOLEAN
          PROVE  LET s == Unscheduled(x, w, waits) IN
                 ServiceOK(s) /\ Calm(s) /\ w \notin s.sched /\ \A t \in s.ticks : t.rule = w => t.at # "joining"
      BY UnschedulingFits, UnschedulingIsCalm
    <3> QED
      BY <3>1, Zenon
  <2>2. Teardown(x, w) = RemoveDeviceRef(z, w, {})
    BY <1>1 DEF Teardown
  <2> HIDE DEF z
  <2> QED
    BY <2>1, <2>2, RemovingIsCalm
<1>2. CASE w \notin x.sched
  BY <1>2 DEF Teardown
<1> QED
  BY <1>1, <1>2

\* The sample that ends, t, is not one that connects.
LEMMA EndIsCalm ==
    ASSUME NEW x, ServiceOK(x), Calm(x), NEW t, t.rule \in Rules, NEW on \in BOOLEAN,
           NEW u \in x.ticks, u.rule = t.rule, u.nth = t.nth, u.at # "joining",
           t.refresh => t.rule \notin x.sched
    PROVE  Calm(After(t, x, on))
<1> DEFINE y == Without(x, t.rule, t.nth)
<1>1. /\ ServiceOK(y) /\ y.sched = x.sched /\ y.jobs = x.jobs /\ y.dev = x.dev
      /\ y.ticks = {v \in x.ticks : v.rule # t.rule \/ v.nth # t.nth}
  BY EndingFits
<1> HIDE DEF y
<1>2. \A v \in y.ticks : v \in x.ticks /\ v.rule # t.rule
  BY <1>1 DEF Calm
<1>3. \A v \in x.ticks : v.at = "joining" => v \in y.ticks
  BY <1>1 DEF Calm
<1>4. Calm(y)
  BY <1>1, <1>2, <1>3 DEF Calm
<1>5. CASE t.refresh
  <2>1. Calm(Refreshed(y, t.rule, on))
    BY <1>1, <1>2, <1>4, <1>5, RefreshingIsCalm
  <2> QED
    BY <1>5, <2>1 DEF After, y
<1>6. CASE ~t.refresh
  BY <1>4, <1>6 DEF After, y
<1> QED
  BY <1>5, <1>6

-----------------------------------------------------------------------------
(* The invariant of the induction, and the steps                           *)

RestOK ==
    /\ kind \in Kinds /\ clock \in 0 .. MaxClock /\ enabled \subseteq Rules
    /\ state \in [Rules -> States]
    /\ alarms \in [Rules -> 0 .. 2] /\ patches \in 0 .. MaxPatches /\ slips \subseteq Slips

CalmUnlessOverlap == "overlap" \notin slips => Calm(Now)

ServiceInv == ServiceOK(Now) /\ Awaited(Now, enabled) /\ CalmUnlessOverlap

\* The service becomes x.
LEMMA Becoming ==
    ASSUME NEW x, x \in Services, Becomes(x)
    PROVE  Now' = x
BY DEF Services, Becomes, Now

LEMMA BecomingKeeps ==
    ASSUME NEW x, ServiceOK(x), Awaited(x, enabled'), "overlap" \notin slips' => Calm(x), Becomes(x)
    PROVE  ServiceInv'
<1>1. Now' = x
  BY Becoming DEF ServiceOK
<1>2. ServiceOK(Now)' /\ Awaited(Now, enabled)'
  BY <1>1 DEF ServiceOK, Services, RegistryOK, OnlyCurrentLives, Numbered, JobsOK, TicksOK, DeviceOK,
              Counted, Waiting, Awaited
<1> QED
  BY <1>1 DEF ServiceInv, CalmUnlessOverlap

\* What a rule that leaves the schedule leaves behind.
LEMMA UnscheduledLeaves ==
    ASSUME NEW x, ServiceOK(x), NEW en, Awaited(x, en), NEW w \in Rules, NEW waits \in BOOLEAN
    PROVE  LET z == Unscheduled(x, w, waits) IN
           /\ ServiceOK(z) /\ z.sched = x.sched \ {w} /\ z.jobs = x.jobs
           /\ \A v \in en \ {w} : \/ v \in z.sched
                                  \/ \E t \in z.ticks : t.rule = v /\ t.refresh
                                  \/ \E j \in z.jobs : v \in j.adds
           /\ (waits /\ \E t \in x.ticks : t.rule = w /\ t.live) =>
                 \E t \in z.ticks : t.rule = w /\ t.refresh
           /\ \A t \in z.ticks : \E u \in x.ticks : u.rule = t.rule
           /\ Calm(x) => Calm(z)
<1> DEFINE z == Unscheduled(x, w, waits)
<1>1. /\ ServiceOK(z) /\ z.sched = x.sched \ {w} /\ z.jobs = x.jobs
      /\ z.ticks = {LetGo(t, w, waits) : t \in x.ticks}
      /\ \A t \in x.ticks :
            /\ LetGo(t, w, waits).rule = t.rule
            /\ LetGo(t, w, waits).refresh = IF t.rule = w /\ t.live THEN waits ELSE t.refresh
  BY UnschedulingFits
<1>2. Calm(x) => Calm(z)
  BY UnschedulingIsCalm
<1> HIDE DEF z
<1>3. ASSUME NEW t \in x.ticks, t.rule # w, t.refresh
      PROVE  LetGo(t, w, waits).rule = t.rule /\ LetGo(t, w, waits).refresh
  BY <1>1, <1>3
<1>4. ASSUME NEW t \in x.ticks, t.rule = w, t.live, waits
      PROVE  LetGo(t, w, waits).rule = w /\ LetGo(t, w, waits).refresh
  BY <1>1, <1>4
<1>5. ASSUME NEW v \in en \ {w}
      PROVE  \/ v \in z.sched
             \/ \E t \in z.ticks : t.rule = v /\ t.refresh
             \/ \E j \in z.jobs : v \in j.adds
  <2>1. CASE \E t \in x.ticks : t.rule = v /\ t.refresh
    <3>1. PICK t \in x.ticks : t.rule = v /\ t.refresh
      BY <2>1
    <3>2. LetGo(t, w, waits) \in z.ticks /\ LetGo(t, w, waits).rule = v /\ LetGo(t, w, waits).refresh
      BY <1>1, <1>3, <3>1
    <3> QED
      BY <3>2
  <2>2. CASE v \in x.sched \/ \E j \in x.jobs : v \in j.adds
    BY <1>1, <2>2
  <2> QED
    BY <2>1, <2>2 DEF Awaited
<1>6. (waits /\ \E t \in x.ticks : t.rule = w /\ t.live) => \E t \in z.ticks : t.rule = w /\ t.refresh
  BY <1>1, <1>4
<1>7. \A t \in z.ticks : \E u \in x.ticks : u.rule = t.rule
  BY <1>1
<1> QED
  BY <1>1, <1>2, <1>5, <1>6, <1>7 DEF z

\* A change of a rule puts it back, or leaves that to the sample it waits for.
LEMMA PatchSchedules ==
    ASSUME ServiceInv, enabled \subseteq Rules, NEW w \in Rules, PatchRule(w)
    PROVE  ServiceInv'
<1>0. PICK on \in BOOLEAN :
        /\ enabled' = IF on THEN enabled \cup {w} ELSE enabled \ {w}
        /\ slips' = slips
             \cup (IF on /\ w \notin sched /\ \E t \in ticks : t.rule = w THEN {"overlap"} ELSE {})
             \cup (IF \E t \in ticks : t.rule = w /\ t.at = "firing" THEN {"unrecorded"} ELSE {})
        /\ Becomes(IF w \notin sched THEN IF on THEN AddRules(Now, {w}) ELSE Now
                   ELSE IF WaitsFor(w) = {} THEN Refreshed(Unscheduled(Now, w, FALSE), w, on)
                   ELSE Unscheduled(Now, w, TRUE))
  BY DEF PatchRule
<1>1. /\ ServiceOK(Now) /\ Awaited(Now, enabled)
      /\ Now.sched = sched /\ Now.ticks = ticks /\ Now.jobs = jobs
      /\ "overlap" \notin slips' => Calm(Now)
  BY <1>0 DEF ServiceInv, CalmUnlessOverlap, Now
<1>2. CASE w \notin sched /\ on
  <2> DEFINE x == AddRules(Now, {w})
  <2>1. /\ ServiceOK(x) /\ x.sched = sched \cup {w} /\ x.ticks = ticks /\ x.jobs = jobs
    BY <1>1, AddingFits
  <2>2. "overlap" \notin slips' => Calm(x)
    BY <1>0, <1>1, <1>2, AddingIsCalm
  <2>3. Becomes(x)
    BY <1>0, <1>2
  <2> HIDE DEF x
  <2>4. Awaited(x, enabled')
    BY <1>0, <1>1, <1>2, <2>1 DEF Awaited
  <2> QED
    BY <2>1, <2>2, <2>3, <2>4, BecomingKeeps
<1>3. CASE w \notin sched /\ ~on
  <2>1. Awaited(Now, enabled')
    BY <1>0, <1>1, <1>3 DEF Awaited
  <2>2. Becomes(Now)
    BY <1>0, <1>3
  <2> QED
    BY <1>1, <2>1, <2>2, BecomingKeeps
<1>4. CASE w \in sched /\ WaitsFor(w) = {}
  <2>1. PICK no \in BOOLEAN : no = FALSE
    OBVIOUS
  <2> DEFINE z == Unscheduled(Now, w, no)
             x == Refreshed(z, w, on)
  <2>2. /\ ServiceOK(z) /\ z.sched = sched \ {w} /\ z.jobs = jobs
        /\ \A v \in enabled \ {w} : \/ v \in z.sched
                                    \/ \E t \in z.ticks : t.rule = v /\ t.refresh
                                    \/ \E j \in z.jobs : v \in j.adds
        /\ \A t \in z.ticks : \E u \in ticks : u.rule = t.rule
        /\ Calm(Now) => Calm(z)
    BY <1>1, UnscheduledLeaves
  <2> HIDE DEF z
  <2>3. /\ ServiceOK(x) /\ x.ticks = z.ticks
        /\ x.sched = z.sched \/ (on /\ x.sched = z.sched \cup {w})
        /\ on => w \in x.sched \/ \E k \in x.jobs : w \in k.adds
        /\ \A j \in z.jobs : \E k \in x.jobs : j.adds \subseteq k.adds
    BY <2>2, RefreshingFits
  <2>4. "overlap" \notin slips' => Calm(x)
    <3> SUFFICES ASSUME "overlap" \notin slips' PROVE Calm(x)
      OBVIOUS
    <3>1. \A t \in z.ticks : t.rule # w
      BY <1>1, <1>4, <2>2 DEF Calm, WaitsFor
    <3> QED
      BY <1>1, <2>2, <3>1, RefreshingIsCalm
  <2>5. Becomes(x)
    BY <1>0, <1>4, <2>1 DEF z
  <2> HIDE DEF x
  <2>6. Awaited(x, enabled')
    <3>1. x.sched \subseteq enabled'
      BY <1>0, <1>1, <2>2, <2>3 DEF Awaited
    <3>2. ASSUME NEW v \in enabled'
          PROVE  \/ v \in x.sched
                 \/ \E t \in x.ticks : t.rule = v /\ t.refresh
                 \/ \E j \in x.jobs : v \in j.adds
      <4>1. CASE v = w
        BY <1>0, <2>3, <4>1
      <4>2. CASE v # w
        <5>1. v \in enabled \ {w}
          BY <1>0, <4>2
        <5> QED
          BY <2>2, <2>3, <5>1
      <4> QED
        BY <4>1, <4>2
    <3> QED
      BY <3>1, <3>2 DEF Awaited
  <2> QED
    BY <2>3, <2>4, <2>5, <2>6, BecomingKeeps
<1>5. CASE w \in sched /\ WaitsFor(w) # {}
  <2>1. PICK yes \in BOOLEAN : yes = TRUE
    OBVIOUS
  <2> DEFINE x == Unscheduled(Now, w, yes)
  <2>2. /\ ServiceOK(x) /\ x.sched = sched \ {w} /\ x.jobs = jobs
        /\ \A v \in enabled \ {w} : \/ v \in x.sched
                                    \/ \E t \in x.ticks : t.rule = v /\ t.refresh
                                    \/ \E j \in x.jobs : v \in j.adds
        /\ (yes /\ \E t \in ticks : t.rule = w /\ t.live) =>
                 \E t \in x.ticks : t.rule = w /\ t.refresh
        /\ Calm(Now) => Calm(x)
    BY <1>1, UnscheduledLeaves
  <2>3. Becomes(x)
    BY <1>0, <1>5, <2>1
  <2>4. "overlap" \notin slips' => Calm(x)
    BY <1>1, <2>2
  <2> HIDE DEF x
  <2>5. Awaited(x, enabled')
    BY <1>0, <1>1, <1>5, <2>1, <2>2 DEF Awaited, WaitsFor
  <2> QED
    BY <2>2, <2>3, <2>4, <2>5, BecomingKeeps
<1> QED
  BY <1>2, <1>3, <1>4, <1>5

\* A number that is free is not taken.
LEMMA FreeIsFresh ==
    ASSUME NEW s, Free(s) # {}
    PROVE  FreeOf(s) \in {0, 1} /\ \A e \in s : e.nth # FreeOf(s)
<1>1. \E n \in Free(s) : \A m \in Free(s) : n <= m
  <2>1. Free(s) \subseteq {0, 1}
    BY DEF Free
  <2>2. CASE 0 \in Free(s)
    BY <2>1, <2>2
  <2>3. CASE 0 \notin Free(s)
    BY <2>1, <2>3
  <2> QED
    BY <2>2, <2>3
<1>2. FreeOf(s) \in Free(s)
  BY <1>1 DEF FreeOf
<1> QED
  BY <1>2 DEF Free

\* Other samples are under way.
LEMMA SamplesFit ==
    ASSUME NEW x, ServiceOK(x), NEW T \in SUBSET Ticks,
           \A t, u \in T : t.rule = u.rule /\ t.nth = u.nth => t = u,
           \A t \in T : t.live => ~t.refresh
    PROVE  LET y == [x EXCEPT !.ticks = T] IN
           /\ ServiceOK(y) /\ y.sched = x.sched /\ y.dev = x.dev
           /\ y.jobs = x.jobs /\ y.reg = x.reg /\ y.ticks = T
<1> DEFINE y == [x EXCEPT !.ticks = T]
<1>1. x \in Services
  BY DEF ServiceOK
<1>2. /\ y \in Services /\ y.sched = x.sched /\ y.dev = x.dev
      /\ y.jobs = x.jobs /\ y.reg = x.reg /\ y.ticks = T
  BY <1>1 DEF Services
<1> HIDE DEF y
<1>3. TicksOK(y)
  BY <1>2 DEF TicksOK
<1>4. JobsOK(y) /\ DeviceOK(y) /\ Counted(y)
  BY <1>2 DEF ServiceOK, JobsOK, DeviceOK, Counted
<1> QED
  BY <1>2, <1>3, <1>4 DEF ServiceOK, y

\* A new sample of a rule: it is live, and told from the others.
LEMMA NewTickFits ==
    ASSUME RestOK, ServiceOK(Now), NEW w \in Rules, Free(Of(w)) # {},
           NEW at \in {"joining", "reading"}, NEW j, j.nth \in {0, 1}, j.rt \in Runtimes
    PROVE  LET t == NewTick(w, at, j)
               y == [Now EXCEPT !.ticks = ticks \cup {t}] IN
           /\ ServiceOK(y) /\ y.sched = sched /\ y.dev = dev
           /\ y.jobs = jobs /\ y.reg = reg /\ y.ticks = ticks \cup {t}
           /\ t.rule = w /\ t.at = at /\ t.job = j.nth /\ t.live
<1> DEFINE t == NewTick(w, at, j)
<1>1. FreeOf(Of(w)) \in {0, 1} /\ \A u \in ticks : u.rule = w => u.nth # FreeOf(Of(w))
  BY FreeIsFresh DEF Of
<1>2. NewState \in States
  BY WatchAssumption DEF NewState, States, Screens, Never
<1>3. /\ t \in Ticks /\ t.rule = w /\ t.nth = FreeOf(Of(w)) /\ t.at = at /\ t.job = j.nth
      /\ t.live /\ ~t.refresh
  BY <1>1, <1>2 DEF NewTick, Ticks, RestOK
<1>4. /\ Now.ticks = ticks /\ ticks \subseteq Ticks /\ Now.sched = sched /\ Now.dev = dev
      /\ Now.jobs = jobs /\ Now.reg = reg /\ TicksOK(Now)
  BY DEF Now, ServiceOK, Services
<1> HIDE DEF t
<1>5. /\ ticks \cup {t} \in SUBSET Ticks
      /\ \A u, v \in ticks \cup {t} : u.rule = v.rule /\ u.nth = v.nth => u = v
      /\ \A u \in ticks \cup {t} : u.live => ~u.refresh
  BY <1>1, <1>3, <1>4 DEF TicksOK
<1> DEFINE T == ticks \cup {t}
<1> HIDE DEF T
<1>6. LET y == [Now EXCEPT !.ticks = T] IN
      /\ ServiceOK(y) /\ y.sched = Now.sched /\ y.dev = Now.dev
      /\ y.jobs = Now.jobs /\ y.reg = Now.reg /\ y.ticks = T
  BY <1>5, SamplesFit DEF T
<1> QED
  BY <1>3, <1>4, <1>6 DEF T, t

\* ensureRuntime acquires a runtime, and its promise is the device's own.
MayConnect(x) == /\ x.dev.on /\ x.dev.rt = 0 /\ {j \in x.jobs : j.own} = {}
                 /\ CanAcquire(x.reg) /\ Free(x.jobs) # {}
Acquired(x)   == Connect(Acquire(x.reg), Acquire(x.reg).current)
OwnJob(x)     == [nth |-> FreeOf(x.jobs), rt |-> Acquired(x).current, own |-> TRUE, adds |-> {}]
Connecting(x) == [x EXCEPT !.jobs = x.jobs \cup {OwnJob(x)}, !.reg = Acquired(x)]

LEMMA NewJobFits ==
    ASSUME NEW x, ServiceOK(x), MayConnect(x)
    PROVE  /\ ServiceOK(Connecting(x)) /\ Connecting(x).sched = x.sched
           /\ Connecting(x).dev = x.dev /\ Connecting(x).ticks = x.ticks
           /\ Connecting(x).jobs = x.jobs \cup {OwnJob(x)}
           /\ OwnJob(x) \in Jobs /\ OwnJob(x).own /\ OwnJob(x).adds = {}
<1> DEFINE g == Acquired(x)
           j == OwnJob(x)
           y == Connecting(x)
<1>0. /\ x.dev.on /\ x.dev.rt = 0 /\ (\A i \in x.jobs : ~i.own)
      /\ CanAcquire(x.reg) /\ Free(x.jobs) # {}
  BY DEF MayConnect
<1>1. FreeOf(x.jobs) \in {0, 1} /\ \A i \in x.jobs : i.nth # FreeOf(x.jobs)
  BY <1>0, FreeIsFresh
<1>2. /\ RegistryOK(g) /\ g.current \in Runtimes
      /\ \/ /\ g.made = x.reg.made /\ g.current = x.reg.current /\ Alive(x.reg, x.reg.current)
            /\ g.refs = [x.reg.refs EXCEPT ![x.reg.current] = @ + 1]
         \/ /\ g.made = x.reg.made + 1 /\ g.current = x.reg.made + 1
            /\ g.refs[x.reg.made + 1] = 1
  BY <1>0, AcquireThenConnect DEF ServiceOK, Acquired
<1> HIDE DEF g
<1>3. /\ j \in Jobs /\ j.nth = FreeOf(x.jobs) /\ j.rt = g.current /\ j.own /\ j.adds = {}
  BY <1>1, <1>2 DEF Jobs, OwnJob, g
<1> HIDE DEF j
<1>4. x \in Services /\ g \in Registries /\ x.reg \in Registries /\ x.jobs \subseteq Jobs
  BY <1>2 DEF ServiceOK, RegistryOK, Services
<1>5. /\ y \in Services /\ y.sched = x.sched /\ y.dev = x.dev /\ y.ticks = x.ticks
      /\ y.jobs = x.jobs \cup {j} /\ y.reg = g
  <2>1. y = [x EXCEPT !.jobs = x.jobs \cup {j}, !.reg = g]
    BY DEF Connecting, j, g
  <2> HIDE DEF y
  <2> QED
    BY <1>3, <1>4, <2>1 DEF Services
<1>6. g.made \in Nat /\ x.reg.made \in Nat /\ x.reg.made <= g.made /\ g.current <= g.made
  BY <1>2, <1>4, MaxRuntimesAssumption DEF Registries, RegistryOK, Numbered
<1> HIDE DEF y
<1>7. JobsOK(y)
  <2>1. \A a, b \in y.jobs : a.nth = b.nth => a = b
    BY <1>1, <1>3, <1>5 DEF ServiceOK, JobsOK
  <2>2. \A a, b \in y.jobs : a.own /\ b.own => a = b
    BY <1>0, <1>5
  <2>3. ASSUME NEW a \in y.jobs PROVE a.rt <= g.made
    <3>1. CASE a = j
      BY <1>3, <1>6, <3>1
    <3>2. CASE a \in x.jobs
      <4>1. a.rt <= x.reg.made /\ a.rt \in Int
        BY <1>4, <3>2 DEF ServiceOK, JobsOK, Jobs, Runtimes
      <4> QED
        BY <1>6, <4>1
    <3> QED
      BY <1>5, <3>1, <3>2
  <2> QED
    BY <1>5, <2>1, <2>2, <2>3 DEF JobsOK
<1>8. TicksOK(y)
  BY <1>5 DEF ServiceOK, TicksOK
<1>9. DeviceOK(y)
  BY <1>0, <1>5, <1>6 DEF ServiceOK, DeviceOK
<1>10. Counted(y)
  <2> SUFFICES ASSUME NEW r \in Runtimes, Alive(g, r)
               PROVE  g.refs[r] = Cardinality(Waiting(x.jobs \cup {j}, r)) + (IF x.dev.rt = r THEN 1 ELSE 0)
    <3>1. y.dev.rt = x.dev.rt /\ y.reg = g /\ y.jobs = x.jobs \cup {j}
      BY <1>5
    <3> QED
      BY <3>1, Zenon DEF Counted
  <2>1. r = g.current /\ r # 0 /\ x.dev.rt # r
    BY <1>0, <1>2, MaxRuntimesAssumption DEF RegistryOK, OnlyCurrentLives, Runtimes
  <2>2. IsFiniteSet(Waiting(x.jobs, r)) /\ Cardinality(Waiting(x.jobs, r)) \in Nat
    BY JobsAreFinite DEF ServiceOK
  <2>3. Waiting(x.jobs \cup {j}, r) = Waiting(x.jobs, r) \cup {j} /\ j \notin Waiting(x.jobs, r)
    BY <1>1, <1>3, <2>1 DEF Waiting
  <2>4. Cardinality(Waiting(x.jobs \cup {j}, r)) = Cardinality(Waiting(x.jobs, r)) + 1
    <3> DEFINE W == Waiting(x.jobs, r)
    <3>1. Cardinality(W \cup {j}) = IF j \in W THEN Cardinality(W) ELSE Cardinality(W) + 1
      BY <2>2, FS_AddElement, Zenon
    <3> QED
      BY <2>3, <3>1, Zenon
  <2>5. g.refs[r] = Cardinality(Waiting(x.jobs, r)) + 1
    <3>1. CASE /\ g.current = x.reg.current /\ Alive(x.reg, x.reg.current)
               /\ g.refs = [x.reg.refs EXCEPT ![x.reg.current] = @ + 1]
      <4>1. x.reg.refs[r] = Cardinality(Waiting(x.jobs, r)) + (IF x.dev.rt = r THEN 1 ELSE 0)
        BY <2>1, <3>1 DEF ServiceOK, Counted
      <4>2. g.refs[r] = x.reg.refs[r] + 1
        BY <1>4, <2>1, <3>1 DEF Registries
      <4> QED
        BY <2>1, <2>2, <4>1, <4>2
    <3>2. CASE g.current = x.reg.made + 1 /\ g.refs[x.reg.made + 1] = 1
      <4>1. Waiting(x.jobs, r) = {}
        BY <1>4, <1>6, <2>1, <3>2 DEF Waiting, ServiceOK, JobsOK, Jobs, Runtimes
      <4>2. Cardinality(Waiting(x.jobs, r)) = 0
        BY <4>1, FS_EmptySet
      <4> QED
        BY <2>1, <3>2, <4>2
    <3> QED
      BY <1>2, <3>1, <3>2
  <2> QED
    BY <2>1, <2>2, <2>4, <2>5
<1> QED
  BY <1>2, <1>3, <1>5, <1>7, <1>8, <1>9, <1>10 DEF ServiceOK, j, y

\* A sample begins while none of its rule is under way, unless two changes
\* overlapped one.
LEMMA NewTickIsCalm ==
    ASSUME NEW x, Calm(x), NEW t, t.live, \A u \in x.ticks : u.rule # t.rule,
           NEW y, y.ticks = x.ticks \cup {t}, y.sched = x.sched, y.dev = x.dev, y.jobs = x.jobs
    PROVE  Calm(y)
BY DEF Calm

LEMMA IntervalSchedules ==
    ASSUME RestOK, ServiceInv, NEW w \in Rules, IntervalFires(w)
    PROVE  ServiceInv'
<1>1. /\ w \in sched /\ WaitsFor(w) = {} /\ Free(Of(w)) # {}
      /\ enabled' = enabled /\ slips' = slips
  BY DEF IntervalFires
<1>2. /\ ServiceOK(Now) /\ Awaited(Now, enabled) /\ ("overlap" \notin slips => Calm(Now))
      /\ Now.sched = sched /\ Now.ticks = ticks /\ Now.jobs = jobs /\ Now.dev = dev /\ Now.reg = reg
  BY DEF ServiceInv, CalmUnlessOverlap, Now
<1>3. "overlap" \notin slips => \A u \in ticks : u.rule # w
  BY <1>1, <1>2 DEF Calm, WaitsFor
<1>4. jobs \subseteq Jobs /\ dev \in Devices
  BY <1>2 DEF ServiceOK, Services
<1> DEFINE with(at, j) == [Now EXCEPT !.ticks = @ \cup {NewTick(w, at, j)}]
\* The sample goes on with what is there.
<1>5. ASSUME NEW at \in {"joining", "reading"}, NEW j, j.nth \in {0, 1}, j.rt \in Runtimes
      PROVE  /\ ServiceOK(with(at, j)) /\ Awaited(with(at, j), enabled)
             /\ "overlap" \notin slips => Calm(with(at, j))
             /\ with(at, j).sched = sched /\ with(at, j).dev = dev /\ with(at, j).jobs = jobs
             /\ with(at, j).reg = reg
             /\ with(at, j).ticks = ticks \cup {NewTick(w, at, j)}
             /\ NewTick(w, at, j).rule = w /\ NewTick(w, at, j).at = at /\ NewTick(w, at, j).job = j.nth
  <2> DEFINE t == NewTick(w, at, j)
             y == [Now EXCEPT !.ticks = ticks \cup {t}]
  <2>1. /\ ServiceOK(y) /\ y.sched = sched /\ y.dev = dev
        /\ y.jobs = jobs /\ y.reg = reg /\ y.ticks = ticks \cup {t}
        /\ t.rule = w /\ t.at = at /\ t.job = j.nth /\ t.live
    BY <1>1, <1>2, <1>5, NewTickFits
  <2>2. with(at, j) = y
    BY <1>2 DEF Now
  <2> HIDE DEF y, t, with
  <2>3. Awaited(y, enabled)
    BY <1>2, <2>1 DEF Awaited
  <2>4. "overlap" \notin slips => Calm(y)
    BY <1>2, <1>3, <2>1, NewTickIsCalm
  <2> QED
    BY <2>1, <2>2, <2>3, <2>4 DEF t
<1>6. CASE dev.rt # 0 /\ Becomes(with("reading", [nth |-> 0, rt |-> dev.rt]))
  <2> DEFINE j == [nth |-> 0, rt |-> dev.rt]
  <2>1. j.nth \in {0, 1} /\ j.rt \in Runtimes
    BY <1>4, <1>6, MaxRuntimesAssumption DEF Devices, Runtimes
  <2> HIDE DEF with
  <2>2. /\ ServiceOK(with("reading", j)) /\ Awaited(with("reading", j), enabled)
        /\ "overlap" \notin slips => Calm(with("reading", j))
    BY <1>5, <2>1
  <2> QED
    BY <1>1, <1>6, <2>2, BecomingKeeps
<1>7. CASE \E j \in {j \in jobs : j.own} : Becomes(with("joining", j))
  <2>1. PICK j \in jobs : Becomes(with("joining", j))
    BY <1>7
  <2>2. j.nth \in {0, 1} /\ j.rt \in Runtimes
    BY <1>4 DEF Jobs
  <2> HIDE DEF with
  <2>3. /\ ServiceOK(with("joining", j)) /\ Awaited(with("joining", j), enabled)
        /\ "overlap" \notin slips => Calm(with("joining", j))
    BY <1>5, <2>2
  <2> QED
    BY <1>1, <2>1, <2>3, BecomingKeeps
\* The sample starts a connect() of its own.
<1>8. CASE /\ dev.on /\ dev.rt = 0 /\ {j \in jobs : j.own} = {} /\ CanAcquire(reg) /\ Free(jobs) # {}
           /\ LET g == Connect(Acquire(reg), Acquire(reg).current)
                  j == NewJob(g.current) IN
              Becomes([with("joining", j) EXCEPT !.jobs = @ \cup {j}, !.reg = g])
  <2> DEFINE j == NewJob(Connect(Acquire(reg), Acquire(reg).current).current)
             x == with("joining", j)
             y == Connecting(x)
  <2>1. j.nth \in {0, 1} /\ j.rt \in Runtimes
    <3>1. /\ MayConnect(Now) /\ j = OwnJob(Now)
      BY <1>2, <1>8 DEF MayConnect, OwnJob, Acquired, NewJob
    <3> HIDE DEF j
    <3> QED
      BY <1>2, <3>1, NewJobFits DEF Jobs
  <2> HIDE DEF with, j
  <2>2. /\ ServiceOK(x) /\ Awaited(x, enabled) /\ ("overlap" \notin slips => Calm(x))
        /\ x.sched = sched /\ x.dev = dev /\ x.jobs = jobs /\ x.reg = reg
        /\ x.ticks = ticks \cup {NewTick(w, "joining", j)}
        /\ NewTick(w, "joining", j).rule = w /\ NewTick(w, "joining", j).at = "joining"
        /\ NewTick(w, "joining", j).job = j.nth
    BY <1>5, <2>1
  <2> HIDE DEF x
  <2>3. MayConnect(x) /\ j = OwnJob(x)
    BY <1>8, <2>2 DEF MayConnect, OwnJob, Acquired, NewJob, j
  <2>4. /\ ServiceOK(y) /\ y.sched = x.sched /\ y.dev = x.dev /\ y.ticks = x.ticks
        /\ y.jobs = x.jobs \cup {j} /\ j.own /\ j.adds = {}
    BY <2>2, <2>3, NewJobFits
  <2>5. Becomes(y)
    <3>1. y = [x EXCEPT !.jobs = @ \cup {j}, !.reg = Connect(Acquire(reg), Acquire(reg).current)]
      BY <2>2, <2>3 DEF Connecting, Acquired
    <3> QED
      BY <1>8, <3>1 DEF x, j
  <2> HIDE DEF y
  <2>6. Awaited(y, enabled)
    BY <2>2, <2>4 DEF Awaited
  <2>7. ASSUME "overlap" \notin slips PROVE Calm(y)
    <3>1. w \in dev.rules
      BY <1>1, <1>2, <2>7 DEF Calm
    <3>2. \A i \in y.jobs : i.own => \E t \in y.ticks : t.at = "joining" /\ t.job = i.nth /\ t.rule \in y.dev.rules
      BY <2>2, <2>4, <2>7, <3>1 DEF Calm
    <3>3. \A i \in y.jobs : i.adds = {}
      BY <2>2, <2>4, <2>7 DEF Calm
    <3> QED
      BY <2>2, <2>4, <2>7, <3>2, <3>3 DEF Calm
  <2> QED
    BY <1>1, <2>4, <2>5, <2>6, <2>7, BecomingKeeps
<1> QED
  BY <1>6, <1>7, <1>8 DEF IntervalFires

\* A sample ends, whose connect() is over.
LEMMA EndSchedules ==
    ASSUME RestOK, ServiceInv, NEW t \in ticks, t.at # "joining", slips' = slips,
           End(t) \/ Retire(t)
    PROVE  ServiceInv'
<1>1. /\ ServiceOK(Now) /\ Awaited(Now, enabled) /\ ("overlap" \notin slips => Calm(Now))
      /\ Now.sched = sched /\ Now.ticks = ticks /\ Now.jobs = jobs
      /\ enabled \subseteq Rules
  BY DEF ServiceInv, CalmUnlessOverlap, Now, RestOK
<1>2. /\ t \in Ticks /\ t.rule \in Rules
      /\ \A u \in ticks : u.rule = t.rule /\ u.nth = t.nth => u = t
      /\ t.live => ~t.refresh
  BY <1>1 DEF ServiceOK, Services, TicksOK, Ticks
<1>3. "overlap" \notin slips /\ t.refresh => t.rule \notin sched
  BY <1>1, <1>2 DEF Calm
<1>4. CASE End(t)
  <2> DEFINE z == After(t, Now, t.rule \in enabled)
  <2>1. ServiceOK(z) /\ Awaited(z, enabled)
    <3>1. /\ Now.sched \subseteq enabled
          /\ \A w \in enabled : \/ w \in Now.sched
                                \/ \E u \in Now.ticks : /\ u.rule = w /\ u.refresh
                                                        /\ u.rule = t.rule /\ u.nth = t.nth => t.refresh
                                \/ \E j \in Now.jobs : w \in j.adds
      BY <1>1, <1>2 DEF Awaited
    <3> QED
      BY <1>1, <1>2, <3>1, EndAwaited
  <2>2. "overlap" \notin slips => Calm(z)
    <3> DEFINE on == t.rule \in enabled
    <3>1. on \in BOOLEAN
      OBVIOUS
    <3> HIDE DEF on
    <3>2. "overlap" \notin slips => Calm(After(t, Now, on))
      BY <1>1, <1>2, <1>3, <3>1, EndIsCalm
    <3> QED
      BY <3>2 DEF on
  <2>3. enabled' = enabled /\ Becomes(z)
    BY <1>4 DEF End, EndIn, After, Without
  <2> HIDE DEF z
  <2> QED
    BY <2>1, <2>2, <2>3, BecomingKeeps
<1>5. CASE Retire(t)
  <2> DEFINE w == t.rule
             x == Teardown(Now, w)
             en == enabled \ {w}
             z == After(t, x, w \in en)
  <2>1. /\ ServiceOK(x) /\ x.sched = sched \ {w}
        /\ \A u \in ticks : \E v \in x.ticks :
              /\ v.rule = u.rule /\ v.nth = u.nth /\ v.at = u.at
              /\ u.rule # w => (v.refresh <=> u.refresh)
        /\ \A j \in jobs : \E k \in x.jobs : j.adds \subseteq k.adds
    BY <1>1, <1>2, TearingFits
  <2> HIDE DEF x
  <2>2. ServiceOK(z) /\ Awaited(z, en)
    <3>1. x.sched \subseteq en /\ en \in SUBSET Rules
      BY <1>1, <2>1 DEF Awaited
    <3>2. ASSUME NEW v \in en
          PROVE  \/ v \in x.sched
                 \/ \E u \in x.ticks : /\ u.rule = v /\ u.refresh
                                       /\ u.rule = t.rule /\ u.nth = t.nth => t.refresh
                 \/ \E j \in x.jobs : v \in j.adds
      BY <1>1, <2>1 DEF Awaited
    <3> QED
      BY <1>2, <2>1, <3>1, <3>2, EndAwaited
  <2>3. ASSUME "overlap" \notin slips PROVE Calm(z)
    <3>1. Calm(x)
      <4>1. \A u \in Now.ticks : u.rule = w => u.at # "joining"
        BY <1>1, <2>3 DEF Calm
      <4> QED
        BY <1>1, <1>2, <2>3, <4>1, TearingIsCalm DEF x
    <3>2. PICK u \in x.ticks : u.rule = t.rule /\ u.nth = t.nth /\ u.at # "joining"
      BY <2>1
    <3> DEFINE on == w \in en
    <3>3. on \in BOOLEAN
      OBVIOUS
    <3> HIDE DEF on
    <3>4. Calm(After(t, x, on))
      BY <1>2, <2>1, <3>1, <3>2, <3>3, EndIsCalm
    <3> QED
      BY <3>4 DEF on
  <2>4. enabled' = en /\ Becomes(z)
    BY <1>5 DEF Retire, EndIn, After, Without, x
  <2> HIDE DEF z, en
  <2> QED
    BY <2>2, <2>3, <2>4, BecomingKeeps
<1> QED
  BY <1>4, <1>5

\* A sample whose connect() is over goes on.
LEMMA GoingSchedules ==
    ASSUME RestOK, ServiceInv, NEW t \in ticks, t.at # "joining", slips' = slips,
           NEW at \in {"asking", "firing"}, NEW s \in States, GoesTo(t, at, s)
    PROVE  ServiceInv'
<1> DEFINE u == [t EXCEPT !.at = at, !.seen = s]
           T == (ticks \ {t}) \cup {u}
           y == [Now EXCEPT !.ticks = T]
<1>1. /\ ServiceOK(Now) /\ Awaited(Now, enabled) /\ ("overlap" \notin slips => Calm(Now))
      /\ Now.sched = sched /\ Now.ticks = ticks /\ Now.jobs = jobs /\ Now.dev = dev
  BY DEF ServiceInv, CalmUnlessOverlap, Now
<1>2. ticks \subseteq Ticks /\ TicksOK(Now)
  BY <1>1 DEF ServiceOK, Services
<1>3. /\ u \in Ticks /\ u.rule = t.rule /\ u.nth = t.nth /\ u.live = t.live /\ u.refresh = t.refresh
  BY <1>2 DEF Ticks
<1>4. Becomes(y) /\ enabled' = enabled
  BY <1>1 DEF GoesTo
<1> HIDE DEF u
<1>5. /\ T \in SUBSET Ticks
      /\ \A v, w \in T : v.rule = w.rule /\ v.nth = w.nth => v = w
      /\ \A v \in T : v.live => ~v.refresh
  BY <1>1, <1>2, <1>3 DEF TicksOK
<1> HIDE DEF T
<1>6. /\ ServiceOK(y) /\ y.sched = sched /\ y.dev = dev /\ y.jobs = jobs /\ y.ticks = T
  BY <1>1, <1>5, SamplesFit
<1> HIDE DEF y
<1>7. \A v \in ticks : v = t \/ v \in T
  BY DEF T
<1>8. u \in T /\ \A v \in T : v = u \/ (v \in ticks /\ v # t)
  BY DEF T
<1>9. Awaited(y, enabled)
  <2>1. \A w \in Rules : (\E v \in ticks : v.rule = w /\ v.refresh) => \E v \in T : v.rule = w /\ v.refresh
    BY <1>3, <1>7, <1>8
  <2> QED
    BY <1>1, <1>6, <2>1 DEF Awaited, RestOK
<1>10. ASSUME "overlap" \notin slips PROVE Calm(y)
  <2>1. \A v, w \in T : v.rule = w.rule => v = w
    BY <1>1, <1>3, <1>8, <1>10 DEF Calm
  <2>2. \A v \in T : v.rule \in sched => v.live
    BY <1>1, <1>3, <1>8, <1>10 DEF Calm
  <2>3. \A j \in jobs : j.own => \E v \in T : v.at = "joining" /\ v.job = j.nth /\ v.rule \in dev.rules
    BY <1>1, <1>7, <1>10 DEF Calm
  <2> QED
    BY <1>1, <1>6, <1>10, <2>1, <2>2, <2>3 DEF Calm
<1> QED
  BY <1>4, <1>6, <1>9, <1>10, BecomingKeeps

\* What a sample that waits for promise j hears.
Hears(t, j, kept) == IF t.at = "joining" /\ t.job = j.nth
                     THEN [t EXCEPT !.at = IF kept THEN "reading" ELSE "failed"] ELSE t

\* The promise is over, and with it the reference to its runtime, or the device
\* has the runtime now.
Settles(j, kept) ==
    [Now EXCEPT !.jobs = @ \ {j},
                !.dev.rt = IF kept THEN j.rt ELSE @,
                !.reg = IF kept THEN @ ELSE Release(@, j.rt),
                !.ticks = {Hears(t, j, kept) : t \in @}]

LEMMA HearingFits ==
    ASSUME NEW t \in Ticks, NEW j, NEW kept \in BOOLEAN
    PROVE  /\ Hears(t, j, kept) \in Ticks
           /\ Hears(t, j, kept).rule = t.rule /\ Hears(t, j, kept).nth = t.nth
           /\ Hears(t, j, kept).live = t.live /\ Hears(t, j, kept).refresh = t.refresh
           /\ Hears(t, j, kept).job = t.job
           /\ t.job # j.nth => Hears(t, j, kept).at = t.at
BY DEF Hears, Ticks

LEMMA SettlingFits ==
    ASSUME ServiceOK(Now), NEW j \in jobs, NEW kept \in BOOLEAN, kept => j.own
    PROVE  LET y == Settles(j, kept) IN
           /\ ServiceOK(y) /\ y.sched = sched /\ y.jobs = jobs \ {j}
           /\ y.dev.rules = dev.rules
           /\ y.ticks = {Hears(t, j, kept) : t \in ticks}
<1> DEFINE g == IF kept THEN reg ELSE Release(reg, j.rt)
           d == [dev EXCEPT !.rt = IF kept THEN j.rt ELSE @]
           T == {Hears(t, j, kept) : t \in ticks}
           y == Settles(j, kept)
<1>1. /\ Now.sched = sched /\ Now.dev = dev /\ Now.jobs = jobs /\ Now.ticks = ticks /\ Now.reg = reg
      /\ Now \in Services /\ dev \in Devices /\ jobs \subseteq Jobs /\ ticks \subseteq Ticks
      /\ RegistryOK(reg) /\ j \in Jobs
  BY DEF Now, ServiceOK, Services
<1>2. RegistryOK(g) /\ g.made = reg.made /\ g \in Registries
  BY <1>1, ReleaseKeepsRegistry DEF RegistryOK
<1>3. /\ d \in Devices /\ d.on = dev.on /\ d.rules = dev.rules
      /\ d.rt = IF kept THEN j.rt ELSE dev.rt
  BY <1>1, MaxRuntimesAssumption DEF Devices, Jobs, Runtimes
<1>4. \A t \in ticks :
        /\ Hears(t, j, kept) \in Ticks
        /\ Hears(t, j, kept).rule = t.rule /\ Hears(t, j, kept).nth = t.nth
        /\ Hears(t, j, kept).live = t.live /\ Hears(t, j, kept).refresh = t.refresh
  BY <1>1, HearingFits
<1>5. y = [Now EXCEPT !.jobs = jobs \ {j}, !.dev = d, !.reg = g, !.ticks = T]
  BY <1>1 DEF Settles
<1>6. T \in SUBSET Ticks
  BY <1>4
<1>7. TicksOK(Now) /\ JobsOK(Now) /\ DeviceOK(Now) /\ Counted(Now)
  BY DEF ServiceOK
<1>8. /\ \A t, u \in T : t.rule = u.rule /\ t.nth = u.nth => t = u
      /\ \A t \in T : t.live => ~t.refresh
  BY <1>1, <1>4, <1>7 DEF TicksOK
<1> HIDE DEF g, d, T, y
<1>9. /\ y \in Services /\ y.sched = sched /\ y.jobs = jobs \ {j} /\ y.dev = d /\ y.reg = g /\ y.ticks = T
  BY <1>1, <1>2, <1>3, <1>5, <1>6 DEF Services
<1>10. TicksOK(y) /\ JobsOK(y)
  BY <1>1, <1>2, <1>7, <1>8, <1>9 DEF TicksOK, JobsOK
<1>11. DeviceOK(y)
  <2>1. CASE kept
    BY <1>1, <1>2, <1>3, <1>7, <1>9, <2>1 DEF DeviceOK, JobsOK
  <2>2. CASE ~kept
    BY <1>1, <1>2, <1>3, <1>7, <1>9, <2>2 DEF DeviceOK
  <2> QED
    BY <2>1, <2>2
<1>12. Counted(y)
  <2> SUFFICES ASSUME NEW r \in Runtimes, Alive(g, r)
               PROVE  g.refs[r] = Cardinality(Waiting(jobs \ {j}, r)) + (IF d.rt = r THEN 1 ELSE 0)
    BY <1>9, Zenon DEF Counted
  <2>1. r # 0 /\ IsFiniteSet(Waiting(jobs, r)) /\ Cardinality(Waiting(jobs, r)) \in Nat
    BY <1>1, <1>7, JobsAreFinite, MaxRuntimesAssumption DEF Runtimes
  <2>2. Cardinality(Waiting(jobs \ {j}, r))
            = IF j.rt = r THEN Cardinality(Waiting(jobs, r)) - 1 ELSE Cardinality(Waiting(jobs, r))
    <3> DEFINE W == Waiting(jobs, r)
    <3>1. Cardinality(W \ {j}) = IF j \in W THEN Cardinality(W) - 1 ELSE Cardinality(W)
      BY <2>1, FS_RemoveElement, Zenon
    <3>2. Waiting(jobs \ {j}, r) = W \ {j}
      BY DEF Waiting
    <3>3. j \in W <=> j.rt = r
      BY DEF Waiting
    <3> QED
      BY <3>1, <3>2, <3>3
  <2>3. /\ Alive(reg, r)
        /\ g.refs[r] = IF ~kept /\ r = j.rt THEN reg.refs[r] - 1 ELSE reg.refs[r]
    <3>1. Lessened(reg, Release(reg, j.rt), j.rt)
      BY <1>1, ReleaseKeepsRegistry
    <3> QED
      BY <3>1 DEF g, Lessened
  <2>4. reg.refs[r] = Cardinality(Waiting(jobs, r)) + (IF dev.rt = r THEN 1 ELSE 0)
    BY <1>1, <1>7, <2>3 DEF Counted
  <2>5. kept => dev.rt = 0
    BY <1>1, <1>7 DEF DeviceOK
  <2> HIDE DEF Waiting
  <2> QED
    BY <1>3, <2>1, <2>2, <2>3, <2>4, <2>5
<1> QED
  BY <1>2, <1>3, <1>9, <1>10, <1>11, <1>12 DEF ServiceOK, T, y

\* connect() comes back to the service.
LEMMA JobSchedules ==
    ASSUME RestOK, ServiceInv, NEW j \in jobs, JobSettles(j)
    PROVE  ServiceInv'
<1> DEFINE kept == Kept(j)
           y == Settles(j, kept)
           back == j.adds \cap enabled
           x == AddRules(y, back)
<1>1. /\ ServiceOK(Now) /\ Awaited(Now, enabled) /\ ("overlap" \notin slips => Calm(Now))
      /\ Now.sched = sched /\ Now.ticks = ticks /\ Now.jobs = jobs /\ Now.dev = dev
      /\ ticks \subseteq Ticks /\ j \in Jobs
  BY DEF ServiceInv, CalmUnlessOverlap, Now, ServiceOK, Services
<1>2. Becomes(x) /\ enabled' = enabled /\ slips' = slips
  BY DEF JobSettles, Settles, Hears
<1>3. kept \in BOOLEAN /\ (kept => j.own)
  BY <1>1 DEF Kept, Jobs
<1> HIDE DEF kept
<1>4. /\ ServiceOK(y) /\ y.sched = sched /\ y.jobs = jobs \ {j}
      /\ y.dev.rules = dev.rules
      /\ y.ticks = {Hears(t, j, kept) : t \in ticks}
  BY <1>1, <1>3, SettlingFits
<1>5. back \in SUBSET Rules
  BY <1>1 DEF Jobs
<1> HIDE DEF y, back
<1>6. /\ ServiceOK(x) /\ x.sched = sched \cup back /\ x.ticks = y.ticks /\ x.jobs = y.jobs
      /\ x.dev.rules = dev.rules \cup (back \ sched)
  BY <1>4, <1>5, AddingFits
<1> HIDE DEF x
<1>7. \A t \in ticks :
        /\ Hears(t, j, kept) \in x.ticks
        /\ Hears(t, j, kept).rule = t.rule /\ Hears(t, j, kept).job = t.job
        /\ Hears(t, j, kept).live = t.live /\ Hears(t, j, kept).refresh = t.refresh
        /\ t.job # j.nth => Hears(t, j, kept).at = t.at
  BY <1>1, <1>3, <1>4, <1>6, HearingFits
<1>8. Awaited(x, enabled)
  <2>1. x.sched \subseteq enabled
    BY <1>1, <1>6 DEF Awaited, back
  <2>2. ASSUME NEW w \in enabled
        PROVE  \/ w \in x.sched
               \/ \E t \in x.ticks : t.rule = w /\ t.refresh
               \/ \E i \in x.jobs : w \in i.adds
    <3>1. CASE w \in sched
      BY <1>6, <3>1
    <3>2. CASE \E t \in ticks : t.rule = w /\ t.refresh
      BY <1>7, <3>2
    <3>3. CASE \E i \in jobs : w \in i.adds
      BY <1>4, <1>6, <3>3 DEF back
    <3> QED
      BY <1>1, <3>1, <3>2, <3>3 DEF Awaited
  <2> QED
    BY <2>1, <2>2 DEF Awaited
<1>9. ASSUME "overlap" \notin slips PROVE Calm(x)
  <2>1. x.sched = sched /\ x.dev.rules = dev.rules /\ x.jobs = jobs \ {j}
    BY <1>1, <1>4, <1>6, <1>9 DEF Calm, back
  <2>2. \A t, u \in x.ticks : t.rule = u.rule => t = u
    BY <1>1, <1>4, <1>6, <1>7, <1>9 DEF Calm
  <2>3. \A t \in x.ticks : t.rule \in sched => t.live
    BY <1>1, <1>4, <1>6, <1>7, <1>9 DEF Calm
  <2>4. ASSUME NEW i \in jobs \ {j}, i.own
        PROVE  \E t \in x.ticks : t.at = "joining" /\ t.job = i.nth /\ t.rule \in dev.rules
    <3>1. i.nth # j.nth
      BY <1>1 DEF ServiceOK, JobsOK
    <3>2. PICK t \in ticks : t.at = "joining" /\ t.job = i.nth /\ t.rule \in dev.rules
      BY <1>1, <1>9, <2>4 DEF Calm
    <3> QED
      BY <1>7, <3>1, <3>2
  <2> QED
    BY <1>1, <1>9, <2>1, <2>2, <2>3, <2>4 DEF Calm
<1> QED
  BY <1>2, <1>6, <1>8, <1>9, BecomingKeeps

\* The device lets go of its runtime, or only the registry changes.
LEMMA RuntimeFits ==
    ASSUME ServiceInv, NEW g, RegistryOK(g), g.made = reg.made, NEW rt, rt \in {0, dev.rt},
           \A r \in Runtimes : Alive(g, r) =>
              Alive(reg, r) /\ g.refs[r] = IF rt # dev.rt /\ r = dev.rt THEN reg.refs[r] - 1 ELSE reg.refs[r],
           reg' = g, dev' = [dev EXCEPT !.rt = rt],
           UNCHANGED <<sched, jobs, ticks, enabled, slips>>
    PROVE  ServiceInv'
<1> DEFINE d == [dev EXCEPT !.rt = rt]
           y == [Now EXCEPT !.reg = g, !.dev = d]
<1>1. /\ ServiceOK(Now) /\ Awaited(Now, enabled) /\ ("overlap" \notin slips => Calm(Now))
      /\ Now.sched = sched /\ Now.dev = dev /\ Now.jobs = jobs /\ Now.ticks = ticks /\ Now.reg = reg
      /\ Now \in Services /\ dev \in Devices
  BY DEF ServiceInv, CalmUnlessOverlap, Now, ServiceOK, Services
<1>2. d \in Devices /\ d.on = dev.on /\ d.rules = dev.rules /\ d.rt = rt
  BY <1>1, MaxRuntimesAssumption DEF Devices
<1>3. dev' = d
  OBVIOUS
<1> HIDE DEF d
<1>4. /\ y \in Services /\ y.sched = sched /\ y.dev = d /\ y.jobs = jobs /\ y.ticks = ticks /\ y.reg = g
  BY <1>1, <1>2 DEF Services, RegistryOK
<1>5. Becomes(y)
  BY <1>3, <1>4 DEF Becomes
<1> HIDE DEF y
<1>6. JobsOK(y) /\ TicksOK(y)
  BY <1>1, <1>4 DEF ServiceOK, JobsOK, TicksOK
<1>7. DeviceOK(y)
  <2>1. 0 <= reg.made
    BY <1>1, MaxRuntimesAssumption DEF Services, Registries
  <2> QED
    BY <1>1, <1>2, <1>4, <2>1 DEF ServiceOK, DeviceOK
<1>8. Counted(y)
  <2> SUFFICES ASSUME NEW r \in Runtimes, Alive(g, r)
               PROVE  g.refs[r] = Cardinality(Waiting(jobs, r)) + (IF rt = r THEN 1 ELSE 0)
    BY <1>2, <1>4, Zenon DEF Counted
  <2>1. r # 0 /\ Cardinality(Waiting(jobs, r)) \in Nat
    BY <1>1, JobsAreFinite, MaxRuntimesAssumption DEF ServiceOK, Runtimes
  <2>2. /\ g.refs[r] = IF rt # dev.rt /\ r = dev.rt THEN reg.refs[r] - 1 ELSE reg.refs[r]
        /\ reg.refs[r] = Cardinality(Waiting(jobs, r)) + (IF dev.rt = r THEN 1 ELSE 0)
    BY <1>1 DEF ServiceOK, Counted
  <2> QED
    BY <2>1, <2>2
<1>9. Awaited(y, enabled) /\ (Calm(Now) => Calm(y))
  BY <1>1, <1>2, <1>4 DEF Awaited, Calm
<1> QED
  BY <1>1, <1>4, <1>5, <1>6, <1>7, <1>8, <1>9, BecomingKeeps DEF ServiceOK

LEMMA RuntimeSchedules ==
    ASSUME ServiceInv, NEW r \in Runtimes, ConnectSettles(r) \/ RuntimeEnds(r)
    PROVE  ServiceInv'
<1>1. RegistryOK(reg) /\ reg \in Registries /\ dev \in Devices
  BY DEF ServiceInv, ServiceOK, Services, Now, RegistryOK
<1>2. dev = [dev EXCEPT !.rt = dev.rt]
  BY <1>1 DEF Devices
<1>3. ASSUME NEW ok \in BOOLEAN, NEW h, h \in {Settle(reg, r, ok), Lose(reg, r), Settle(Lose(reg, r), r, ok)}
      PROVE  /\ RegistryOK(h) /\ h.made = reg.made
             /\ \A s \in Runtimes : Alive(h, s) => Alive(reg, s) /\ h.refs[s] = reg.refs[s]
  BY <1>1, <1>3, EndingKeepsRegistry, EndingKeepsCounts
\* Nobody lets go of a runtime.
<1>4. ASSUME NEW ok \in BOOLEAN, NEW h, h \in {Settle(reg, r, ok), Lose(reg, r), Settle(Lose(reg, r), r, ok)},
             reg' = h, dev' = dev, UNCHANGED <<sched, jobs, ticks, enabled, slips>>
      PROVE  ServiceInv'
  BY <1>2, <1>3, <1>4, RuntimeFits
<1>5. CASE ConnectSettles(r)
  BY <1>4, <1>5 DEF ConnectSettles
<1>6. CASE RuntimeEnds(r)
  <2>1. PICK ok \in BOOLEAN :
          LET gone == IF reg.life[r] = "up" THEN Lose(reg, r) ELSE Settle(Lose(reg, r), r, ok) IN
          IF dev.rt = r THEN reg' = Release(gone, r) /\ dev' = [dev EXCEPT !.rt = 0]
          ELSE reg' = gone /\ UNCHANGED dev
    BY <1>6 DEF RuntimeEnds
  <2>2. UNCHANGED <<sched, jobs, ticks, enabled, slips>>
    BY <1>6 DEF RuntimeEnds
  <2>3. PICK h \in {Settle(reg, r, ok), Lose(reg, r), Settle(Lose(reg, r), r, ok)} :
          IF dev.rt = r THEN reg' = Release(h, r) /\ dev' = [dev EXCEPT !.rt = 0]
          ELSE reg' = h /\ dev' = dev
    BY <2>1
  <2>4. CASE dev.rt # r
    BY <1>4, <2>2, <2>3, <2>4
  <2>5. CASE dev.rt = r
    <3> DEFINE g == Release(h, r)
    <3>1. RegistryOK(g) /\ g.made = reg.made /\ Lessened(h, g, r)
      BY <1>3, ReleaseKeepsRegistry
    <3>2. reg' = g /\ dev' = [dev EXCEPT !.rt = 0]
      BY <2>3, <2>5
    <3> HIDE DEF g
    <3>3. \A s \in Runtimes : Alive(g, s) =>
             Alive(reg, s) /\ g.refs[s] = IF 0 # dev.rt /\ s = dev.rt THEN reg.refs[s] - 1 ELSE reg.refs[s]
      <4>1. r # 0
        BY MaxRuntimesAssumption DEF Runtimes
      <4> QED
        BY <1>3, <2>5, <3>1, <4>1 DEF Lessened
    <3> QED
      BY <2>2, <3>1, <3>2, <3>3, RuntimeFits
  <2> QED
    BY <2>4, <2>5
<1> QED
  BY <1>5, <1>6

\* A sample that reads, asks or rings.
LEMMA SampleGoesOn ==
    ASSUME ServiceInv, RestOK, NEW t \in ticks,
           ReadFails(t) \/ ReadsScreen(t) \/ ModelAnswers(t) \/ AlarmSent(t)
    PROVE  /\ t.at # "joining" /\ slips' = slips
           /\ \/ End(t) \/ Retire(t)
              \/ \E at \in {"asking", "firing"}, s \in States : GoesTo(t, at, s)
<1>1. t.rule \in Rules /\ state[t.rule] \in States /\ NewState \in States
  <2>1. t \in Ticks
    BY DEF ServiceInv, ServiceOK, Services, Now
  <2>2. NewState \in States
    BY WatchAssumption DEF NewState, States, Screens, Never
  <2> QED
    BY <2>1, <2>2 DEF Ticks, RestOK
<1>2. CASE ReadFails(t)
  <2>1. CASE t.rule \notin sched
    BY <1>2, <2>1 DEF ReadFails
  <2>2. CASE t.rule \in sched
    BY <1>2, <2>2 DEF ReadFails, RecordError
  <2> QED
    BY <2>1, <2>2
<1>3. CASE ReadsScreen(t)
  BY <1>1, <1>3 DEF ReadsScreen, Rings
<1>4. CASE ModelAnswers(t)
  BY <1>1, <1>4 DEF ModelAnswers, Rings, RecordError
<1>5. CASE AlarmSent(t)
  BY <1>5 DEF AlarmSent
<1> QED
  BY <1>2, <1>3, <1>4, <1>5

LEMMA SampleSchedules ==
    ASSUME ServiceInv, RestOK, NEW t \in ticks,
           ReadFails(t) \/ ReadsScreen(t) \/ ModelAnswers(t) \/ AlarmSent(t)
    PROVE  ServiceInv'
BY SampleGoesOn, EndSchedules, GoingSchedules

\* What stands where is left alone.
LEMMA RestSchedules ==
    ASSUME ServiceInv, Minute \/ UNCHANGED vars
    PROVE  ServiceInv'
<1>1. UNCHANGED <<enabled, sched, dev, jobs, ticks, reg, slips>>
  BY DEF Minute, vars
<1>2. Becomes(Now)
  BY <1>1 DEF Becomes, Now
<1> QED
  BY <1>1, <1>2, BecomingKeeps DEF ServiceInv, CalmUnlessOverlap

-----------------------------------------------------------------------------
(* The other variables: what a sample is judged by, and what it finds      *)

LEMMA EvaluatedIsState ==
    ASSUME RestOK, NEW w \in Rules, NEW s \in States, NEW v \in Screens, NEW now \in 0 .. MaxClock
    PROVE  Evaluated(w, s, v, now) \in States
<1>1. NoMatch \in Screens /\ Never \in {Never} \cup 0 .. MaxClock
  BY DEF Screens
<1> QED
  BY <1>1 DEF Evaluated, States

\* What a sample writes is a state of the rule, and is all that it writes.
LEMMA SampleKeepsRest ==
    ASSUME ServiceInv, RestOK, NEW t \in ticks,
           ReadFails(t) \/ ReadsScreen(t) \/ ModelAnswers(t) \/ AlarmSent(t)
    PROVE  RestOK'
<1>1. t \in Ticks
  BY DEF ServiceInv, ServiceOK, Services, Now
<1>2. /\ t.rule \in Rules /\ state[t.rule] \in States /\ t.seen \in States /\ t.now \in 0 .. MaxClock
  BY <1>1 DEF Ticks, RestOK
<1>3. ASSUME NEW s \in States, Writes(t.rule, s) PROVE state' \in [Rules -> States]
  BY <1>2, <1>3 DEF Writes, RestOK
<1>4. ASSUME NEW s \in States, NEW n \in 0 .. Threshold PROVE [s EXCEPT !.errors = n] \in States
  BY DEF States
<1>5. ASSUME NEW before \in 0 .. Threshold, RecordError(t, before) PROVE state' \in [Rules -> States]
  <2> DEFINE n == IF before + 1 > Threshold THEN Threshold ELSE before + 1
  <2>1. n \in 0 .. Threshold
    BY WatchAssumption
  <2>2. Writes(t.rule, [state[t.rule] EXCEPT !.errors = n])
    BY <1>5 DEF RecordError
  <2> HIDE DEF n
  <2> QED
    BY <1>2, <1>3, <1>4, <2>1, <2>2
<1>6. 0 \in 0 .. Threshold /\ state[t.rule].errors \in 0 .. Threshold /\ t.seen.errors \in 0 .. Threshold
  BY <1>2, WatchAssumption DEF States
<1>7. UNCHANGED <<kind, clock, patches, slips>>
  BY DEF ReadFails, ReadsScreen, ModelAnswers, AlarmSent
<1>8. state' \in [Rules -> States]
  <2>1. CASE ReadFails(t)
    BY <1>5, <1>6, <2>1 DEF ReadFails, RestOK
  <2>2. CASE ReadsScreen(t)
    <3>1. state' = state \/ \E v \in Screens :
             Writes(t.rule, [Evaluated(t.rule, state[t.rule], v, t.now) EXCEPT !.errors = 0])
      BY <2>2 DEF ReadsScreen, Rings
    <3>2. \A v \in Screens : [Evaluated(t.rule, state[t.rule], v, t.now) EXCEPT !.errors = 0] \in States
      BY <1>2, <1>4, <1>6, EvaluatedIsState
    <3> QED
      BY <1>3, <3>1, <3>2 DEF RestOK
  <2>3. CASE ModelAnswers(t)
    <3>1. \/ state' = state \/ RecordError(t, t.seen.errors)
          \/ Writes(t.rule, [state[t.rule] EXCEPT !.errors = 0])
      BY <2>3 DEF ModelAnswers
    <3> QED
      BY <1>2, <1>3, <1>4, <1>5, <1>6, <3>1 DEF RestOK
  <2>4. CASE AlarmSent(t)
    <3> DEFINE s == state[t.rule]
               u == [s EXCEPT !.errors = 0, !.last = t.now, !.fired = @ \/ kind[t.rule].type = "unchanged"]
    <3>1. state' = state \/ Writes(t.rule, u)
      BY <2>4 DEF AlarmSent
    <3>2. u \in States
      BY <1>2, <1>6 DEF States
    <3> HIDE DEF u
    <3> QED
      BY <1>3, <3>1, <3>2 DEF RestOK
  <2> QED
    BY <2>1, <2>2, <2>3, <2>4
<1>9. enabled' \subseteq enabled
  <2>1. \/ End(t) \/ Retire(t)
        \/ \E at \in {"asking", "firing"}, s \in States : GoesTo(t, at, s)
    BY SampleGoesOn
  <2> QED
    BY <2>1 DEF End, Retire, EndIn, GoesTo
<1>10. alarms' \in [Rules -> 0 .. 2]
  <2>1. \A w \in Rules : alarms[w] \in 0 .. 2
    BY DEF RestOK
  <2>2. [alarms EXCEPT ![t.rule] = IF @ < 2 THEN @ + 1 ELSE @] \in [Rules -> 0 .. 2]
    BY <1>2, <2>1 DEF RestOK
  <2>3. [alarms EXCEPT ![t.rule] = 0] \in [Rules -> 0 .. 2]
    <3>1. 0 \in 0 .. 2
      OBVIOUS
    <3> QED
      BY <3>1 DEF RestOK
  <2> DEFINE more == [alarms EXCEPT ![t.rule] = IF @ < 2 THEN @ + 1 ELSE @]
             none == [alarms EXCEPT ![t.rule] = 0]
  <2>4. Rings(t) => alarms' = more
    BY DEF Rings
  <2> HIDE DEF more, none
  <2>5. alarms' \in {alarms, more, none}
    BY <2>4 DEF ReadFails, ReadsScreen, ModelAnswers, AlarmSent, none
  <2> QED
    BY <2>2, <2>3, <2>5 DEF RestOK, more, none
<1> QED
  BY <1>7, <1>8, <1>9, <1>10 DEF RestOK

LEMMA OthersKeepRest ==
    ASSUME RestOK,
           \/ \E w \in Rules : PatchRule(w) \/ IntervalFires(w)
           \/ \E j \in jobs : JobSettles(j)
           \/ \E r \in Runtimes : ConnectSettles(r) \/ RuntimeEnds(r)
           \/ Minute
           \/ UNCHANGED vars
    PROVE  RestOK'
<1>1. ASSUME NEW w \in Rules, PatchRule(w) PROVE RestOK'
  <2>1. enabled' \subseteq Rules
    BY <1>1 DEF PatchRule, RestOK
  <2>2. alarms' \in [Rules -> 0 .. 2]
    BY <1>1 DEF PatchRule, RestOK
  <2>3. slips' \subseteq Slips
    BY <1>1 DEF PatchRule, RestOK, Slips
  <2>4. patches' \in 0 .. MaxPatches
    BY <1>1, WatchAssumption DEF PatchRule, RestOK
  <2>5. UNCHANGED <<kind, clock, state>>
    BY <1>1 DEF PatchRule
  <2> QED
    BY <2>1, <2>2, <2>3, <2>4, <2>5 DEF RestOK
<1>2. CASE Minute
  BY <1>2, WatchAssumption DEF Minute, RestOK
<1>3. CASE UNCHANGED <<kind, clock, enabled, state, alarms, patches, slips>>
  BY <1>3 DEF RestOK
<1> QED
  BY <1>1, <1>2, <1>3 DEF IntervalFires, JobSettles, ConnectSettles, RuntimeEnds, vars

-----------------------------------------------------------------------------
(* The invariant holds                                                     *)

WatchInv == RestOK /\ ServiceInv

LEMMA InitWatch == Init => WatchInv
<1> SUFFICES ASSUME Init PROVE WatchInv
  OBVIOUS
<1>1. RestOK
  <2>1. NewState \in States
    BY WatchAssumption DEF NewState, States, Screens, Never
  <2> QED
    BY <2>1, WatchAssumption DEF Init, RestOK
<1>2. Now = [sched |-> Rules, dev |-> [on |-> TRUE, rules |-> Rules, rt |-> 0], jobs |-> {},
             ticks |-> {}, reg |-> NoRuntimes]
  BY DEF Init, Now
<1>3. Rules # {}
  BY WatchAssumption
<1>4. Now \in Services
  BY <1>2, InitRegistry, MaxRuntimesAssumption DEF Services, Devices, RegistryOK
<1>5. RegistryOK(Now.reg) /\ JobsOK(Now) /\ TicksOK(Now)
  BY <1>2, InitRegistry DEF JobsOK, TicksOK
<1>6. DeviceOK(Now)
  BY <1>2, <1>3, InitRegistry DEF DeviceOK, NoRuntimes
<1>7. Counted(Now)
  BY <1>2 DEF Counted, NoRuntimes, Alive
<1>8. Awaited(Now, enabled) /\ Calm(Now)
  BY <1>2 DEF Init, Awaited, Calm
<1> QED
  BY <1>1, <1>4, <1>5, <1>6, <1>7, <1>8 DEF WatchInv, ServiceInv, ServiceOK, CalmUnlessOverlap

LEMMA NextWatch == WatchInv /\ [Next]_vars => WatchInv'
<1> SUFFICES ASSUME RestOK, ServiceInv, [Next]_vars PROVE RestOK' /\ ServiceInv'
  BY DEF WatchInv
<1>1. ASSUME NEW w \in Rules, PatchRule(w) \/ IntervalFires(w) PROVE RestOK' /\ ServiceInv'
  <2>1. enabled \subseteq Rules
    BY DEF RestOK
  <2> QED
    BY <1>1, <2>1, OthersKeepRest, PatchSchedules, IntervalSchedules
<1>2. ASSUME NEW j \in jobs, JobSettles(j) PROVE RestOK' /\ ServiceInv'
  BY <1>2, OthersKeepRest, JobSchedules
<1>3. ASSUME NEW t \in ticks, ReadFails(t) \/ ReadsScreen(t) \/ ModelAnswers(t) \/ AlarmSent(t)
      PROVE  RestOK' /\ ServiceInv'
  BY <1>3, SampleKeepsRest, SampleSchedules
<1>4. ASSUME NEW r \in Runtimes, ConnectSettles(r) \/ RuntimeEnds(r) PROVE RestOK' /\ ServiceInv'
  BY <1>4, OthersKeepRest, RuntimeSchedules
<1>5. CASE Minute \/ UNCHANGED vars
  BY <1>5, OthersKeepRest, RestSchedules
<1> QED
  BY <1>1, <1>2, <1>3, <1>4, <1>5 DEF Next

-----------------------------------------------------------------------------
(* Theorems                                                                *)

LEMMA WatchAlways == Spec => []WatchInv
BY InitWatch, NextWatch, PTL DEF Spec

\* Every variable keeps its type; the device entry has rules, and no runtime
\* besides the one it is connecting (addRule, removeDeviceRef, ensureRuntime).
THEOREM WatchTypes == Spec => []WatchTypeOK
<1>1. WatchInv => WatchTypeOK
  <2> SUFFICES ASSUME RestOK, ServiceOK(Now) PROVE WatchTypeOK
    BY DEF WatchInv, ServiceInv
  <2>1. Now \in Services /\ DeviceOK(Now)
    BY DEF ServiceOK
  <2>2. /\ sched \subseteq Rules /\ dev \in Devices /\ jobs \subseteq Jobs
        /\ ticks \subseteq Ticks /\ reg \in Registries
    BY <2>1 DEF Services, Now
  <2>3. (dev.on <=> dev.rules # {}) /\ (dev.rt # 0 => \A j \in jobs : ~j.own)
    BY <2>1 DEF DeviceOK, Now
  <2> QED
    BY <2>2, <2>3 DEF WatchTypeOK, RestOK, Devices, Jobs
<1> QED
  BY <1>1, WatchAlways, PTL

\* The service's references to a live runtime are exactly its device's and its
\* waiting connects' (ensureRuntime, removeDeviceRef, handleRuntimeClose): however
\* rules come and go while the runtime connects, dies or is read, none is left
\* behind and none is given back twice.
THEOREM ReferencesAreCounted == Spec => []WatchCounts
<1>1. WatchInv => WatchCounts
  <2> SUFFICES ASSUME Counted(Now), NEW r \in Runtimes, Alive(reg, r)
               PROVE  reg.refs[r] = Cardinality({j \in jobs : j.rt = r}) + (IF dev.rt = r THEN 1 ELSE 0)
    BY DEF WatchInv, ServiceInv, ServiceOK, WatchCounts
  <2>1. Now.reg = reg /\ Now.jobs = jobs /\ Now.dev = dev
    BY DEF Now
  <2> QED
    BY <2>1 DEF Counted, Waiting
<1> QED
  BY <1>1, WatchAlways, PTL

\* Every enabled rule is scheduled or will be, no other is, and a rule of the
\* schedule finds its device entry unless two changes overlapped a sample of it
\* (refreshRule, teardownRule, handleTickError, ensureRuntime).
THEOREM RulesComeBack == Spec => []ScheduleAgrees
<1>1. WatchInv => ScheduleAgrees
  <2> SUFFICES ASSUME ServiceInv PROVE ScheduleAgrees
    BY DEF WatchInv
  <2>1. /\ Awaited(Now, enabled) /\ ("overlap" \notin slips => Calm(Now)) /\ DeviceOK(Now)
        /\ Now.sched = sched /\ Now.ticks = ticks /\ Now.jobs = jobs /\ Now.dev = dev
    BY DEF ServiceInv, CalmUnlessOverlap, ServiceOK, Now
  <2>2. EnabledIsScheduled
    BY <2>1 DEF Awaited, EnabledIsScheduled
  <2>3. "overlap" \notin slips => ScheduledIsWatched
    BY <2>1 DEF Calm, DeviceOK, ScheduledIsWatched
  <2> QED
    BY <2>2, <2>3 DEF ScheduleAgrees
<1> QED
  BY <1>1, WatchAlways, PTL

\* Two samples of a rule do not run side by side, unless a second change of the
\* rule overtook the first one's wait (refreshRule).
THEOREM SamplesAreAlone == Spec => []OneSampleAtATime
<1>1. WatchInv => OneSampleAtATime
  BY DEF WatchInv, ServiceInv, CalmUnlessOverlap, Calm, Now, OneSampleAtATime
<1> QED
  BY <1>1, WatchAlways, PTL

-----------------------------------------------------------------------------
(* The rules that ask the model, or ring, and what becomes of them         *)

At(T, at) == {t.rule : t \in {u \in T : u.at = at}}

LEMMA AtOf ==
    ASSUME NEW T, NEW U, NEW at,
           \A t \in T : t.at = at => \E u \in U : u.rule = t.rule /\ u.at = at,
           \A u \in U : u.at = at => \E t \in T : t.rule = u.rule /\ t.at = at
    PROVE  At(T, at) = At(U, at)
BY DEF At

\* No sample is added or lost when a rule leaves the schedule.
LEMMA UnscheduledSamples ==
    ASSUME NEW x, ServiceOK(x), NEW w \in Rules, NEW waits \in BOOLEAN
    PROVE  LET T == Unscheduled(x, w, waits).ticks IN
           /\ \A t \in T : \E u \in x.ticks : u.rule = t.rule /\ u.nth = t.nth /\ u.at = t.at
           /\ \A u \in x.ticks : \E t \in T : t.rule = u.rule /\ t.nth = u.nth /\ t.at = u.at
BY UnschedulingFits

LEMMA TornSamples ==
    ASSUME NEW x, ServiceOK(x), NEW w \in Rules, NEW t \in Teardown(x, w).ticks
    PROVE  \E u \in x.ticks : u.rule = t.rule /\ u.nth = t.nth /\ u.at = t.at
<1>1. CASE w \in x.sched
  <2>1. PICK no \in BOOLEAN : no = FALSE
    OBVIOUS
  <2> DEFINE z == Unscheduled(x, w, no)
  <2>2. /\ ServiceOK(z)
        /\ \A s \in z.ticks : \E u \in x.ticks : u.rule = s.rule /\ u.nth = s.nth /\ u.at = s.at
    BY UnschedulingFits, UnscheduledSamples
  <2>3. Teardown(x, w) = RemoveDeviceRef(z, w, {})
    BY <1>1, <2>1 DEF Teardown
  <2> HIDE DEF z
  <2>4. Teardown(x, w).ticks = z.ticks
    BY <2>2, <2>3, RemovingFits
  <2> QED
    BY <2>2, <2>4
<1>2. CASE w \notin x.sched
  BY <1>2 DEF Teardown
<1> QED
  BY <1>1, <1>2

LEMMA AfterLeaves ==
    ASSUME NEW x, ServiceOK(x), NEW t, t.rule \in Rules, NEW on \in BOOLEAN
    PROVE  /\ After(t, x, on).ticks = {u \in x.ticks : u.rule # t.rule \/ u.nth # t.nth}
           /\ x.sched \subseteq After(t, x, on).sched
<1> DEFINE y == Without(x, t.rule, t.nth)
<1>1. ServiceOK(y) /\ y.sched = x.sched /\ y.ticks = {u \in x.ticks : u.rule # t.rule \/ u.nth # t.nth}
  BY EndingFits
<1> HIDE DEF y
<1>2. Refreshed(y, t.rule, on).ticks = y.ticks /\ y.sched \subseteq Refreshed(y, t.rule, on).sched
  BY <1>1, RefreshingFits
<1> QED
  BY <1>1, <1>2 DEF After, y

\* Where samples of a rule do not overlap, the rule of one that ends neither asks
\* nor rings, and the others are let alone.
LEMMA EndLeaves ==
    ASSUME RestOK, ServiceInv, "overlap" \notin slips, NEW t \in ticks,
           End(t) \/ Retire(t), NEW at
    PROVE  /\ At(ticks', at) = At(ticks, at) \ {t.rule}
           /\ sched \ {t.rule} \subseteq sched'
           /\ End(t) => enabled' = enabled
           /\ Retire(t) => enabled' = enabled \ {t.rule}
<1>1. /\ ServiceOK(Now) /\ Now.sched = sched /\ Now.ticks = ticks
      /\ t.rule \in Rules
      /\ \A u \in ticks : u.rule = t.rule => u = t
  BY DEF ServiceInv, CalmUnlessOverlap, Now, ServiceOK, Services, Ticks, Calm
<1>2. ASSUME NEW x, ServiceOK(x), sched \ {t.rule} \subseteq x.sched, NEW on \in BOOLEAN,
             Becomes(After(t, x, on)),
             \A v \in x.ticks : \E u \in ticks : u.rule = v.rule /\ u.nth = v.nth /\ u.at = v.at,
             \A u \in ticks : \E v \in x.ticks : v.rule = u.rule /\ v.nth = u.nth /\ v.at = u.at
      PROVE  At(ticks', at) = At(ticks, at) \ {t.rule} /\ sched \ {t.rule} \subseteq sched'
  <2>1. ticks' = {u \in x.ticks : u.rule # t.rule \/ u.nth # t.nth} /\ x.sched \subseteq sched'
    BY <1>1, <1>2, AfterLeaves DEF Becomes
  <2>2. \A v \in x.ticks : v.rule = t.rule => v.nth = t.nth
    BY <1>1, <1>2
  <2>3. At(ticks', at) = At(x.ticks, at) \ {t.rule}
    BY <2>1, <2>2 DEF At
  <2>4. At(x.ticks, at) = At(ticks, at)
    BY <1>2, AtOf
  <2> QED
    BY <1>2, <2>1, <2>3, <2>4
<1>3. CASE End(t)
  <2> DEFINE on == t.rule \in enabled
  <2>1. on \in BOOLEAN /\ enabled' = enabled /\ Becomes(After(t, Now, on))
    BY <1>3 DEF End, EndIn, After, Without
  <2> HIDE DEF on
  <2>2. At(ticks', at) = At(ticks, at) \ {t.rule} /\ sched \ {t.rule} \subseteq sched'
    BY <1>1, <1>2, <2>1
  <2>3. Retire(t) => enabled' = enabled \ {t.rule}
    BY DEF Retire, EndIn
  <2> QED
    BY <2>1, <2>2, <2>3
<1>4. CASE Retire(t)
  <2> DEFINE x == Teardown(Now, t.rule)
             on == t.rule \in enabled \ {t.rule}
  <2>1. on \in BOOLEAN /\ enabled' = enabled \ {t.rule} /\ Becomes(After(t, x, on))
    BY <1>4 DEF Retire, EndIn, After, Without
  <2>2. /\ ServiceOK(x) /\ sched \ {t.rule} \subseteq x.sched
        /\ \A u \in ticks : \E v \in x.ticks : v.rule = u.rule /\ v.nth = u.nth /\ v.at = u.at
    BY <1>1, TearingFits
  <2>3. \A v \in x.ticks : \E u \in ticks : u.rule = v.rule /\ u.nth = v.nth /\ u.at = v.at
    BY <1>1, TornSamples
  <2> HIDE DEF on, x
  <2>4. At(ticks', at) = At(ticks, at) \ {t.rule} /\ sched \ {t.rule} \subseteq sched'
    BY <1>2, <2>1, <2>2, <2>3
  <2>5. End(t) => enabled' = enabled
    BY DEF End, EndIn
  <2> QED
    BY <2>1, <2>4, <2>5
<1> QED
  BY <1>3, <1>4

\* A sample that goes on is the one of its rule.
LEMMA GoingLeaves ==
    ASSUME ServiceInv, "overlap" \notin slips, NEW t \in ticks, NEW to \in {"asking", "firing"},
           NEW s, GoesTo(t, to, s), NEW at \in {"asking", "firing"}
    PROVE  /\ At(ticks', at) = IF at = to THEN At(ticks, at) \cup {t.rule} ELSE At(ticks, at) \ {t.rule}
           /\ sched' = sched /\ enabled' = enabled
<1> DEFINE v == [t EXCEPT !.at = to, !.seen = s]
<1>1. /\ \A u \in ticks : u.rule = t.rule => u = t
      /\ ticks' = (ticks \ {t}) \cup {v} /\ sched' = sched /\ enabled' = enabled
  BY DEF ServiceInv, CalmUnlessOverlap, Now, Calm, GoesTo, Becomes
<1>2. v.rule = t.rule /\ v.at = to
  <2>1. t \in Ticks
    BY DEF ServiceInv, ServiceOK, Services, Now
  <2> QED
    BY <2>1 DEF Ticks
<1> HIDE DEF v
<1> QED
  BY <1>1, <1>2 DEF At

-----------------------------------------------------------------------------
(* Alarms of the rules that fire once                                      *)

Asking == At(ticks, "asking")
Firing == At(ticks, "firing")

\* A rule that is judged by how long its value stands and has been alarmed has
\* that in its state, or rings; where it asks, it has not been.  A value that was
\* alarmed, or may be, is there: one that is not there is never taken for new.
StandsOnce(w) ==
    /\ alarms[w] > 0 => state[w].fired \/ w \in Firing
    /\ w \in Asking => alarms[w] = 0
    /\ state[w].fired \/ w \in Asking \/ w \in Firing => state[w].value # NoMatch

\* A rule of another type that has been alarmed is disabled, or rings.
DisabledOnce(w) == alarms[w] > 0 => w \in Firing \/ w \notin enabled

Once(w) == /\ alarms[w] <= 1
           /\ kind[w].type = "unchanged" => StandsOnce(w)
           /\ kind[w].type # "unchanged" => DisabledOnce(w)

AlarmInv == slips = {} => /\ Firing \subseteq sched
                          /\ \A w \in Rules : kind[w].once => Once(w)

\* A rule of which nothing is changed.
LEMMA OnceStays ==
    ASSUME NEW w, Once(w), kind' = kind, alarms'[w] = alarms[w],
           state'[w].fired = state[w].fired, state'[w].value = state[w].value,
           w \in Asking' <=> w \in Asking, w \in Firing' <=> w \in Firing,
           w \notin enabled => w \notin enabled' \/ kind[w].type = "unchanged"
    PROVE  Once(w)'
BY DEF Once, StandsOnce, DisabledOnce

\* No sample reads, asks or rings.
LEMMA NoSampleKeepsAlarms ==
    ASSUME RestOK, ServiceInv, AlarmInv,
           \/ \E w \in Rules : IntervalFires(w)
           \/ \E j \in jobs : JobSettles(j)
           \/ \E r \in Runtimes : ConnectSettles(r) \/ RuntimeEnds(r)
           \/ Minute
           \/ UNCHANGED vars
    PROVE  AlarmInv'
<1>1. UNCHANGED <<kind, enabled, state, alarms, slips>>
  BY DEF IntervalFires, JobSettles, ConnectSettles, RuntimeEnds, Minute, vars
<1>2. /\ ServiceOK(Now) /\ ("overlap" \notin slips => Calm(Now))
      /\ Now.sched = sched /\ Now.ticks = ticks /\ Now.jobs = jobs /\ Now.dev = dev
      /\ ticks \subseteq Ticks /\ jobs \subseteq Jobs
  BY DEF ServiceInv, CalmUnlessOverlap, Now, ServiceOK, Services
<1>3. ASSUME NEW w \in Rules, IntervalFires(w)
      PROVE  \E t : t.at \in {"joining", "reading"} /\ ticks' = ticks \cup {t} /\ sched' = sched
  BY <1>3, Zenon DEF IntervalFires, Becomes, Now, NewTick
<1>4. ASSUME NEW j \in jobs, JobSettles(j)
      PROVE  /\ sched \subseteq sched'
             /\ \E kept \in BOOLEAN : ticks' = {Hears(t, j, kept) : t \in ticks}
  <2> DEFINE kept == Kept(j)
             y == Settles(j, kept)
             back == j.adds \cap enabled
             x == AddRules(y, back)
  <2>1. Becomes(x)
    BY <1>4 DEF JobSettles, Settles, Hears
  <2>2. kept \in BOOLEAN /\ (kept => j.own)
    BY <1>2 DEF Kept, Jobs
  <2> HIDE DEF kept
  <2>3. ServiceOK(y) /\ y.sched = sched /\ y.ticks = {Hears(t, j, kept) : t \in ticks}
    BY <1>2, <2>2, SettlingFits
  <2>4. back \in SUBSET Rules
    BY <1>2 DEF Jobs
  <2> HIDE DEF y, back
  <2>5. x.sched = sched \cup back /\ x.ticks = y.ticks
    BY <2>3, <2>4, AddingFits
  <2> HIDE DEF x
  <2> QED
    BY <2>1, <2>2, <2>3, <2>5 DEF Becomes
<1>5. sched \subseteq sched' /\ Asking' = Asking /\ Firing' = Firing
  <2>1. CASE \E w \in Rules : IntervalFires(w)
    BY <1>3, <2>1 DEF Asking, Firing, At
  <2>2. CASE \E j \in jobs : JobSettles(j)
    <3>1. PICK j \in jobs : JobSettles(j)
      BY <2>2
    <3>2. PICK kept \in BOOLEAN : ticks' = {Hears(t, j, kept) : t \in ticks}
      BY <1>4, <3>1
    <3>3. \A t \in ticks : /\ Hears(t, j, kept).rule = t.rule
                           /\ t.at \in {"asking", "firing"} <=> Hears(t, j, kept).at \in {"asking", "firing"}
                           /\ t.at \in {"asking", "firing"} => Hears(t, j, kept).at = t.at
      BY <1>2 DEF Hears, Ticks
    <3> HIDE DEF Asking
    <3>4. ASSUME NEW at \in {"asking", "firing"} PROVE At(ticks', at) = At(ticks, at)
      BY <3>2, <3>3, <3>4, AtOf
    <3> QED
      BY <1>4, <3>1, <3>4 DEF Asking, Firing
  <2>3. CASE UNCHANGED <<sched, ticks>>
    BY <2>3 DEF Asking, Firing
  <2> QED
    BY <2>1, <2>2, <2>3 DEF ConnectSettles, RuntimeEnds, Minute, vars
<1> QED
  BY <1>1, <1>5 DEF AlarmInv, Once, StandsOnce, DisabledOnce

\* Before a sample of rule w goes on.
LEMMA SampleFinds ==
    ASSUME RestOK, ServiceInv, slips = {}, NEW t \in ticks
    PROVE  /\ t \in Ticks /\ t.rule \in Rules /\ state[t.rule] \in States
           /\ kind[t.rule] \in RuleKinds /\ alarms[t.rule] \in 0 .. 2
           /\ sched \subseteq enabled /\ enabled \subseteq Rules
           /\ t.rule \in Asking <=> t.at = "asking"
           /\ t.rule \in Firing <=> t.at = "firing"
<1>1. /\ Calm(Now) /\ sched \subseteq enabled /\ t \in Ticks
      /\ \A u \in ticks : u.rule = t.rule => u = t
  BY DEF ServiceInv, CalmUnlessOverlap, Now, Calm, Awaited, ServiceOK, Services
<1>2. t.rule \in Rules
  BY <1>1 DEF Ticks
<1>3. kind[t.rule] \in RuleKinds
  BY <1>2, WatchAssumption DEF RestOK
<1>4. (t.rule \in Asking <=> t.at = "asking") /\ (t.rule \in Firing <=> t.at = "firing")
  BY <1>1 DEF Asking, Firing, At
<1> QED
  BY <1>1, <1>2, <1>3, <1>4 DEF RestOK

LEMMA NewIsState == NewState \in States
BY WatchAssumption DEF NewState, States, Screens, Never

\* A rule that fires once is alarmed only where it has not been.
LEMMA RingsOnce ==
    ASSUME RestOK, NEW t, t.rule \in Rules, Rings(t), alarms[t.rule] = 0
    PROVE  alarms'[t.rule] = 1 /\ \A v \in Rules \ {t.rule} : alarms'[v] = alarms[v]
<1> DEFINE w == t.rule
<1>1. alarms' = [alarms EXCEPT ![w] = IF alarms[w] < 2 THEN alarms[w] + 1 ELSE alarms[w]]
  BY DEF Rings
<1>2. (IF alarms[w] < 2 THEN alarms[w] + 1 ELSE alarms[w]) = 1
  OBVIOUS
<1>3. alarms \in [Rules -> 0 .. 2]
  BY DEF RestOK
<1> QED
  BY <1>1, <1>2, <1>3

\* What a sample of rule w leaves of the other rules.
LEMMA OtherRulesStay ==
    ASSUME RestOK, ServiceInv, AlarmInv, slips = {}, NEW t \in ticks,
           ReadFails(t) \/ ReadsScreen(t) \/ ModelAnswers(t) \/ AlarmSent(t),
           NEW v \in Rules, v # t.rule, kind[v].once
    PROVE  Once(v)'
<1>1. Once(v) /\ kind' = kind
  BY DEF AlarmInv, ReadFails, ReadsScreen, ModelAnswers, AlarmSent
<1>2. /\ \/ End(t) \/ Retire(t)
         \/ \E at \in {"asking", "firing"}, s \in States : GoesTo(t, at, s)
  BY SampleGoesOn
<1>3. (v \in Asking' <=> v \in Asking) /\ (v \in Firing' <=> v \in Firing) /\ enabled' \subseteq enabled
  <2>1. ASSUME End(t) \/ Retire(t), NEW at
        PROVE  At(ticks', at) = At(ticks, at) \ {t.rule} /\ enabled' \subseteq enabled
    BY <2>1, EndLeaves
  <2>2. ASSUME NEW to \in {"asking", "firing"}, NEW s \in States, GoesTo(t, to, s), NEW at \in {"asking", "firing"}
        PROVE  /\ At(ticks', at) \subseteq At(ticks, at) \cup {t.rule}
               /\ At(ticks, at) \subseteq At(ticks', at) \cup {t.rule} /\ enabled' \subseteq enabled
    BY <2>2, GoingLeaves
  <2>3. CASE End(t) \/ Retire(t)
    BY <2>1, <2>3 DEF Asking, Firing
  <2>4. CASE \E to \in {"asking", "firing"}, s \in States : GoesTo(t, to, s)
    BY <2>2, <2>4 DEF Asking, Firing
  <2> QED
    BY <1>2, <2>3, <2>4
<1>4. alarms'[v] = alarms[v] /\ state'[v] = state[v]
  <2>1. alarms \in [Rules -> 0 .. 2] /\ state \in [Rules -> States]
    BY DEF RestOK
  <2>2. state' = state \/ \E s : state' = [state EXCEPT ![t.rule] = s]
    BY DEF ReadFails, ReadsScreen, ModelAnswers, AlarmSent, RecordError, Writes, Rings
  <2>3. alarms' = alarms \/ \E a : alarms' = [alarms EXCEPT ![t.rule] = a]
    BY DEF ReadFails, ReadsScreen, ModelAnswers, AlarmSent, Rings
  <2> QED
    BY <2>1, <2>2, <2>3
<1> QED
  BY <1>1, <1>3, <1>4, OnceStays

LEMMA ReadFailsOnce ==
    ASSUME RestOK, ServiceInv, AlarmInv, slips = {}, NEW t \in ticks, ReadFails(t), kind[t.rule].once
    PROVE  Once(t.rule)' /\ Firing' \subseteq sched'
<1> DEFINE w == t.rule
<1>1. /\ Once(w) /\ Firing \subseteq sched /\ w \in Rules /\ kind' = kind /\ alarms' = alarms
      /\ w \notin Asking /\ w \notin Firing /\ state[w] \in States /\ state \in [Rules -> States]
  BY SampleFinds DEF AlarmInv, ReadFails, RestOK
<1>2. End(t) \/ Retire(t)
  BY DEF ReadFails, RecordError
<1>3. state'[w].fired = state[w].fired /\ state'[w].value = state[w].value
  <2>1. state' = state \/ \E n : state' = [state EXCEPT ![w] = [state[w] EXCEPT !.errors = n]]
    BY DEF ReadFails, RecordError, Writes
  <2> QED
    BY <1>1, <2>1, ZenonT(30) DEF States
<1>4. /\ Asking' = Asking \ {w} /\ Firing' = Firing \ {w} /\ sched \ {w} \subseteq sched'
      /\ enabled' \subseteq enabled
  BY <1>2, EndLeaves DEF Asking, Firing
<1>5. Once(w)'
  BY <1>1, <1>3, <1>4, OnceStays
<1> QED
  BY <1>1, <1>4, <1>5

LEMMA AlarmSentOnce ==
    ASSUME RestOK, ServiceInv, AlarmInv, slips = {}, NEW t \in ticks, AlarmSent(t), kind[t.rule].once
    PROVE  Once(t.rule)' /\ Firing' \subseteq sched'
<1> DEFINE w == t.rule
<1>1. /\ Once(w) /\ Firing \subseteq sched /\ w \in Rules /\ kind' = kind /\ alarms' = alarms
      /\ w \notin Asking /\ w \in Firing /\ state[w] \in States /\ state \in [Rules -> States]
      /\ alarms[w] \in 0 .. 2
  BY SampleFinds DEF AlarmInv, AlarmSent, RestOK
<1>2. End(t) \/ Retire(t)
  BY DEF AlarmSent
<1>3. state'[w].value = state[w].value /\ (kind[w].type = "unchanged" => state'[w].fired)
  <2>1. state' = [state EXCEPT ![w] = [state[w] EXCEPT !.errors = 0, !.last = t.now,
                                                       !.fired = @ \/ kind[w].type = "unchanged"]]
    BY <1>1 DEF AlarmSent, Writes
  <2> QED
    BY <1>1, <2>1 DEF States
<1>4. /\ Asking' = Asking \ {w} /\ Firing' = Firing \ {w} /\ sched \ {w} \subseteq sched'
      /\ kind[w].type # "unchanged" => enabled' = enabled \ {w}
  BY <1>1, <1>2, EndLeaves DEF Asking, Firing, AlarmSent
<1>5. Once(w)'
  BY <1>1, <1>3, <1>4 DEF Once, StandsOnce, DisabledOnce
<1> QED
  BY <1>1, <1>4, <1>5

LEMMA ModelAnswersOnce ==
    ASSUME RestOK, ServiceInv, AlarmInv, slips = {}, NEW t \in ticks, ModelAnswers(t), kind[t.rule].once
    PROVE  Once(t.rule)' /\ Firing' \subseteq sched'
<1> DEFINE w == t.rule
<1>1. /\ Once(w) /\ Firing \subseteq sched /\ w \in Rules /\ kind' = kind
      /\ w \in Asking /\ w \notin Firing /\ state[w] \in States /\ state \in [Rules -> States]
      /\ alarms[w] \in 0 .. 2 /\ sched \subseteq enabled
  BY SampleFinds DEF AlarmInv, ModelAnswers, RestOK
<1>2. CASE (End(t) \/ Retire(t)) /\ alarms' = alarms
  <2>1. alarms' = alarms
    BY <1>2
  <2>2. state'[w].fired = state[w].fired /\ state'[w].value = state[w].value
    <3>1. state' = state \/ \E n : state' = [state EXCEPT ![w] = [state[w] EXCEPT !.errors = n]]
      BY DEF ModelAnswers, RecordError, Writes
    <3> QED
      BY <1>1, <3>1, ZenonT(30) DEF States
  <2>3. /\ Asking' = Asking \ {w} /\ Firing' = Firing \ {w} /\ sched \ {w} \subseteq sched'
        /\ enabled' \subseteq enabled
    BY <1>2, EndLeaves DEF Asking, Firing
  <2>4. Once(w)'
    BY <1>1, <2>1, <2>2, <2>3 DEF Once, StandsOnce, DisabledOnce
  <2> QED
    BY <1>1, <2>3, <2>4
<1>3. CASE w \in sched /\ Rings(t) /\ state' = state
  <2>1. alarms[w] = 0
    BY <1>1, <1>3 DEF Once, StandsOnce, DisabledOnce
  <2>2. alarms'[w] = 1
    BY <1>1, <2>1, <1>3, RingsOnce
  <2>3. PICK to \in {"asking", "firing"} : to = "firing"
    OBVIOUS
  <2>4. NewState \in States /\ GoesTo(t, to, NewState)
    BY <1>3, <2>3, NewIsState DEF Rings
  <2>5. /\ \A at \in {"asking", "firing"} :
              At(ticks', at) = IF at = to THEN At(ticks, at) \cup {w} ELSE At(ticks, at) \ {w}
        /\ sched' = sched /\ enabled' = enabled
    BY <2>4, GoingLeaves
  <2>6. Firing' = Firing \cup {w} /\ Asking' = Asking \ {w}
    BY <2>3, <2>5 DEF Asking, Firing
  <2>7. Once(w)'
    BY <1>1, <1>3, <2>2, <2>5, <2>6 DEF Once, StandsOnce, DisabledOnce
  <2> QED
    BY <1>1, <1>3, <2>5, <2>6, <2>7
<1> QED
  BY <1>2, <1>3 DEF ModelAnswers, RecordError

LEMMA ReadsScreenOnce ==
    ASSUME RestOK, ServiceInv, AlarmInv, slips = {}, NEW t \in ticks, ReadsScreen(t), kind[t.rule].once
    PROVE  Once(t.rule)' /\ Firing' \subseteq sched'
<1> DEFINE w == t.rule
           s == state[w]
<1>1. /\ Once(w) /\ Firing \subseteq sched /\ w \in Rules /\ kind' = kind
      /\ w \notin Asking /\ w \notin Firing /\ s \in States /\ state \in [Rules -> States]
      /\ alarms[w] \in 0 .. 2 /\ sched \subseteq enabled /\ alarms \in [Rules -> 0 .. 2]
  BY SampleFinds DEF AlarmInv, ReadsScreen, RestOK
<1>2. ASSUME End(t)
      PROVE  /\ Asking' = Asking \ {w} /\ Firing' = Firing \ {w} /\ sched \ {w} \subseteq sched'
             /\ enabled' = enabled
  BY <1>2, EndLeaves DEF Asking, Firing
<1>3. ASSUME NEW to \in {"asking", "firing"}, NEW u \in States, GoesTo(t, to, u)
      PROVE  /\ to = "asking" => Asking' = Asking \cup {w} /\ Firing' = Firing \ {w}
             /\ to = "firing" => Firing' = Firing \cup {w} /\ Asking' = Asking \ {w}
             /\ sched' = sched /\ enabled' = enabled
  <2>1. /\ \A at \in {"asking", "firing"} :
              At(ticks', at) = IF at = to THEN At(ticks, at) \cup {w} ELSE At(ticks, at) \ {w}
        /\ sched' = sched /\ enabled' = enabled
    BY <1>3, GoingLeaves
  <2> QED
    BY <2>1 DEF Asking, Firing
\* The sample ends, or the model judges it, with nothing written.
<1>4. CASE w \notin sched /\ End(t) /\ UNCHANGED <<state, alarms>>
  BY <1>1, <1>2, <1>4, OnceStays
<1>5. CASE kind[w].type = "llm" /\ GoesTo(t, "asking", s) /\ UNCHANGED <<state, alarms>>
  <2>1. /\ Asking' = Asking \cup {w} /\ Firing' = Firing \ {w} /\ sched' = sched /\ enabled' = enabled
    BY <1>1, <1>3, <1>5
  <2>2. Once(w)'
    BY <1>1, <1>5, <2>1 DEF Once, DisabledOnce
  <2> QED
    BY <1>1, <2>1, <2>2
\* A hit is of a rule that has not been alarmed.
<1>6. ASSUME NEW v \in Screens, Hits(w, s, v, t.now), w \in sched
      PROVE  alarms[w] = 0 /\ (kind[w].type = "unchanged" => s.value # NoMatch)
  BY <1>1, <1>6 DEF Hits, PassesGate, Once, StandsOnce, DisabledOnce
<1>7. ASSUME NEW v \in Screens, w \in sched, Hits(w, s, v, t.now),
             GoesTo(t, "asking", NewState), UNCHANGED <<state, alarms>>
      PROVE  Once(w)' /\ Firing' \subseteq sched'
  <2>1. /\ Asking' = Asking \cup {w} /\ Firing' = Firing \ {w} /\ sched' = sched /\ enabled' = enabled
    BY <1>3, <1>7, NewIsState
  <2>2. alarms[w] = 0 /\ (kind[w].type = "unchanged" => s.value # NoMatch)
    BY <1>6, <1>7
  <2>3. Once(w)'
    BY <1>1, <1>7, <2>1, <2>2 DEF Once, StandsOnce, DisabledOnce
  <2> QED
    BY <1>1, <2>1, <2>3
<1>8. ASSUME NEW v \in Screens, w \in sched, Hits(w, s, v, t.now), Rings(t), state' = state
      PROVE  Once(w)' /\ Firing' \subseteq sched'
  <2>1. /\ Firing' = Firing \cup {w} /\ Asking' = Asking \ {w} /\ sched' = sched /\ enabled' = enabled
    BY <1>3, <1>8, NewIsState DEF Rings
  <2>2. alarms[w] = 0 /\ (kind[w].type = "unchanged" => s.value # NoMatch)
    BY <1>6, <1>8
  <2>3. alarms'[w] = 1
    BY <1>1, <1>8, <2>2, RingsOnce
  <2>4. Once(w)'
    BY <1>1, <1>8, <2>1, <2>2, <2>3 DEF Once, StandsOnce, DisabledOnce
  <2> QED
    BY <1>1, <1>8, <2>1, <2>4
\* No hit: what is written of the value, and what that forgets of an alarm.
<1>9. ASSUME NEW v \in Screens, w \in sched, kind[w].type # "llm", End(t),
             Writes(w, [Evaluated(w, s, v, t.now) EXCEPT !.errors = 0]),
             alarms' = IF kind[w].type = "unchanged" /\ Evaluated(w, s, v, t.now).value # s.value
                       THEN [alarms EXCEPT ![w] = 0] ELSE alarms
      PROVE  Once(w)' /\ Firing' \subseteq sched'
  <2> DEFINE new == Evaluated(w, s, v, t.now)
  <2>1. /\ Asking' = Asking \ {w} /\ Firing' = Firing \ {w} /\ sched \ {w} \subseteq sched'
        /\ enabled' = enabled
    BY <1>2, <1>9
  <2>2. new \in States /\ kind[w] \in RuleKinds
    <3>1. t.now \in 0 .. MaxClock /\ kind[w] \in RuleKinds
      BY SampleFinds DEF Ticks
    <3> QED
      BY <1>1, <3>1, EvaluatedIsState
  <2>3. state'[w].fired = new.fired /\ state'[w].value = new.value
    <3>1. state' = [state EXCEPT ![w] = [new EXCEPT !.errors = 0]]
      BY <1>9 DEF Writes
    <3> HIDE DEF new
    <3> QED
      BY <1>1, <2>2, <3>1 DEF States
  <2>4. \/ new = s
        \/ kind[w].type # "match" /\ ~new.fired /\ (new.value = s.value => s.value = NoMatch)
    BY <1>1 DEF Evaluated, States
  <2>5. CASE new.value # s.value /\ kind[w].type = "unchanged"
    <3>1. alarms'[w] = 0 /\ ~new.fired
      BY <1>1, <1>9, <2>4, <2>5
    <3> HIDE DEF new
    <3>2. Once(w)'
      BY <1>1, <2>1, <2>3, <2>5, <3>1 DEF Once, StandsOnce
    <3> QED
      BY <1>1, <2>1, <3>2
  <2>6. CASE ~(new.value # s.value /\ kind[w].type = "unchanged")
    <3>1. alarms' = alarms
      BY <1>9, <2>6
    <3> HIDE DEF new
    <3>2. CASE kind[w].type = "unchanged"
      <4>1. new.value = s.value /\ new.fired = s.fired
        <5>1. s.fired => s.value # NoMatch
          BY <1>1, <3>2 DEF Once, StandsOnce
        <5>2. new.fired \in BOOLEAN /\ s.fired \in BOOLEAN
          BY <1>1, <2>2 DEF States
        <5> QED
          BY <2>4, <2>6, <3>2, <5>1, <5>2
      <4>2. Once(w)'
        BY <1>1, <2>1, <2>3, <3>1, <4>1, OnceStays
      <4> QED
        BY <1>1, <2>1, <4>2
    <3>3. CASE kind[w].type # "unchanged"
      <4>1. Once(w)'
        BY <1>1, <2>1, <3>1, <3>3 DEF Once, DisabledOnce
      <4> QED
        BY <1>1, <2>1, <4>1
    <3> QED
      BY <3>2, <3>3
  <2> QED
    BY <2>5, <2>6
<1> QED
  <2>1. \/ w \notin sched /\ End(t) /\ UNCHANGED <<state, alarms>>
        \/ w \in sched /\ kind[w].type = "llm" /\ GoesTo(t, "asking", s) /\ UNCHANGED <<state, alarms>>
        \/ /\ w \in sched /\ kind[w].type # "llm"
           /\ \E v \in Screens :
              \/ /\ ~Hits(w, s, v, t.now)
                 /\ Writes(w, [Evaluated(w, s, v, t.now) EXCEPT !.errors = 0])
                 /\ alarms' = IF kind[w].type = "unchanged" /\ Evaluated(w, s, v, t.now).value # s.value
                              THEN [alarms EXCEPT ![w] = 0] ELSE alarms
                 /\ End(t)
              \/ /\ Hits(w, s, v, t.now) /\ GoesTo(t, "asking", NewState) /\ UNCHANGED <<state, alarms>>
              \/ /\ Hits(w, s, v, t.now) /\ Rings(t) /\ UNCHANGED state
    BY Zenon DEF ReadsScreen
  <2> QED
    BY <1>4, <1>5, <1>7, <1>8, <1>9, <2>1

LEMMA SampleKeepsAlarms ==
    ASSUME RestOK, ServiceInv, AlarmInv, NEW t \in ticks,
           ReadFails(t) \/ ReadsScreen(t) \/ ModelAnswers(t) \/ AlarmSent(t)
    PROVE  AlarmInv'
<1> SUFFICES ASSUME slips' = {}
             PROVE  Firing' \subseteq sched' /\ \A v \in Rules : kind'[v].once => Once(v)'
  BY DEF AlarmInv
<1>1. slips = {} /\ kind' = kind
  BY DEF ReadFails, ReadsScreen, ModelAnswers, AlarmSent
<1>2. \A v \in Rules : v # t.rule /\ kind[v].once => Once(v)'
  BY <1>1, OtherRulesStay
<1>3. kind[t.rule].once => Once(t.rule)'
  BY <1>1, ReadFailsOnce, ReadsScreenOnce, ModelAnswersOnce, AlarmSentOnce
<1>4. Firing' \subseteq sched'
  <2>1. Firing \subseteq sched
    BY <1>1 DEF AlarmInv
  <2>2. CASE End(t) \/ Retire(t)
    <3>1. Firing' = Firing \ {t.rule} /\ sched \ {t.rule} \subseteq sched'
      BY <1>1, <2>2, EndLeaves DEF Firing
    <3> QED
      BY <2>1, <3>1
  <2>3. CASE ~(End(t) \/ Retire(t))
    <3>1. t.rule \in sched
      BY <2>3 DEF ReadFails, ReadsScreen, ModelAnswers, AlarmSent
    <3>2. PICK to \in {"asking", "firing"}, s \in States : GoesTo(t, to, s)
      BY <2>3, SampleGoesOn
    <3>3. \A at \in {"asking", "firing"} :
             At(ticks', at) = IF at = to THEN At(ticks, at) \cup {t.rule} ELSE At(ticks, at) \ {t.rule}
      BY <1>1, <3>2, GoingLeaves
    <3>4. sched' = sched
      BY <3>2 DEF GoesTo, Becomes, Now
    <3> QED
      BY <2>1, <3>1, <3>3, <3>4 DEF Firing
  <2> QED
    BY <2>2, <2>3
<1> QED
  BY <1>1, <1>2, <1>3, <1>4

\* A change of a rule that does not ring.
LEMMA PatchKeepsAlarms ==
    ASSUME RestOK, ServiceInv, AlarmInv, NEW w \in Rules, PatchRule(w)
    PROVE  AlarmInv'
<1> SUFFICES ASSUME slips' = {}
             PROVE  Firing' \subseteq sched' /\ \A v \in Rules : kind'[v].once => Once(v)'
  BY DEF AlarmInv
<1>0. PICK on \in BOOLEAN :
        /\ enabled' = IF on THEN enabled \cup {w} ELSE enabled \ {w}
        /\ alarms' = IF on /\ kind[w].type # "unchanged" THEN [alarms EXCEPT ![w] = 0] ELSE alarms
        /\ slips' = slips
             \cup (IF on /\ w \notin sched /\ \E t \in ticks : t.rule = w THEN {"overlap"} ELSE {})
             \cup (IF \E t \in ticks : t.rule = w /\ t.at = "firing" THEN {"unrecorded"} ELSE {})
        /\ Becomes(IF w \notin sched THEN IF on THEN AddRules(Now, {w}) ELSE Now
                   ELSE IF WaitsFor(w) = {} THEN Refreshed(Unscheduled(Now, w, FALSE), w, on)
                   ELSE Unscheduled(Now, w, TRUE))
  BY DEF PatchRule
<1>1. kind' = kind /\ state' = state
  BY DEF PatchRule
<1>2. /\ slips = {} /\ w \notin Firing /\ Firing \subseteq sched
      /\ \A v \in Rules : kind[v].once => Once(v)
      /\ ServiceOK(Now) /\ Now.sched = sched /\ Now.ticks = ticks
      /\ alarms \in [Rules -> 0 .. 2]
  BY <1>0 DEF AlarmInv, Firing, At, ServiceInv, Now, RestOK
<1>3. sched \ {w} \subseteq sched' /\ \A at : At(ticks', at) = At(ticks, at)
  <2>1. ASSUME NEW waits \in BOOLEAN
        PROVE  LET x == Unscheduled(Now, w, waits) IN
               /\ ServiceOK(x) /\ x.sched = sched \ {w}
               /\ \A t \in x.ticks : \E u \in ticks : u.rule = t.rule /\ u.at = t.at
               /\ \A u \in ticks : \E t \in x.ticks : t.rule = u.rule /\ t.at = u.at
    BY <1>2, UnschedulingFits, UnscheduledSamples
  <2>2. ASSUME NEW waits \in BOOLEAN, NEW at
        PROVE  LET x == Unscheduled(Now, w, waits) IN
               ServiceOK(x) /\ x.sched = sched \ {w} /\ At(x.ticks, at) = At(ticks, at)
    <3> DEFINE x == Unscheduled(Now, w, waits)
    <3>1. /\ ServiceOK(x) /\ x.sched = sched \ {w}
          /\ \A t \in x.ticks : \E u \in ticks : u.rule = t.rule /\ u.at = t.at
          /\ \A u \in ticks : \E t \in x.ticks : t.rule = u.rule /\ t.at = u.at
      BY <2>1
    <3> HIDE DEF x
    <3>2. At(x.ticks, at) = At(ticks, at)
      BY <3>1, AtOf
    <3> QED
      BY <3>1, <3>2 DEF x
  <2>3. CASE w \notin sched
    <3>1. AddRules(Now, {w}).sched = sched \cup {w} /\ AddRules(Now, {w}).ticks = ticks
      BY <1>2, AddingFits
    <3> QED
      BY <1>0, <1>2, <2>3, <3>1 DEF Becomes
  <2>4. CASE w \in sched /\ WaitsFor(w) = {}
    <3>1. PICK no \in BOOLEAN : no = FALSE
      OBVIOUS
    <3> DEFINE x == Unscheduled(Now, w, no)
    <3>2. /\ ServiceOK(x) /\ x.sched = sched \ {w}
          /\ \A at : At(x.ticks, at) = At(ticks, at)
      BY <2>2, Zenon
    <3>3. Becomes(Refreshed(x, w, on))
      BY <1>0, <2>4, <3>1
    <3> HIDE DEF x
    <3>4. Refreshed(x, w, on).ticks = x.ticks /\ x.sched \subseteq Refreshed(x, w, on).sched
      BY <3>2, RefreshingFits
    <3> QED
      BY <3>2, <3>3, <3>4 DEF Becomes
  <2>5. CASE w \in sched /\ WaitsFor(w) # {}
    <3>1. PICK yes \in BOOLEAN : yes = TRUE
      OBVIOUS
    <3> DEFINE x == Unscheduled(Now, w, yes)
    <3>2. /\ ServiceOK(x) /\ x.sched = sched \ {w}
          /\ \A at : At(x.ticks, at) = At(ticks, at)
      BY <2>2, Zenon
    <3>3. Becomes(x)
      BY <1>0, <2>5, <3>1
    <3> HIDE DEF x
    <3> QED
      BY <3>2, <3>3 DEF Becomes
  <2> QED
    BY <2>3, <2>4, <2>5
<1>4. Asking' = Asking /\ Firing' = Firing
  BY <1>3 DEF Asking, Firing
<1>5. ASSUME NEW v \in Rules, kind[v].once PROVE Once(v)'
  <2>1. Once(v)
    BY <1>2, <1>5
  <2>2. CASE v # w
    <3>1. alarms'[v] = alarms[v] /\ (v \in enabled' <=> v \in enabled)
      BY <1>0, <1>2, <2>2
    <3> QED
      BY <1>1, <1>4, <2>1, <3>1, OnceStays
  <2>3. CASE v = w /\ kind[w].type = "unchanged"
    <3>1. alarms' = alarms
      BY <1>0, <2>3
    <3> QED
      BY <1>1, <1>4, <2>1, <2>3, <3>1, OnceStays
  <2>4. CASE v = w /\ kind[w].type # "unchanged" /\ on
    <3>1. alarms'[w] = 0
      BY <1>0, <1>2, <2>4
    <3> QED
      BY <1>1, <2>4, <3>1 DEF Once, DisabledOnce
  <2>5. CASE v = w /\ kind[w].type # "unchanged" /\ ~on
    <3>1. alarms' = alarms /\ w \notin enabled'
      BY <1>0, <2>5
    <3> QED
      BY <1>1, <1>4, <2>1, <2>5, <3>1 DEF Once, DisabledOnce
  <2> QED
    BY <2>2, <2>3, <2>4, <2>5
<1> QED
  BY <1>1, <1>2, <1>3, <1>4, <1>5

LEMMA InitAlarms == Init => AlarmInv
<1> SUFFICES ASSUME Init PROVE AlarmInv
  OBVIOUS
<1>1. Asking = {} /\ Firing = {}
  BY DEF Init, Asking, Firing, At
<1>2. \A w \in Rules : alarms[w] = 0 /\ ~state[w].fired
  BY DEF Init, NewState
<1> QED
  BY <1>1, <1>2 DEF AlarmInv, Once, StandsOnce, DisabledOnce

LEMMA NextAlarms == WatchInv /\ AlarmInv /\ [Next]_vars => AlarmInv'
<1> SUFFICES ASSUME RestOK, ServiceInv, AlarmInv, [Next]_vars PROVE AlarmInv'
  BY DEF WatchInv
<1>1. ASSUME NEW w \in Rules, PatchRule(w) PROVE AlarmInv'
  BY <1>1, PatchKeepsAlarms
<1>2. ASSUME NEW t \in ticks, ReadFails(t) \/ ReadsScreen(t) \/ ModelAnswers(t) \/ AlarmSent(t)
      PROVE  AlarmInv'
  BY <1>2, SampleKeepsAlarms
<1>3. CASE \/ \E w \in Rules : IntervalFires(w)
           \/ \E j \in jobs : JobSettles(j)
           \/ \E r \in Runtimes : ConnectSettles(r) \/ RuntimeEnds(r)
           \/ Minute
           \/ UNCHANGED vars
  BY <1>3, NoSampleKeepsAlarms
<1> QED
  BY <1>1, <1>2, <1>3 DEF Next

\* A rule that fires once gives one alarm, per value or per enabling, unless it is
\* changed while its alarm is being sent (tickRule, emitTrigger, passesTriggerGate):
\* what the state and the database record of an alarm is recorded after it is out.
THEOREM AlarmsRingOnce == Spec => []AlarmsOnce
<1>1. AlarmInv => AlarmsOnce
  BY DEF AlarmInv, Once, AlarmsOnce
<1> QED
  BY <1>1, InitWatch, NextWatch, InitAlarms, NextAlarms, PTL DEF Spec
=============================================================================

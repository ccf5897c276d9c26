------------------------------ MODULE WatchRules ------------------------------
(***************************************************************************)
(* The gateway's WatchService for the rules of one device: the timers that *)
(* sample a pane's screen, the runtime they share, the judgement of a      *)
(* sample, the alarm, and the requests that change a rule while a sample   *)
(* of it is under way.  Every wait inside a sample (connect(), the screen, *)
(* the model, the notification) is a place where other things happen.      *)
(*                                                                         *)
(* A screen is the value the rule's pattern extracts from it, NoMatch if   *)
(* it extracts none.  Time is a counter of minutes.  Deleting a rule has   *)
(* the effects of disabling it and is not told apart.                      *)
(***************************************************************************)
EXTENDS RuntimeRegistry, FiniteSets

CONSTANTS Rules,
          Kinds,        \* what the rules may be: triggerType, fireMode, noMatchBehavior, confirmWithLlm
          Values, NoMatch,
          UnchangedMinutes, Cooldown,
          Threshold,    \* errorThreshold
          MaxClock,     \* bound: minutes
          MaxTicks,     \* bound: samples under way, of all rules
          MaxPatches    \* bound: requests that change a rule

RuleKinds == [type : {"match", "unchanged", "llm"}, once : BOOLEAN, reset : BOOLEAN, confirm : BOOLEAN]

ASSUME WatchAssumption ==
    /\ Rules # {} /\ Kinds \subseteq [Rules -> RuleKinds] /\ NoMatch \notin Values
    /\ UnchangedMinutes \in Nat \ {0} /\ Cooldown \in Nat
    /\ Threshold \in Nat \ {0} /\ MaxClock \in Nat /\ MaxTicks \in Nat /\ MaxPatches \in Nat

VARIABLES
    kind,       \* what each rule is
    clock,
    enabled,    \* rules enabled in the database
    sched,      \* rules in `rules', with an interval timer
    dev,        \* the DeviceEntry in `devices'
    jobs,       \* `connecting' promises of this device entry and of former ones
    ticks,      \* samples under way
    state,      \* watch_rule_state
    reg,        \* the runtime registry
    alarms,     \* history: alarms of a rule since its value changed, or it was enabled
    patches,    \* requests that have changed a rule
    slips       \* history: which of the code's known slips have happened

vars == <<kind, clock, enabled, sched, dev, jobs, ticks, state, reg, alarms, patches, slips>>

Never == -1
Screens == Values \cup {NoMatch}

\* "overlap": a rule was scheduled again while an earlier sample of it was under
\* way; "unrecorded": a rule was changed while its alarm was being sent.
Slips == {"overlap", "unrecorded"}

NoDevice == [on |-> FALSE, rules |-> {}, rt |-> 0]
NewState == [value |-> NoMatch, since |-> Never, fired |-> FALSE, last |-> Never, errors |-> 0]

Init ==
    /\ kind \in Kinds
    /\ clock = 0
    /\ enabled = Rules /\ sched = Rules
    /\ dev = [on |-> TRUE, rules |-> Rules, rt |-> 0]
    /\ jobs = {} /\ ticks = {}
    /\ state = [w \in Rules |-> NewState]
    /\ reg = NoRuntimes
    /\ alarms = [w \in Rules |-> 0] /\ patches = 0 /\ slips = {}

Settled(r) == reg.promise[r] \in {"ok", "failed"}

\* Nothing that can go on without the outside is left to do.
Quiet == (\A j \in jobs : ~Settled(j.rt)) /\ (\A t \in ticks : t.at # "failed")

-----------------------------------------------------------------------------
(* Judging a sample *)

\* What a rule that fires once forgets: that this value was alarmed.
PassesGateBug(w, s, now) == kind[w].once \/ s.last = Never \/ now - s.last >= Cooldown

\* passesTriggerGate, and passesCooldownGate of llm rules.
PassesGate(w, s, now) ==
    IF kind[w].once THEN kind[w].type = "unchanged" => ~s.fired
    ELSE s.last = Never \/ now - s.last >= Cooldown

\* The value is not there, is new, or has stood for long enough.
Evaluated(w, s, v, now) ==
    IF kind[w].type = "match" THEN s
    ELSE IF v = NoMatch THEN IF kind[w].reset THEN [s EXCEPT !.value = NoMatch, !.since = Never, !.fired = FALSE]
                                              ELSE s
    ELSE IF v # s.value THEN [s EXCEPT !.value = v, !.since = now, !.fired = FALSE]
    ELSE s

Hits(w, s, v, now) ==
    /\ v # NoMatch
    /\ kind[w].type = "unchanged" => v = s.value /\ now - s.since >= UnchangedMinutes
    /\ PassesGate(w, s, now)

-----------------------------------------------------------------------------
(* Scheduling: functions of x, the service's maps and the samples under way. *)

Now == [sched |-> sched, dev |-> dev, jobs |-> jobs, ticks |-> ticks, reg |-> reg]

Becomes(x) == /\ sched' = x.sched /\ dev' = x.dev /\ jobs' = x.jobs
              /\ ticks' = x.ticks /\ reg' = x.reg

\* addRule for each of ws that is not scheduled.
AddRules(x, ws) ==
    IF ws \subseteq x.sched THEN x
    ELSE [x EXCEPT !.sched = @ \cup ws,
                   !.dev = [on |-> TRUE, rules |-> @.rules \cup (ws \ x.sched), rt |-> @.rt]]

\* A device entry is left behind, with no rules.
RemoveDeviceRefBug(x, w, adds) == [x EXCEPT !.dev.rules = @ \ {w}]

\* The device's runtime is not given back.
RemoveDeviceRefLeakBug(x, w, adds) ==
    IF x.dev.rules # {w} THEN [x EXCEPT !.dev.rules = @ \ {w}]
    ELSE [x EXCEPT !.dev = NoDevice, !.jobs = {[j EXCEPT !.own = FALSE, !.adds = IF j.own THEN @ \cup adds ELSE @] : j \in @}]

\* The device's last rule takes the device with it.  Who waits for its connect()
\* will find that out; who removes the rule waits for it, to add `adds' after it.
RemoveDeviceRef(x, w, adds) ==
    IF ~x.dev.on \/ x.dev.rules # {w}
    THEN [x EXCEPT !.dev.rules = @ \ {w}]
    ELSE [x EXCEPT !.dev = NoDevice,
                   !.jobs  = {[j EXCEPT !.own = FALSE, !.adds = IF j.own THEN @ \cup adds ELSE @] : j \in x.jobs},
                   !.reg   = IF x.dev.rt = 0 THEN @ ELSE Release(@, x.dev.rt)]

\* The rule leaves the schedule, with its entry and the entry's tickPromise.
Unscheduled(x, w, waits) ==
    [x EXCEPT !.sched = @ \ {w},
              !.ticks = {IF t.rule = w /\ t.live THEN [t EXCEPT !.live = FALSE, !.refresh = waits] ELSE t : t \in @}]

\* teardownRule, from within a sample of the rule.
Teardown(x, w) ==
    IF w \in x.sched THEN RemoveDeviceRef(Unscheduled(x, w, FALSE), w, {}) ELSE x

\* The rule is scheduled before it is taken off its device.
RefreshedBug(x, w, on) == RemoveDeviceRef(IF on THEN AddRules(x, {w}) ELSE x, w, {})

\* What refreshRule does once no sample of the rule holds it up: it waits for the
\* connect() of a device entry it removes.
Refreshed(x, w, on) ==
    LET waits == x.dev.on /\ x.dev.rules = {w} /\ \E j \in x.jobs : j.own IN
    IF ~on THEN RemoveDeviceRef(x, w, {})
    ELSE IF waits THEN RemoveDeviceRef(x, w, {w})
    ELSE AddRules(RemoveDeviceRef(x, w, {}), {w})

\* The rule is scheduled again at once, without waiting for a sample under way.
WaitsForBug(w) == {}

WaitsFor(w) == {t \in ticks : t.rule = w /\ t.live}

\* PATCH of a rule: the database is written, then refreshRule takes the rule out
\* of the schedule and waits for a sample under way before it puts it back.  A
\* second one finds nothing to take out and puts it back at once.
PatchRule(w) ==
    /\ Quiet /\ patches < MaxPatches /\ patches' = patches + 1
    /\ \E on \in BOOLEAN :
        /\ enabled' = IF on THEN enabled \cup {w} ELSE enabled \ {w}
        /\ alarms' = IF on /\ kind[w].type # "unchanged" THEN [alarms EXCEPT ![w] = 0] ELSE alarms
        /\ slips' = slips
             \cup (IF on /\ w \notin sched /\ \E t \in ticks : t.rule = w THEN {"overlap"} ELSE {})
             \cup (IF \E t \in ticks : t.rule = w /\ t.at = "firing" THEN {"unrecorded"} ELSE {})
        /\ Becomes(IF w \notin sched THEN IF on THEN AddRules(Now, {w}) ELSE Now
                   ELSE IF WaitsFor(w) = {} THEN Refreshed(Unscheduled(Now, w, FALSE), w, on)
                   ELSE Unscheduled(Now, w, TRUE))
    /\ UNCHANGED <<kind, clock, state>>

-----------------------------------------------------------------------------
(* One sample *)

Of(w) == {t \in ticks : t.rule = w}

\* Samples of a rule, and promises, under way are numbered; bound: two of each.
Free(s) == {0, 1} \ {e.nth : e \in s}
FreeOf(s) == CHOOSE n \in Free(s) : \A m \in Free(s) : n <= m

NewTick(w, at, j) == [rule |-> w, nth |-> FreeOf(Of(w)), live |-> TRUE, at |-> at, job |-> j.nth, rt |-> j.rt,
                      now |-> clock, seen |-> NewState, refresh |-> FALSE]

NewJob(r) == [nth |-> FreeOf(jobs), rt |-> r, own |-> TRUE, adds |-> {}]

\* The sample uses the device's runtime, waits for its connect(), or starts one.
\* (That runTick finds its rule disabled cannot happen: see EnabledIsScheduled.)
IntervalFires(w) ==
    /\ Quiet /\ w \in sched /\ WaitsFor(w) = {} /\ Free(Of(w)) # {} /\ Cardinality(ticks) < MaxTicks
    /\ LET connecting == {j \in jobs : j.own}
           with(at, j) == [Now EXCEPT !.ticks = @ \cup {NewTick(w, at, j)}] IN
       \/ dev.rt # 0 /\ Becomes(with("reading", [nth |-> 0, rt |-> dev.rt]))
       \/ dev.on /\ dev.rt = 0 /\ \E j \in connecting : Becomes(with("joining", j))
       \/ /\ dev.on /\ dev.rt = 0 /\ connecting = {} /\ CanAcquire(reg) /\ Free(jobs) # {}
          /\ LET g == Connect(Acquire(reg), Acquire(reg).current)
                 j == NewJob(g.current) IN
             Becomes([with("joining", j) EXCEPT !.jobs = @ \cup {j}, !.reg = g])
    /\ UNCHANGED <<kind, clock, enabled, state, alarms, patches, slips>>

\* A sample t ends in x, with the rules in `off' disabled: a refresh that waited
\* for it goes on.
EndIn(t, x, off) ==
    LET y == [x EXCEPT !.ticks = {u \in @ : u.rule # t.rule \/ u.nth # t.nth}] IN
    /\ enabled' = enabled \ off
    /\ Becomes(IF t.refresh THEN Refreshed(y, t.rule, t.rule \in enabled \ off) ELSE y)

End(t) == EndIn(t, Now, {})

\* The rule is disabled from within its own sample, and torn down.
Retire(t) == EndIn(t, Teardown(Now, t.rule), {t.rule})

\* The sample goes on to its next wait, with what that needs of the state it has read.
GoesTo(t, at, s) == /\ Becomes([Now EXCEPT !.ticks = (@ \ {t}) \cup {[t EXCEPT !.at = at, !.seen = s]}])
                    /\ UNCHANGED enabled

Writes(w, s) == state' = [state EXCEPT ![w] = s]

\* recordRuleError after `before' errors, and disableRuleForErrors at the threshold.
RecordError(t, before) ==
    LET n == before + 1 IN
    /\ Writes(t.rule, [state[t.rule] EXCEPT !.errors = IF n > Threshold THEN Threshold ELSE n])
    /\ IF n >= Threshold THEN Retire(t) ELSE End(t)

\* The device entry may have been removed meanwhile.
Kept(j) == j.own /\ reg.promise[j.rt] = "ok"

\* connect() has come back to ensureRuntime, which keeps the runtime if the
\* device still has rules, and to the samples that wait for it.
JobSettles(j) ==
    /\ Settled(j.rt)
    /\ LET kept == Kept(j)
           over == [Now EXCEPT
             !.jobs = @ \ {j},
             !.dev.rt = IF kept THEN j.rt ELSE @,
             !.reg = IF kept THEN @ ELSE Release(@, j.rt),
             !.ticks = {IF t.at = "joining" /\ t.job = j.nth
                        THEN [t EXCEPT !.at = IF kept THEN "reading" ELSE "failed"] ELSE t : t \in @}]
           back == j.adds \cap enabled IN
       Becomes(AddRules(over, back))
    /\ UNCHANGED <<kind, clock, enabled, state, alarms, patches, slips>>

\* The screen cannot be read, or its pane is gone for good.
ReadFails(t) ==
    /\ t.at = "failed" \/ (t.at = "reading" /\ Quiet)
    /\ IF t.rule \notin sched THEN End(t) /\ UNCHANGED state
       ELSE \/ RecordError(t, state[t.rule].errors)
            \/ t.at = "reading" /\ Alive(reg, t.rt) /\ Retire(t) /\ UNCHANGED state
    /\ UNCHANGED <<kind, clock, alarms, patches, slips>>

\* emitTrigger begins: from here on the alarm is out.
Rings(t) == /\ GoesTo(t, "firing", NewState)
            /\ alarms' = [alarms EXCEPT ![t.rule] = IF @ < 2 THEN @ + 1 ELSE @]

\* The screen has been read, and is judged by the pattern or by the model.
ReadsScreen(t) ==
    /\ Quiet /\ t.at = "reading" /\ Alive(reg, t.rt)
    /\ LET w == t.rule
           s == state[w] IN
       \/ w \notin sched /\ End(t) /\ UNCHANGED <<state, alarms>>
       \/ w \in sched /\ kind[w].type = "llm" /\ GoesTo(t, "asking", s) /\ UNCHANGED <<state, alarms>>
       \/ /\ w \in sched /\ kind[w].type # "llm"
          /\ \E v \in Screens :
             \/ /\ ~Hits(w, s, v, t.now)
                /\ LET new == Evaluated(w, s, v, t.now) IN
                   /\ Writes(w, [new EXCEPT !.errors = 0])
                   /\ alarms' = IF kind[w].type = "unchanged" /\ new.value # s.value
                                THEN [alarms EXCEPT ![w] = 0] ELSE alarms
                /\ End(t)
             \/ /\ Hits(w, s, v, t.now) /\ kind[w].confirm
                /\ GoesTo(t, "asking", NewState) /\ UNCHANGED <<state, alarms>>
             \/ /\ Hits(w, s, v, t.now) /\ ~kind[w].confirm
                /\ Rings(t) /\ UNCHANGED state
    /\ UNCHANGED <<kind, clock, patches, slips>>

\* The model has answered.  A rule that has left the schedule is forgotten.  No
\* answer lets a hit through, but is an error of a rule the model judges.
ModelAnswers(t) ==
    /\ Quiet /\ t.at = "asking"
    /\ LET w == t.rule IN
       \/ w \notin sched /\ End(t) /\ UNCHANGED <<state, alarms>>
       \/ w \in sched /\ kind[w].type = "llm" /\ RecordError(t, t.seen.errors) /\ UNCHANGED alarms
       \/ w \in sched /\ PassesGate(w, t.seen, t.now) /\ Rings(t) /\ UNCHANGED state
       \/ w \in sched /\ Writes(w, [state[w] EXCEPT !.errors = 0]) /\ End(t) /\ UNCHANGED alarms
    /\ UNCHANGED <<kind, clock, patches, slips>>

\* The alarm has been sent and is recorded, unless the rule has been changed.
AlarmSent(t) ==
    /\ Quiet /\ t.at = "firing"
    /\ IF t.rule \notin sched THEN End(t) /\ UNCHANGED state
       ELSE /\ Writes(t.rule, [state[t.rule] EXCEPT !.errors = 0, !.last = t.now,
                                    !.fired = @ \/ kind[t.rule].type = "unchanged"])
            /\ IF kind[t.rule].once /\ kind[t.rule].type # "unchanged" THEN Retire(t) ELSE End(t)
    /\ UNCHANGED <<kind, clock, alarms, patches, slips>>

-----------------------------------------------------------------------------
(* The runtime *)

ConnectSettles(r) ==
    /\ Quiet /\ reg.promise[r] = "pending"
    /\ \E ok \in BOOLEAN : reg' = Settle(reg, r, ok)
    /\ UNCHANGED <<kind, clock, enabled, sched, dev, jobs, ticks, state, alarms, patches, slips>>

\* handleRuntimeClose: the device lets go of the runtime; the next sample
\* acquires another.  Nobody listens yet while connect() is under way.
RuntimeEnds(r) ==
    /\ Quiet /\ reg.life[r] \in {"connecting", "up"}
    /\ \E ok \in BOOLEAN :
        LET gone == IF reg.life[r] = "up" THEN Lose(reg, r) ELSE Settle(Lose(reg, r), r, ok) IN
        IF dev.rt = r THEN reg' = Release(gone, r) /\ dev' = [dev EXCEPT !.rt = 0]
        ELSE reg' = gone /\ UNCHANGED dev
    /\ UNCHANGED <<kind, clock, enabled, sched, jobs, ticks, state, alarms, patches, slips>>

Minute == /\ clock < MaxClock /\ clock' = clock + 1
          /\ UNCHANGED <<kind, enabled, sched, dev, jobs, ticks, state, reg, alarms, patches, slips>>

Next ==
    \/ \E w \in Rules : PatchRule(w) \/ IntervalFires(w)
    \/ \E j \in jobs : JobSettles(j)
    \/ \E t \in ticks : ReadFails(t) \/ ReadsScreen(t) \/ ModelAnswers(t) \/ AlarmSent(t)
    \/ \E r \in Runtimes : ConnectSettles(r) \/ RuntimeEnds(r)
    \/ Minute

Spec == Init /\ [][Next]_vars

-----------------------------------------------------------------------------
(* Properties *)

States == [value : Screens, since : {Never} \cup 0 .. MaxClock, fired : BOOLEAN,
           last : {Never} \cup 0 .. MaxClock, errors : 0 .. Threshold]
Ticks == [rule : Rules, nth : {0, 1}, live : BOOLEAN, refresh : BOOLEAN, job : {0, 1}, rt : Runtimes, now : 0 .. MaxClock,
          at : {"joining", "failed", "reading", "asking", "firing"}, seen : States]

\* Every variable keeps its type; a device entry has rules, and no runtime
\* besides the one it is connecting.
WatchTypeOK ==
    /\ kind \in Kinds
    /\ clock \in 0 .. MaxClock
    /\ enabled \subseteq Rules /\ sched \subseteq Rules
    /\ dev \in [on : BOOLEAN, rules : SUBSET Rules, rt : 0 .. MaxRuntimes]
    /\ jobs \subseteq [nth : {0, 1}, rt : Runtimes, own : BOOLEAN, adds : SUBSET Rules]
    /\ ticks \subseteq Ticks
    /\ state \in [Rules -> States]
    /\ reg \in Registries
    /\ alarms \in [Rules -> 0 .. 2] /\ patches \in 0 .. MaxPatches /\ slips \subseteq Slips
    /\ dev.on <=> dev.rules # {}
    /\ dev.rt # 0 => \A j \in jobs : ~j.own

\* The service's references are exactly its device's and its waiting connects':
\* no way a rule can come and go while the runtime connects, dies or is read
\* leaves one behind or gives one back twice.
WatchCounts ==
    \A r \in Runtimes : Alive(reg, r) =>
        reg.refs[r] = Cardinality({j \in jobs : j.rt = r}) + (IF dev.rt = r THEN 1 ELSE 0)

\* A rule in the schedule is a rule of the device, so that its samples find the
\* device entry they need.
ScheduledIsWatched == \A w \in sched : dev.on /\ w \in dev.rules

\* Samples of a rule do not run side by side.
OneSampleAtATime ==
    "overlap" \notin slips => \A t, u \in ticks : t.rule = u.rule => t = u

\* A rule that fires once gives one alarm: per value for the unchanged type, per
\* enabling for the others, unless it is changed while its alarm is being sent.
AlarmsOnce ==
    slips = {} => \A w \in Rules : kind[w].once => alarms[w] <= 1

\* An enabled rule is scheduled, or a refresh that waits for a sample, or for a
\* connect(), will schedule it; and no rule that is not enabled is scheduled.
EnabledIsScheduled ==
    /\ sched \subseteq enabled
    /\ \A w \in enabled :
        \/ w \in sched
        \/ \E t \in ticks : t.rule = w /\ t.refresh
        \/ \E j \in jobs : w \in j.adds

\* Every enabled rule comes back after a change, and its samples find their device,
\* however changes, samples and connect() overlap: a rule of the schedule is outside
\* its device entry only if two changes overlapped a sample.
ScheduleAgrees == EnabledIsScheduled /\ (ScheduledIsWatched \/ "overlap" \in slips)
=============================================================================

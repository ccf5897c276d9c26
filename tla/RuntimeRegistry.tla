--------------------------- MODULE RuntimeRegistry ---------------------------
(***************************************************************************)
(* The gateway's TmuxRuntimeRegistry for one device, and as much of the    *)
(* life of a DeviceSessionRuntime as its holders see.  The registry hands  *)
(* out one shared runtime per device and counts references; an entry whose *)
(* runtime has died but is still referenced is kept as an orphan.          *)
(* Runtimes are numbered in the order they are made.                       *)
(*                                                                         *)
(* The operators map a registry to the one after a call.  acquire and      *)
(* release are asynchronous functions, but createRuntime only constructs   *)
(* an object, so all they await is resolved before any timer, socket or    *)
(* request is served: a call is one step.                                  *)
(***************************************************************************)
EXTENDS Integers

CONSTANT MaxRuntimes    \* bound: runtimes ever made

ASSUME MaxRuntimesAssumption == MaxRuntimes \in Nat \ {0}

Runtimes == 1 .. MaxRuntimes

Lives    == {"unmade", "idle", "connecting", "up", "lost", "shut"}
Promises == {"none", "pending", "ok", "failed"}

\* current: the runtime of `entries', 0 when there is none.  refs: refCount.
\* promise: what came of the runtime's connect().
Registries ==
    [made: 0 .. MaxRuntimes, current: 0 .. MaxRuntimes, refs: [Runtimes -> Int],
     orphans: SUBSET Runtimes, life: [Runtimes -> Lives],
     promise: [Runtimes -> Promises]]

NoRuntimes ==
    [made |-> 0, current |-> 0, refs |-> [r \in Runtimes |-> 0], orphans |-> {},
     life |-> [r \in Runtimes |-> "unmade"], promise |-> [r \in Runtimes |-> "none"]]

Terminated(g, r) == g.life[r] \in {"lost", "shut"}
Alive(g, r)      == g.life[r] \in {"idle", "connecting", "up"}

\* acquire() makes a runtime of its own for every caller.
SharesNothingBug(g) == FALSE

Shares(g)     == g.current # 0 /\ ~Terminated(g, g.current)
CanAcquire(g) == Shares(g) \/ g.made < MaxRuntimes

\* A dead entry that is still referenced waits among the orphans.
Orphans(g) == IF g.current # 0 /\ g.refs[g.current] > 0
              THEN g.orphans \cup {g.current} ELSE g.orphans

MakeRuntime(g) ==
    LET r == g.made + 1 IN
    [g EXCEPT !.made = r, !.current = r, !.orphans = Orphans(g),
              !.refs[r] = 1, !.life[r] = "idle"]

\* Only the first acquire() counts.
AcquireUncountedBug(g) == IF Shares(g) THEN g ELSE MakeRuntime(g)

\* The registry after acquire(); the runtime acquired is its current one.
Acquire(g) == IF Shares(g) THEN [g EXCEPT !.refs[g.current] = @ + 1]
              ELSE MakeRuntime(g)

\* connect() of a live runtime: callers share one promise.
Connect(g, r) == IF g.promise[r] # "none" THEN g
                 ELSE [g EXCEPT !.life[r] = "connecting", !.promise[r] = "pending"]

\* shutdown(), that is disconnect(): silent, and only once.
Shutdown(g, r) == IF Terminated(g, r) THEN g ELSE [g EXCEPT !.life[r] = "shut"]

ReleaseOrphan(g, r) ==
    [g EXCEPT !.refs[r] = @ - 1,
              !.orphans = IF g.refs[r] <= 1 THEN @ \ {r} ELSE @]

ReleaseCurrent(g, r) ==
    LET less == [g EXCEPT !.refs[r] = @ - 1] IN
    IF less.refs[r] > 0 THEN less ELSE Shutdown([less EXCEPT !.current = 0], r)

\* release() does not match the instance: it always counts on the current entry.
ReleaseAnyBug(g, r) == IF g.current = 0 THEN g ELSE ReleaseCurrent(g, g.current)

\* release(): of an orphan, of the current entry, or of neither and ignored.
Release(g, r) ==
    IF r \in g.orphans THEN ReleaseOrphan(g, r)
    ELSE IF r = g.current THEN ReleaseCurrent(g, r)
    ELSE g

\* connect() settles.  A runtime that died meanwhile stays dead.
Settle(g, r, ok) ==
    [g EXCEPT !.promise[r] = IF ok THEN "ok" ELSE "failed",
              !.life[r] = IF @ # "connecting" THEN @ ELSE IF ok THEN "up" ELSE "lost"]

\* The connection reports its end: the runtime is terminated.
Lose(g, r) == [g EXCEPT !.life[r] = "lost"]

=============================================================================

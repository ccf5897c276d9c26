---------------------------- MODULE RegistryProofs ----------------------------
(***************************************************************************)
(* Facts about RuntimeRegistry that hold for any number of runtimes and    *)
(* whoever calls it: what acquire(), connect(), release() and the end of a *)
(* connection keep true of a registry, and how they change its counts.     *)
(***************************************************************************)
EXTENDS RuntimeRegistry, TLAPS

\* Only the current runtime is alive, and it waits for nobody to let it go.
OnlyCurrentLives(g) == \A r \in Runtimes : Alive(g, r) => r = g.current
Numbered(g) == /\ g.current <= g.made /\ g.current \notin g.orphans
               /\ \A r \in g.orphans : r <= g.made
               /\ \A r \in Runtimes : r <= g.made => g.life[r] # "unmade"
RegistryOK(g) == g \in Registries /\ OnlyCurrentLives(g) /\ Numbered(g)

LEMMA InitRegistry == RegistryOK(NoRuntimes)
BY MaxRuntimesAssumption
   DEF RegistryOK, OnlyCurrentLives, Numbered, NoRuntimes, Registries, Runtimes, Alive, Lives, Promises

-----------------------------------------------------------------------------
(* acquire() and connect()                                                 *)

\* A runtime is made only when no other is alive, and has one holder.
LEMMA MakeKeepsRegistry ==
    ASSUME NEW g, RegistryOK(g), CanAcquire(g), ~Shares(g)
    PROVE  /\ RegistryOK(MakeRuntime(g))
           /\ MakeRuntime(g).current \in Runtimes
           /\ MakeRuntime(g).current = g.made + 1 /\ MakeRuntime(g).made = g.made + 1
           /\ MakeRuntime(g).refs[g.made + 1] = 1
<1> DEFINE r == g.made + 1
           h == MakeRuntime(g)
<1>1. g \in Registries /\ Numbered(g)
  BY DEF RegistryOK
<1>2. r \in Runtimes /\ r \in 0 .. MaxRuntimes /\ Orphans(g) \subseteq Runtimes
  BY <1>1, MaxRuntimesAssumption DEF Registries, CanAcquire, Orphans, Runtimes
<1>3. \A s \in Runtimes : ~Alive(g, s)
  BY MaxRuntimesAssumption
     DEF RegistryOK, OnlyCurrentLives, Registries, Shares, Terminated, Alive, Runtimes
<1>4. /\ [g.refs EXCEPT ![r] = 1] \in [Runtimes -> Int]
      /\ [g.life EXCEPT ![r] = "idle"] \in [Runtimes -> Lives]
  BY <1>1, <1>2 DEF Registries, Lives
<1>5. h = [g EXCEPT !.made = r, !.current = r, !.orphans = Orphans(g),
                    !.refs = [g.refs EXCEPT ![r] = 1],
                    !.life = [g.life EXCEPT ![r] = "idle"]]
  BY <1>1 DEF MakeRuntime, Registries
<1>6. /\ h.made = r /\ h.current = r /\ h.orphans = Orphans(g)
      /\ h.refs = [g.refs EXCEPT ![r] = 1] /\ h.life = [g.life EXCEPT ![r] = "idle"]
  <2> HIDE DEF r, h
  <2> QED BY <1>1, <1>5 DEF Registries
<1>7. h \in Registries
  <2> HIDE DEF r, h
  <2> QED BY <1>1, <1>2, <1>4, <1>5 DEF Registries
<1>8. \A s \in Orphans(g) : s <= g.made
  BY <1>1, MaxRuntimesAssumption DEF Numbered, Orphans, Registries
<1>9. Numbered(h)
  <2>1. g.made \in Nat /\ Orphans(g) \subseteq Int /\ Runtimes \subseteq Int
    BY <1>1, <1>2, MaxRuntimesAssumption DEF Registries, Runtimes
  <2> HIDE DEF h
  <2>2. ASSUME NEW s \in Runtimes, s <= g.made + 1 PROVE h.life[s] # "unmade"
    BY <1>1, <1>2, <1>6, <2>1, <2>2 DEF Numbered, Registries
  <2> QED BY <2>1, <2>2, <1>6, <1>8 DEF Numbered
<1>10. OnlyCurrentLives(h)
  <2> HIDE DEF h
  <2> QED BY <1>1, <1>2, <1>3, <1>6 DEF Registries, OnlyCurrentLives, Alive
<1>11. h.refs[r] = 1
  <2> HIDE DEF h
  <2> QED BY <1>1, <1>2, <1>6 DEF Registries
<1> QED
  BY <1>2, <1>6, <1>7, <1>9, <1>10, <1>11 DEF RegistryOK

LEMMA ShareKeepsRegistry ==
    ASSUME NEW g, RegistryOK(g), Shares(g)
    PROVE  /\ RegistryOK(Acquire(g)) /\ g.current \in Runtimes /\ Alive(g, g.current)
           /\ Acquire(g).current = g.current /\ Acquire(g).made = g.made
           /\ Acquire(g).life = g.life
           /\ Acquire(g).refs = [g.refs EXCEPT ![g.current] = @ + 1]
<1>1. g.current \in Runtimes /\ Alive(g, g.current)
  BY MaxRuntimesAssumption
     DEF RegistryOK, Registries, Shares, Runtimes, Numbered, Terminated, Alive, Lives
<1>2. Acquire(g) = [g EXCEPT !.refs[g.current] = @ + 1]
  BY DEF Acquire
<1>3. Acquire(g) \in Registries
  BY <1>1, <1>2 DEF RegistryOK, Registries
<1>4. /\ Acquire(g).current = g.current /\ Acquire(g).made = g.made
      /\ Acquire(g).life = g.life /\ Acquire(g).orphans = g.orphans
      /\ Acquire(g).refs = [g.refs EXCEPT ![g.current] = @ + 1]
  BY <1>2 DEF RegistryOK, Registries
<1> QED
  BY <1>1, <1>3, <1>4 DEF RegistryOK, OnlyCurrentLives, Numbered, Alive

\* The runtime acquired is the current one.  It has one holder more, and nobody
\* else is alive; or it is new, and has one holder.
LEMMA AcquireKeepsRegistry ==
    ASSUME NEW g, RegistryOK(g), CanAcquire(g)
    PROVE  /\ RegistryOK(Acquire(g)) /\ Acquire(g).current \in Runtimes
           /\ \/ /\ Acquire(g).made = g.made /\ Acquire(g).current = g.current
                 /\ Alive(g, g.current)
                 /\ Acquire(g).life = g.life
                 /\ Acquire(g).refs = [g.refs EXCEPT ![g.current] = @ + 1]
              \/ /\ Acquire(g).made = g.made + 1 /\ Acquire(g).current = g.made + 1
                 /\ Acquire(g).refs[g.made + 1] = 1
<1>1. CASE Shares(g)
  BY <1>1, ShareKeepsRegistry
<1>2. CASE ~Shares(g)
  BY <1>2, MakeKeepsRegistry DEF Acquire
<1> QED
  BY <1>1, <1>2

\* connect() is called on the runtime just acquired, which is the current one.
LEMMA ConnectKeepsRegistry ==
    ASSUME NEW g, RegistryOK(g), g.current \in Runtimes
    PROVE  /\ RegistryOK(Connect(g, g.current))
           /\ Connect(g, g.current).current = g.current /\ Connect(g, g.current).made = g.made
           /\ Connect(g, g.current).refs = g.refs
<1>1. CASE g.promise[g.current] # "none"
  BY <1>1 DEF Connect
<1>2. CASE g.promise[g.current] = "none"
  <2> DEFINE h == Connect(g, g.current)
  <2>1. h \in Registries
    BY <1>2 DEF RegistryOK, Registries, Connect, Lives, Promises
  <2>2. /\ h.current = g.current /\ h.made = g.made /\ h.orphans = g.orphans /\ h.refs = g.refs
        /\ \A r \in Runtimes : IF r # g.current THEN h.life[r] = g.life[r] ELSE h.life[r] = "connecting"
    BY <1>2 DEF RegistryOK, Registries, Connect
  <2> HIDE DEF h
  <2>3. OnlyCurrentLives(h) /\ Numbered(h)
    BY <2>2 DEF RegistryOK, OnlyCurrentLives, Numbered, Alive
  <2> QED
    BY <2>1, <2>2, <2>3 DEF RegistryOK, h
<1> QED
  BY <1>1, <1>2

\* Both together, as those who wait for the runtime call them.
LEMMA AcquireThenConnect ==
    ASSUME NEW g, RegistryOK(g), CanAcquire(g)
    PROVE  LET h == Connect(Acquire(g), Acquire(g).current) IN
           /\ RegistryOK(h) /\ h.current \in Runtimes
           /\ \/ /\ h.made = g.made /\ h.current = g.current /\ Alive(g, g.current)
                 /\ h.refs = [g.refs EXCEPT ![g.current] = @ + 1]
              \/ /\ h.made = g.made + 1 /\ h.current = g.made + 1
                 /\ h.refs[g.made + 1] = 1
<1> DEFINE a == Acquire(g)
<1>1. /\ RegistryOK(a) /\ a.current \in Runtimes
      /\ \/ /\ a.made = g.made /\ a.current = g.current /\ Alive(g, g.current)
            /\ a.refs = [g.refs EXCEPT ![g.current] = @ + 1]
         \/ /\ a.made = g.made + 1 /\ a.current = g.made + 1
            /\ a.refs[g.made + 1] = 1
  BY AcquireKeepsRegistry
<1> HIDE DEF a
<1>2. /\ RegistryOK(Connect(a, a.current))
      /\ Connect(a, a.current).current = a.current /\ Connect(a, a.current).made = a.made
      /\ Connect(a, a.current).refs = a.refs
  BY <1>1, ConnectKeepsRegistry
<1> QED
  BY <1>1, <1>2 DEF a

-----------------------------------------------------------------------------
(* release()                                                               *)

\* What the caller lets go has one holder less, nothing else changes its count,
\* and nobody comes to life.
Lessened(g, h, r) ==
    \A s \in Runtimes : Alive(h, s) =>
        Alive(g, s) /\ h.refs[s] = IF s = r THEN g.refs[s] - 1 ELSE g.refs[s]

LEMMA OrphanKeepsRegistry ==
    ASSUME NEW g, RegistryOK(g), NEW r \in g.orphans
    PROVE  /\ RegistryOK(ReleaseOrphan(g, r)) /\ ReleaseOrphan(g, r).made = g.made
           /\ Lessened(g, ReleaseOrphan(g, r), r)
<1> DEFINE h == ReleaseOrphan(g, r)
<1>1. g \in Registries /\ r \in Runtimes
  BY DEF RegistryOK, Registries
<1>2. /\ (IF g.refs[r] <= 1 THEN g.orphans \ {r} ELSE g.orphans) \in SUBSET Runtimes
      /\ [g.refs EXCEPT ![r] = @ - 1] \in [Runtimes -> Int]
  BY <1>1 DEF Registries
<1>3. h \in Registries
  BY <1>1, <1>2 DEF Registries, ReleaseOrphan
<1>4. /\ h.current = g.current /\ h.life = g.life /\ h.made = g.made
      /\ h.orphans \subseteq g.orphans
      /\ h.refs = [g.refs EXCEPT ![r] = @ - 1]
  BY <1>1 DEF Registries, ReleaseOrphan
<1> HIDE DEF h
<1>5. OnlyCurrentLives(h) /\ Numbered(h)
  BY <1>4 DEF RegistryOK, OnlyCurrentLives, Numbered, Alive
<1>6. Lessened(g, h, r)
  BY <1>1, <1>4 DEF Lessened, Registries, Alive
<1> QED
  BY <1>3, <1>4, <1>5, <1>6 DEF RegistryOK, h

LEMMA ShutdownKeepsRegistry ==
    ASSUME NEW g, g \in Registries, NEW r,
           \A x \in Runtimes : Alive(g, x) => x = r
    PROVE  /\ Shutdown(g, r) \in Registries /\ \A x \in Runtimes : ~Alive(Shutdown(g, r), x)
           /\ Shutdown(g, r).current = g.current /\ Shutdown(g, r).made = g.made
           /\ Shutdown(g, r).orphans = g.orphans
           /\ \A x \in Runtimes : g.life[x] # "unmade" => Shutdown(g, r).life[x] # "unmade"
<1>1. CASE Terminated(g, r)
  BY <1>1 DEF Shutdown, Terminated, Alive
<1>2. CASE ~Terminated(g, r)
  BY <1>2 DEF Shutdown, Registries, Alive, Lives
<1> QED
  BY <1>1, <1>2

LEMMA CurrentKeepsRegistry ==
    ASSUME NEW g, RegistryOK(g), NEW r, r = g.current
    PROVE  /\ RegistryOK(ReleaseCurrent(g, r)) /\ ReleaseCurrent(g, r).made = g.made
           /\ Lessened(g, ReleaseCurrent(g, r), r)
<1> DEFINE less == [g EXCEPT !.refs[r] = @ - 1]
           gone == [less EXCEPT !.current = 0]
           over == Shutdown(gone, r)
<1>1. /\ less \in Registries /\ less.life = g.life /\ less.current = g.current
      /\ less.made = g.made /\ less.orphans = g.orphans
      /\ less.refs = [g.refs EXCEPT ![r] = @ - 1]
  BY DEF RegistryOK, Registries
<1>2. /\ gone \in Registries /\ gone.life = g.life /\ gone.current = 0
      /\ gone.made = g.made /\ gone.orphans = g.orphans
  <2> HIDE DEF less
  <2> QED
    BY <1>1, MaxRuntimesAssumption DEF Registries
<1>3. /\ over \in Registries /\ \A x \in Runtimes : ~Alive(over, x)
      /\ over.current = 0 /\ over.made = g.made /\ over.orphans = g.orphans
      /\ \A x \in Runtimes : g.life[x] # "unmade" => over.life[x] # "unmade"
  <2>1. \A x \in Runtimes : Alive(gone, x) => x = r
    BY <1>2 DEF RegistryOK, OnlyCurrentLives, Alive
  <2> HIDE DEF gone
  <2> QED
    BY <1>2, <2>1, ShutdownKeepsRegistry
<1>4. ReleaseCurrent(g, r) = IF less.refs[r] > 0 THEN less ELSE over
  BY DEF ReleaseCurrent
<1> HIDE DEF less, over
<1>5. OnlyCurrentLives(less) /\ Numbered(less) /\ Lessened(g, less, r)
  BY <1>1 DEF RegistryOK, OnlyCurrentLives, Numbered, Lessened, Alive, Registries
<1>6. OnlyCurrentLives(over) /\ Numbered(over) /\ Lessened(g, over, r)
  <2>1. 0 \notin Runtimes /\ over.orphans \subseteq Runtimes /\ over.made \in Nat
    BY <1>3, MaxRuntimesAssumption DEF Runtimes, Registries
  <2> QED
    BY <1>3, <2>1 DEF RegistryOK, OnlyCurrentLives, Numbered, Lessened
<1> QED
  BY <1>1, <1>3, <1>4, <1>5, <1>6 DEF RegistryOK

\* release() of whatever the caller holds, again or not at all.
LEMMA ReleaseKeepsRegistry ==
    ASSUME NEW g, RegistryOK(g), NEW r
    PROVE  /\ RegistryOK(Release(g, r)) /\ Release(g, r).made = g.made
           /\ Lessened(g, Release(g, r), r)
<1>1. CASE r \in g.orphans
  BY <1>1, OrphanKeepsRegistry DEF Release
<1>2. CASE r \notin g.orphans /\ r = g.current
  BY <1>2, CurrentKeepsRegistry DEF Release
<1>3. CASE r \notin g.orphans /\ r # g.current
  BY <1>3 DEF Release, Lessened, RegistryOK, OnlyCurrentLives
<1> QED
  BY <1>1, <1>2, <1>3

-----------------------------------------------------------------------------
(* connect() settles, or the connection is lost, or both at once.          *)

LEMMA EndingKeepsRegistry ==
    ASSUME NEW g, RegistryOK(g), NEW r \in Runtimes, NEW ok \in BOOLEAN
    PROVE  /\ RegistryOK(Settle(g, r, ok)) /\ RegistryOK(Lose(g, r))
           /\ RegistryOK(Settle(Lose(g, r), r, ok))
<1>1. RegistryOK(Lose(g, r))
  BY DEF RegistryOK, Registries, OnlyCurrentLives, Numbered, Alive, Lose, Lives
<1>2. ASSUME NEW h, RegistryOK(h) PROVE RegistryOK(Settle(h, r, ok))
  <2>1. Settle(h, r, ok) \in Registries
    BY <1>2 DEF RegistryOK, Registries, Settle, Lives, Promises
  <2>2. OnlyCurrentLives(Settle(h, r, ok)) /\ Numbered(Settle(h, r, ok))
    BY <1>2 DEF RegistryOK, Registries, OnlyCurrentLives, Numbered, Alive, Settle
  <2> QED
    BY <2>1, <2>2 DEF RegistryOK
<1> QED
  BY <1>1, <1>2

\* Neither changes a count, makes a runtime or brings one to life.
LEMMA EndingKeepsCounts ==
    ASSUME NEW g, g \in Registries, NEW r \in Runtimes, NEW ok \in BOOLEAN
    PROVE  \A h \in {Settle(g, r, ok), Lose(g, r), Settle(Lose(g, r), r, ok)} :
               /\ h.refs = g.refs /\ h.made = g.made
               /\ \A s \in Runtimes : Alive(h, s) => Alive(g, s)
<1>1. ASSUME NEW h, h \in Registries
      PROVE  /\ Settle(h, r, ok).refs = h.refs /\ Settle(h, r, ok).made = h.made
             /\ \A s \in Runtimes : Alive(Settle(h, r, ok), s) => Alive(h, s)
  BY <1>1 DEF Registries, Settle, Alive
<1>2. /\ Lose(g, r).refs = g.refs /\ Lose(g, r).made = g.made /\ Lose(g, r) \in Registries
      /\ \A s \in Runtimes : Alive(Lose(g, r), s) => Alive(g, s)
  BY DEF Registries, Lose, Alive, Lives
<1> QED
  BY <1>1, <1>2

-----------------------------------------------------------------------------
(* The life of a runtime and what came of its connect()                    *)

LivesMatch(g) == \A r \in Runtimes :
    /\ r > g.made => g.life[r] = "unmade"
    /\ g.life[r] \in {"unmade", "idle"} => g.promise[r] = "none"
    /\ g.life[r] = "connecting" => g.promise[r] = "pending"
    /\ g.life[r] = "up" => g.promise[r] = "ok"
    /\ g.life[r] = "lost" => g.promise[r] \in {"ok", "failed"}

LEMMA InitLives == LivesMatch(NoRuntimes)
BY DEF LivesMatch, NoRuntimes

\* acquire() leaves every runtime as it is, but the one it makes.
LEMMA AcquireLives ==
    ASSUME NEW g, RegistryOK(g), LivesMatch(g), CanAcquire(g)
    PROVE  /\ LivesMatch(Acquire(g)) /\ Acquire(g).promise = g.promise
           /\ \A r \in Runtimes : r # Acquire(g).current => Acquire(g).life[r] = g.life[r]
           /\ Alive(Acquire(g), Acquire(g).current)
<1>0. g \in Registries
  BY DEF RegistryOK
<1>1. CASE Shares(g)
  <2> DEFINE h == Acquire(g)
  <2>1. /\ h.made = g.made /\ h.life = g.life /\ h.current = g.current
        /\ g.current \in Runtimes /\ Alive(g, g.current)
    BY <1>1, ShareKeepsRegistry
  <2>2. h.promise = g.promise
    BY <1>0, <1>1 DEF Acquire, Registries
  <2> HIDE DEF h
  <2> QED
    BY <2>1, <2>2 DEF LivesMatch, Alive, h
<1>2. CASE ~Shares(g)
  <2> DEFINE r == g.made + 1
             h == MakeRuntime(g)
  <2>0. Acquire(g) = h /\ r \in Runtimes /\ g.made \in Nat
    BY <1>0, <1>2, MaxRuntimesAssumption DEF Acquire, CanAcquire, Registries, Runtimes
  <2>1. h.made = r /\ h.current = r
    BY <1>2, MakeKeepsRegistry
  <2>2. h.promise = g.promise /\ h.life = [g.life EXCEPT ![r] = "idle"]
    BY <1>0 DEF MakeRuntime, Registries
  <2>3. g.life[r] = "unmade"
    BY <2>0 DEF LivesMatch
  <2> HIDE DEF h
  <2>4. \A s \in Runtimes : h.life[s] = IF s = r THEN "idle" ELSE g.life[s]
    BY <1>0, <2>2 DEF Registries
  <2>5. \A s \in Runtimes : s > r => s > g.made /\ s # r
    BY <2>0 DEF Runtimes
  <2>6. LivesMatch(h)
    BY <2>0, <2>1, <2>2, <2>3, <2>4, <2>5 DEF LivesMatch
  <2> QED
    BY <2>0, <2>1, <2>2, <2>4, <2>6 DEF Alive
<1> QED
  BY <1>1, <1>2

\* connect() of it: it is connecting, or up.
LEMMA ConnectLives ==
    ASSUME NEW g, RegistryOK(g), LivesMatch(g), CanAcquire(g)
    PROVE  LET h == Connect(Acquire(g), Acquire(g).current) IN
           /\ LivesMatch(h)
           /\ \A r \in Runtimes : r # h.current => h.promise[r] = g.promise[r] /\ h.life[r] = g.life[r]
           /\ \A r \in Runtimes : g.promise[r] # "none" => h.promise[r] = g.promise[r]
           /\ h.promise[h.current] \in {"pending", "ok"}
           /\ Alive(h, h.current)
<1> DEFINE a == Acquire(g)
           c == a.current
           h == Connect(a, c)
<1>1. /\ LivesMatch(a) /\ a.promise = g.promise /\ Alive(a, c)
      /\ \A r \in Runtimes : r # c => a.life[r] = g.life[r]
  BY AcquireLives
<1>2. RegistryOK(a) /\ c \in Runtimes
  BY AcquireKeepsRegistry
<1> HIDE DEF a
<1>3. h.current = c /\ h.made = a.made
  BY <1>2, ConnectKeepsRegistry
<1>4. CASE a.promise[c] # "none"
  <2>1. h = a
    BY <1>4 DEF Connect
  <2>2. a.promise[c] \in {"pending", "ok"}
    BY <1>1, <1>2, <1>4 DEF LivesMatch, Alive
  <2> QED
    BY <1>1, <1>2, <2>1, <2>2 DEF a
<1>5. CASE a.promise[c] = "none"
  <2>1. /\ h.life = [a.life EXCEPT ![c] = "connecting"] /\ h.promise = [a.promise EXCEPT ![c] = "pending"]
        /\ a.life \in [Runtimes -> Lives] /\ a.promise \in [Runtimes -> Promises]
    BY <1>2, <1>5 DEF Connect, RegistryOK, Registries
  <2> HIDE DEF h
  <2>2. \A r \in Runtimes : /\ h.life[r] = IF r = c THEN "connecting" ELSE a.life[r]
                            /\ h.promise[r] = IF r = c THEN "pending" ELSE a.promise[r]
    BY <2>1
  <2>3. \A r \in Runtimes : r > a.made => r # c
    BY <1>1, <1>2 DEF LivesMatch, Alive
  <2>4. LivesMatch(h)
    BY <1>1, <1>3, <2>2, <2>3 DEF LivesMatch
  <2>5. \A r \in Runtimes : /\ r # c => h.promise[r] = g.promise[r] /\ h.life[r] = g.life[r]
                            /\ g.promise[r] # "none" => h.promise[r] = g.promise[r]
    BY <1>1, <1>5, <2>2
  <2>6. h.promise[c] \in {"pending", "ok"} /\ Alive(h, c)
    BY <1>2, <2>2 DEF Alive
  <2> QED
    BY <1>3, <2>4, <2>5, <2>6 DEF h, a
<1> QED
  BY <1>4, <1>5

\* release() shuts down at most the live runtime it is of, with the last holder.
LEMMA ReleaseLives ==
    ASSUME NEW g, RegistryOK(g), LivesMatch(g), NEW r \in Runtimes
    PROVE  /\ LivesMatch(Release(g, r)) /\ Release(g, r).promise = g.promise
           /\ \A s \in Runtimes :
                 \/ Release(g, r).life[s] = g.life[s]
                 \/ Release(g, r).life[s] = "shut" /\ s = r /\ Alive(g, r) /\ g.refs[r] <= 1
           /\ Alive(Release(g, r), r) => g.refs[r] > 1
<1> DEFINE h == Release(g, r)
<1>0. g \in Registries /\ h.made = g.made
  BY ReleaseKeepsRegistry DEF RegistryOK
<1>1. CASE r \in g.orphans
  <2>1. h.life = g.life /\ h.promise = g.promise
    BY <1>0, <1>1 DEF Release, ReleaseOrphan, Registries
  <2>2. ~Alive(g, r)
    BY <1>1 DEF RegistryOK, OnlyCurrentLives, Numbered
  <2> HIDE DEF h
  <2> QED
    BY <1>0, <2>1, <2>2 DEF LivesMatch, Alive, h
<1>2. CASE r \notin g.orphans /\ r # g.current
  <2>1. h = g
    BY <1>2 DEF Release
  <2>2. ~Alive(g, r)
    BY <1>2 DEF RegistryOK, OnlyCurrentLives
  <2> QED
    BY <2>1, <2>2
<1>3. CASE r \notin g.orphans /\ r = g.current
  <2> DEFINE less == [g EXCEPT !.refs[r] = @ - 1]
             gone == [less EXCEPT !.current = 0]
  <2>1. h = IF less.refs[r] > 0 THEN less ELSE Shutdown(gone, r)
    BY <1>3 DEF Release, ReleaseCurrent
  <2>2. /\ less.life = g.life /\ less.promise = g.promise /\ less.refs[r] = g.refs[r] - 1
        /\ gone.life = g.life /\ gone.promise = g.promise /\ g.refs[r] \in Int
        /\ g.life \in [Runtimes -> Lives]
    BY <1>0 DEF Registries
  <2>3. g.life[r] # "unmade"
    BY <1>3 DEF RegistryOK, Numbered
  <2>4. CASE g.refs[r] > 1
    <3>1. h = less
      BY <2>1, <2>2, <2>4
    <3>2. h.life = g.life /\ h.promise = g.promise
      BY <2>2, <3>1
    <3> HIDE DEF h
    <3> QED
      BY <1>0, <2>4, <3>2 DEF LivesMatch, h
  <2>5. CASE ~(g.refs[r] > 1)
    <3>1. h = Shutdown(gone, r) /\ g.refs[r] <= 1
      BY <2>1, <2>2, <2>5
    <3>2. CASE Terminated(g, r)
      <4>1. h.life = g.life /\ h.promise = g.promise
        BY <2>2, <3>1, <3>2 DEF Shutdown, Terminated
      <4>2. ~Alive(g, r)
        BY <3>2 DEF Terminated, Alive
      <4> HIDE DEF h
      <4> QED
        BY <1>0, <4>1, <4>2 DEF LivesMatch, Alive, h
    <3>3. CASE ~Terminated(g, r)
      <4>1. ~Terminated(gone, r)
        BY <2>2, <3>3 DEF Terminated
      <4>2. Shutdown(gone, r) = [gone EXCEPT !.life[r] = "shut"]
        BY <4>1 DEF Shutdown
      <4>3. gone \in Registries
        <5>1. less \in Registries
          BY <1>0 DEF Registries
        <5> HIDE DEF less
        <5> QED
          BY <5>1, MaxRuntimesAssumption DEF Registries
      <4> HIDE DEF gone
      <4>4. /\ h.promise = g.promise
            /\ \A s \in Runtimes : h.life[s] = IF s = r THEN "shut" ELSE g.life[s]
        BY <2>2, <3>1, <4>2, <4>3 DEF Registries
      <4>5. Alive(g, r) /\ ~(r > g.made)
        BY <1>3, <2>2, <2>3, <3>3 DEF Terminated, Alive, Lives, LivesMatch
      <4> HIDE DEF h
      <4> QED
        BY <1>0, <3>1, <4>4, <4>5 DEF LivesMatch, Alive, h
    <3> QED
      BY <3>2, <3>3
  <2> QED
    BY <2>4, <2>5
<1> QED
  BY <1>1, <1>2, <1>3

\* The connection is lost, or a connect() settles.
LEMMA EndingLives ==
    ASSUME NEW g, RegistryOK(g), LivesMatch(g), NEW r \in Runtimes, NEW ok \in BOOLEAN
    PROVE  /\ g.life[r] = "up" =>
                 /\ LivesMatch(Lose(g, r)) /\ Lose(g, r).promise = g.promise
           /\ g.promise[r] = "pending" =>
                 /\ LivesMatch(Settle(g, r, ok))
                 /\ \A s \in Runtimes : s # r => /\ Settle(g, r, ok).life[s] = g.life[s]
                                                 /\ Settle(g, r, ok).promise[s] = g.promise[s]
                 /\ Settle(g, r, ok).promise[r] = IF ok THEN "ok" ELSE "failed"
                 /\ Settle(g, r, ok).life[r] = IF g.life[r] # "connecting" THEN g.life[r]
                                               ELSE IF ok THEN "up" ELSE "lost"
           /\ g.life[r] = "connecting" =>
                 /\ LivesMatch(Settle(Lose(g, r), r, ok))
                 /\ \A s \in Runtimes : s # r => Settle(Lose(g, r), r, ok).promise[s] = g.promise[s]
                 /\ Settle(Lose(g, r), r, ok).promise[r] \in {"ok", "failed"}
           /\ \A s \in Runtimes : s # r => /\ Lose(g, r).life[s] = g.life[s]
                                           /\ Settle(Lose(g, r), r, ok).life[s] = g.life[s]
           /\ Lose(g, r).life[r] = "lost" /\ Settle(Lose(g, r), r, ok).life[r] = "lost"
<1>0. g \in Registries
  BY DEF RegistryOK
<1>1. ASSUME NEW h \in Registries
      PROVE  /\ Settle(h, r, ok).made = h.made
             /\ \A s \in Runtimes :
                   /\ Settle(h, r, ok).promise[s] = IF s # r THEN h.promise[s] ELSE IF ok THEN "ok" ELSE "failed"
                   /\ Settle(h, r, ok).life[s] = IF s # r \/ h.life[s] # "connecting" THEN h.life[s]
                                                 ELSE IF ok THEN "up" ELSE "lost"
  BY DEF Settle, Registries
<1>2. /\ Lose(g, r) \in Registries /\ Lose(g, r).made = g.made /\ Lose(g, r).promise = g.promise
      /\ \A s \in Runtimes : Lose(g, r).life[s] = IF s = r THEN "lost" ELSE g.life[s]
  BY <1>0 DEF Lose, Registries, Lives
<1> DEFINE l == Lose(g, r)
           e == Settle(l, r, ok)
           t == Settle(g, r, ok)
<1>3. /\ t.made = g.made
      /\ \A s \in Runtimes :
            /\ t.promise[s] = IF s # r THEN g.promise[s] ELSE IF ok THEN "ok" ELSE "failed"
            /\ t.life[s] = IF s # r \/ g.life[s] # "connecting" THEN g.life[s]
                           ELSE IF ok THEN "up" ELSE "lost"
  BY <1>0, <1>1
<1>4. /\ e.made = g.made
      /\ \A s \in Runtimes :
            /\ e.promise[s] = IF s # r THEN g.promise[s] ELSE IF ok THEN "ok" ELSE "failed"
            /\ e.life[s] = IF s = r THEN "lost" ELSE g.life[s]
  BY <1>1, <1>2
<1>5. /\ l.made = g.made /\ l.promise = g.promise
      /\ \A s \in Runtimes : l.life[s] = IF s = r THEN "lost" ELSE g.life[s]
  BY <1>2
<1> HIDE DEF l, e, t
<1>6. g.life[r] = "up" => LivesMatch(l)
  BY <1>5 DEF LivesMatch
<1>7. g.promise[r] = "pending" => LivesMatch(t)
  BY <1>3 DEF LivesMatch
<1>8. g.life[r] = "connecting" => LivesMatch(e)
  BY <1>4 DEF LivesMatch
<1> QED
  BY <1>3, <1>4, <1>5, <1>6, <1>7, <1>8 DEF l, e, t

-----------------------------------------------------------------------------
(* A count n of those who hold runtime r                                   *)

\* While it lives n is its reference count; nobody holds one that was shut down,
\* or is not made yet.
HeldBy(g, r, n) == /\ n \in Nat
                   /\ Alive(g, r) => g.refs[r] = n
                   /\ g.life[r] = "shut" => n = 0
                   /\ r > g.made => n = 0

LEMMA ReleaseCounts ==
    ASSUME NEW g, RegistryOK(g), LivesMatch(g), NEW r \in Runtimes, NEW s \in Runtimes,
           NEW n, HeldBy(g, s, n)
    PROVE  /\ s # r \/ ~Alive(g, r) => HeldBy(Release(g, r), s, n)
           /\ s = r /\ n # 0 => HeldBy(Release(g, r), s, n - 1)
<1> DEFINE h == Release(g, r)
<1>1. h.made = g.made /\ Lessened(g, h, r)
  BY ReleaseKeepsRegistry
<1>2. /\ h.life[s] = g.life[s] \/ (h.life[s] = "shut" /\ s = r /\ Alive(g, r) /\ g.refs[r] <= 1)
      /\ Alive(h, r) => g.refs[r] > 1
  BY ReleaseLives
<1> HIDE DEF h
<1>3. Alive(h, s) => Alive(g, s) /\ h.refs[s] = IF s = r THEN g.refs[s] - 1 ELSE g.refs[s]
  BY <1>1 DEF Lessened
<1>4. CASE s # r \/ ~Alive(g, r)
  <2>1. h.life[s] = g.life[s]
    BY <1>2, <1>4
  <2> QED
    BY <1>1, <1>3, <1>4, <2>1 DEF HeldBy, Alive, h
<1>5. CASE s = r /\ Alive(g, r) /\ n # 0
  <2>1. n \in Nat /\ g.refs[r] = n /\ n - 1 \in Nat
    BY <1>5 DEF HeldBy
  <2>2. h.life[s] = "shut" => n - 1 = 0
    BY <1>2, <1>5, <2>1 DEF Alive
  <2>3. ~(r > g.made)
    BY <1>5 DEF HeldBy
  <2> QED
    BY <1>1, <1>3, <1>5, <2>1, <2>2, <2>3 DEF HeldBy, h
<1>6. CASE s = r /\ ~Alive(g, r) /\ n # 0
  <2>1. n \in Nat /\ n - 1 \in Nat /\ ~Alive(h, s) /\ h.life[s] # "shut"
    BY <1>2, <1>3, <1>6 DEF HeldBy
  <2>2. ~(r > g.made)
    BY <1>6 DEF HeldBy
  <2> QED
    BY <1>1, <1>6, <2>1, <2>2 DEF HeldBy, h
<1> QED
  BY <1>4, <1>5, <1>6

LEMMA AcquireCounts ==
    ASSUME NEW g, RegistryOK(g), LivesMatch(g), CanAcquire(g), NEW s \in Runtimes,
           NEW n, HeldBy(g, s, n),
           NEW h, h \in {Acquire(g), Connect(Acquire(g), Acquire(g).current)}
    PROVE  HeldBy(h, s, IF s = h.current THEN n + 1 ELSE n)
<1>1. /\ RegistryOK(h) /\ h.current \in Runtimes
      /\ \/ /\ h.made = g.made /\ h.current = g.current /\ Alive(g, g.current)
            /\ h.refs = [g.refs EXCEPT ![g.current] = @ + 1]
         \/ /\ h.made = g.made + 1 /\ h.current = g.made + 1
            /\ h.refs[g.made + 1] = 1
  BY AcquireKeepsRegistry, AcquireThenConnect
<1>2. /\ \A r \in Runtimes : r # h.current => h.life[r] = g.life[r]
      /\ Alive(h, h.current)
  BY AcquireLives, ConnectLives
<1>3. /\ g.refs \in [Runtimes -> Int] /\ g.made \in Nat /\ n \in Nat /\ s \in Int
      /\ \A r \in Runtimes : Alive(h, r) => r = h.current
  BY <1>1, MaxRuntimesAssumption DEF RegistryOK, Registries, OnlyCurrentLives, HeldBy, Runtimes
<1>4. CASE s # h.current
  <2>1. ~Alive(h, s) /\ h.life[s] = g.life[s]
    BY <1>2, <1>3, <1>4
  <2>2. s > h.made => s > g.made
    BY <1>1, <1>3
  <2> QED
    BY <1>3, <1>4, <2>1, <2>2 DEF HeldBy
<1>5. CASE s = h.current
  <2>1. h.refs[s] = n + 1
    <3>1. CASE /\ h.current = g.current /\ Alive(g, g.current)
               /\ h.refs = [g.refs EXCEPT ![g.current] = @ + 1]
      BY <1>3, <1>5, <3>1 DEF HeldBy
    <3>2. CASE h.current = g.made + 1 /\ h.refs[g.made + 1] = 1
      <4>1. n = 0
        BY <1>3, <1>5, <3>2 DEF HeldBy
      <4> QED
        BY <1>5, <3>2, <4>1
    <3> QED
      BY <1>1, <3>1, <3>2
  <2>2. ~(s > h.made)
    <3>1. h.made \in Int /\ s <= h.made
      BY <1>1, <1>5, MaxRuntimesAssumption DEF RegistryOK, Numbered, Registries
    <3> QED
      BY <1>3, <3>1
  <2>3. h.life[s] # "shut" /\ n + 1 \in Nat
    BY <1>2, <1>3, <1>5 DEF Alive
  <2> QED
    BY <1>5, <2>1, <2>2, <2>3 DEF HeldBy
<1> QED
  BY <1>4, <1>5

LEMMA EndingCounts ==
    ASSUME NEW g, g \in Registries, NEW r \in Runtimes, NEW ok \in BOOLEAN, NEW s \in Runtimes,
           NEW n, HeldBy(g, s, n),
           NEW h, h \in {Settle(g, r, ok), Lose(g, r), Settle(Lose(g, r), r, ok)}
    PROVE  HeldBy(h, s, n)
<1>1. h.refs = g.refs /\ h.made = g.made /\ (Alive(h, s) => Alive(g, s))
  BY EndingKeepsCounts
<1>2. h.life[s] = "shut" => g.life[s] = "shut"
  <2>1. \A k \in Registries : /\ Settle(k, r, ok).life[s] = "shut" => k.life[s] = "shut"
                              /\ Lose(k, r) \in Registries /\ (Lose(k, r).life[s] = "shut" => k.life[s] = "shut")
    BY DEF Settle, Lose, Registries, Lives
  <2> QED
    BY <2>1
<1> QED
  BY <1>1, <1>2 DEF HeldBy

\* What holds a runtime that is gone, but not shut down, may forget it.
LEMMA DeadForgotten ==
    ASSUME NEW g, NEW r, NEW n, HeldBy(g, r, n), ~Alive(g, r), NEW m \in Nat, m <= n
    PROVE  HeldBy(g, r, m)
BY DEF HeldBy

-----------------------------------------------------------------------------
(* What acquire(), connect() and release() never undo                      *)

\* The dead stay dead, a connect() that was called stays called, and what came of
\* it stays; nobody but the connection itself loses a runtime.
Goes(g, h) == \A r \in Runtimes :
    /\ Terminated(g, r) => Terminated(h, r)
    /\ g.promise[r] # "none" => h.promise[r] = g.promise[r]
    /\ h.life[r] = "lost" => g.life[r] = "lost"

LEMMA ReleaseGoes ==
    ASSUME NEW g, RegistryOK(g), LivesMatch(g), NEW r \in Runtimes
    PROVE  /\ Goes(g, Release(g, r)) /\ LivesMatch(Release(g, r)) /\ RegistryOK(Release(g, r))
           /\ \A s \in Runtimes : Alive(Release(g, r), s) => Alive(g, s) /\ Release(g, r).life[s] = g.life[s]
<1>1. RegistryOK(Release(g, r)) /\ LivesMatch(Release(g, r)) /\ Release(g, r).promise = g.promise
  BY ReleaseKeepsRegistry, ReleaseLives
<1>2. \A s \in Runtimes : Release(g, r).life[s] \in {g.life[s], "shut"}
  BY ReleaseLives
<1> QED
  BY <1>1, <1>2 DEF Goes, Terminated, Alive

LEMMA AcquireGoes ==
    ASSUME NEW g, RegistryOK(g), LivesMatch(g), CanAcquire(g),
           NEW h, h \in {Acquire(g), Connect(Acquire(g), Acquire(g).current)}
    PROVE  /\ Goes(g, h) /\ LivesMatch(h) /\ RegistryOK(h) /\ h.current \in Runtimes /\ Alive(h, h.current)
<1>1. /\ RegistryOK(h) /\ h.current \in Runtimes
      /\ \/ h.current = g.current /\ Alive(g, g.current)
         \/ h.current = g.made + 1
  BY AcquireKeepsRegistry, AcquireThenConnect
<1>2. /\ LivesMatch(h) /\ Alive(h, h.current)
      /\ \A r \in Runtimes : r # h.current => h.life[r] = g.life[r]
      /\ \A r \in Runtimes : g.promise[r] # "none" => h.promise[r] = g.promise[r]
  BY AcquireLives, ConnectLives
<1>3. ~Terminated(g, h.current)
  <2>1. CASE h.current = g.current /\ Alive(g, g.current)
    BY <2>1 DEF Terminated, Alive
  <2>2. CASE h.current = g.made + 1
    <3>1. h.current > g.made
      BY <2>2 DEF RegistryOK, Registries
    <3> QED
      BY <1>1, <3>1 DEF LivesMatch, Terminated
  <2> QED
    BY <1>1, <2>1, <2>2
<1>4. Goes(g, h)
  BY <1>2, <1>3 DEF Goes, Terminated, Alive
<1> QED
  BY <1>1, <1>2, <1>4

LEMMA GoesOnAndOn ==
    ASSUME NEW g, NEW h, NEW k, Goes(g, h), Goes(h, k)
    PROVE  Goes(g, k)
BY DEF Goes

=============================================================================

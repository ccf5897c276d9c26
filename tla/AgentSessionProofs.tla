--------------------------- MODULE AgentSessionProofs ---------------------------
(***************************************************************************)
(* Theorems about AgentSession, for every number of messages, of requests, *)
(* of retries and of restarts.                                             *)
(***************************************************************************)
EXTENDS AgentSession, FiniteSetTheorems, SequenceTheorems, WellFoundedInduction, TLAPS

-----------------------------------------------------------------------------
(* Types *)

Statuses  == {"idle", "running", "waiting", "stopped", "error"}
Decisions == {"none", "pending", "approved", "denied", "cancelled"}
Entries   == [by : {"user", "assistant", "tool"}, msg : 0 .. MaxMessages, asks : SUBSET Requests,
              yes : SUBSET Requests, no : SUBSET Requests, results : SUBSET Requests]
Sessions  == [status : Statuses, queue : Seq(Messages), log : Seq(Entries), conf : [Requests -> Decisions]]
Places    == {"active", "orphan"}

TypeInv ==
    /\ db \in Sessions
    /\ proc \in {"up", "stopping", "stopped", "down"}
    /\ runs \in [Places -> Runs]
    /\ said \in 0 .. MaxMessages /\ withdrawn \subseteq Messages /\ late \subseteq Messages
    /\ restarts \in 0 .. MaxRestarts /\ slips \subseteq Slips

-----------------------------------------------------------------------------
(* The operators on the session's rows *)

\* The last element of a set of positions.
LEMMA MaxFacts ==
    ASSUME NEW n \in Nat, NEW S, S \subseteq 1 .. n, S # {}
    PROVE  Max(S) \in S /\ \A y \in S : y <= Max(S)
<1> DEFINE T == {n - x : x \in S}
<1>0. \A x \in S : x \in Nat /\ n - x \in Nat
  OBVIOUS
<1>1. T \subseteq Nat /\ T # {}
  BY <1>0
<1>2. PICK m \in T : \A k \in T : ~(<<k, m>> \in OpToRel(<, Nat))
  BY <1>1, NatLessThanWellFounded, WFMin
<1>3. ASSUME NEW k \in T PROVE m <= k
  <2>1. <<k, m>> \in Nat \X Nat /\ <<k, m>>[1] = k /\ <<k, m>>[2] = m
    BY <1>1
  <2>2. ~(k < m) /\ k \in Nat /\ m \in Nat
    BY <1>1, <1>2, <2>1 DEF OpToRel
  <2> HIDE DEF T
  <2> QED
    BY <2>2
<1>4. PICK x \in S : m = n - x
  OBVIOUS
<1>5. \A y \in S : x >= y
  <2> SUFFICES ASSUME NEW y \in S PROVE x >= y
    OBVIOUS
  <2>1. n - x <= n - y
    BY <1>3, <1>4
  <2>2. x \in Nat /\ y \in Nat
    BY <1>0
  <2> QED
    BY <2>1, <2>2
<1>6. Max(S) \in S /\ \A y \in S : Max(S) >= y
  BY <1>5 DEF Max
<1> QED
  BY <1>6

LEMMA MaxIs ==
    ASSUME NEW n \in Nat, NEW S, S \subseteq 1 .. n, NEW m \in S, \A y \in S : y <= m
    PROVE  Max(S) = m
<1>1. Max(S) \in S /\ m <= Max(S) /\ Max(S) <= m
  BY MaxFacts
<1>2. \A a, b \in 1 .. n : a <= b /\ b <= a => a = b
  OBVIOUS
<1> QED
  BY <1>1, <1>2

\* What a sequence of entries is made of.
LEMMA LogFacts ==
    ASSUME NEW d \in Sessions
    PROVE  /\ d.log \in Seq(Entries) /\ d.queue \in Seq(Messages)
           /\ Len(d.log) \in Nat /\ DOMAIN d.log = 1 .. Len(d.log)
           /\ Len(d.queue) \in Nat /\ DOMAIN d.queue = 1 .. Len(d.queue)
           /\ \A i \in 1 .. Len(d.log) :
                /\ d.log[i] \in Entries
                /\ d.log[i].by \in {"user", "assistant", "tool"} /\ d.log[i].msg \in 0 .. MaxMessages
                /\ d.log[i].asks \subseteq Requests /\ d.log[i].yes \subseteq Requests
                /\ d.log[i].no \subseteq Requests /\ d.log[i].results \subseteq Requests
           /\ \A i \in 1 .. Len(d.queue) : d.queue[i] \in Messages
           /\ (d.log # << >>) <=> Len(d.log) # 0
<1>1. d.log \in Seq(Entries) /\ d.queue \in Seq(Messages)
  BY DEF Sessions
<1>2. /\ Len(d.log) \in Nat /\ DOMAIN d.log = 1 .. Len(d.log)
      /\ Len(d.queue) \in Nat /\ DOMAIN d.queue = 1 .. Len(d.queue)
  BY <1>1, LenProperties
<1>3. \A i \in 1 .. Len(d.log) : d.log[i] \in Entries
  BY <1>1, ElementOfSeq
<1>4. \A i \in 1 .. Len(d.queue) : d.queue[i] \in Messages
  BY <1>1, ElementOfSeq
<1>5. (d.log # << >>) <=> Len(d.log) # 0
  BY <1>1, EmptySeq
<1>6. \A i \in 1 .. Len(d.log) :
          /\ d.log[i].by \in {"user", "assistant", "tool"} /\ d.log[i].msg \in 0 .. MaxMessages
          /\ d.log[i].asks \subseteq Requests /\ d.log[i].yes \subseteq Requests
          /\ d.log[i].no \subseteq Requests /\ d.log[i].results \subseteq Requests
  BY <1>3 DEF Entries
<1> QED
  BY <1>1, <1>2, <1>3, <1>4, <1>5, <1>6

LEMMA EntryTypes ==
    /\ \A n \in Messages : User(n) \in Entries
    /\ \A asks \in SUBSET Requests : Assistant(asks) \in Entries
    /\ \A yes, no, res \in SUBSET Requests : Tool(yes, no, res) \in Entries
<1>1. 0 \in 0 .. MaxMessages /\ \A n \in Messages : n \in 0 .. MaxMessages
  BY AgentAssumption DEF Messages
<1>2. Blank \in Entries
  BY <1>1 DEF Blank, Entries
<1> QED
  BY <1>1, <1>2 DEF User, Assistant, Tool, Entries

\* What an entry says.
LEMMA EntryFacts ==
    /\ \A n : /\ User(n).by = "user" /\ User(n).msg = n /\ User(n).asks = {}
              /\ User(n).yes = {} /\ User(n).no = {} /\ User(n).results = {}
    /\ \A asks : /\ Assistant(asks).by = "assistant" /\ Assistant(asks).msg = 0 /\ Assistant(asks).asks = asks
                 /\ Assistant(asks).yes = {} /\ Assistant(asks).no = {} /\ Assistant(asks).results = {}
    /\ \A yes, no, res : /\ Tool(yes, no, res).by = "tool" /\ Tool(yes, no, res).msg = 0
                         /\ Tool(yes, no, res).asks = {} /\ Tool(yes, no, res).yes = yes
                         /\ Tool(yes, no, res).no = no /\ Tool(yes, no, res).results = res
BY DEF User, Assistant, Tool, Blank

\* appendAgentMessage leaves the rows alone or puts one entry behind the others.
LEMMA AppendedFacts ==
    ASSUME NEW d \in Sessions, NEW e \in Entries
    PROVE  LET f == Appended(d, e) IN
           /\ f \in Sessions /\ f.status = d.status /\ f.queue = d.queue /\ f.conf = d.conf
           /\ \/ f = d /\ e = Assistant({})
              \/ /\ Len(f.log) = Len(d.log) + 1 /\ f.log[Len(d.log) + 1] = e
                 /\ \A i \in 1 .. Len(d.log) : f.log[i] = d.log[i]
<1>1. CASE e = Assistant({}) /\ d.log # << >> /\ Last(d.log) = e
  BY <1>1 DEF Appended
<1>2. CASE ~(e = Assistant({}) /\ d.log # << >> /\ Last(d.log) = e)
  <2> DEFINE s == Append(d.log, e)
  <2>1. /\ s \in Seq(Entries) /\ Len(s) = Len(d.log) + 1 /\ s[Len(d.log) + 1] = e
        /\ \A i \in 1 .. Len(d.log) : s[i] = d.log[i]
    BY LogFacts, AppendProperties
  <2>2. Appended(d, e) = [d EXCEPT !.log = s]
    BY <1>2 DEF Appended
  <2> HIDE DEF s
  <2>3. /\ Appended(d, e) \in Sessions /\ Appended(d, e).status = d.status
        /\ Appended(d, e).queue = d.queue /\ Appended(d, e).conf = d.conf /\ Appended(d, e).log = s
    BY <2>1, <2>2 DEF Sessions
  <2> QED
    BY <2>1, <2>3
<1> QED
  BY <1>1, <1>2

\* Only Assistant({}) may be left out.
LEMMA AppendedAlways ==
    ASSUME NEW d \in Sessions, NEW e \in Entries, e # Assistant({})
    PROVE  LET f == Appended(d, e) IN
           /\ f \in Sessions /\ f.status = d.status /\ f.queue = d.queue /\ f.conf = d.conf
           /\ Len(f.log) = Len(d.log) + 1 /\ f.log[Len(d.log) + 1] = e
           /\ \A i \in 1 .. Len(d.log) : f.log[i] = d.log[i]
BY AppendedFacts

LEMMA WithStatusFacts ==
    ASSUME NEW d \in Sessions, NEW s \in Statuses
    PROVE  LET f == WithStatus(d, s) IN
           f \in Sessions /\ f.status = s /\ f.queue = d.queue /\ f.conf = d.conf /\ f.log = d.log
BY DEF WithStatus, Sessions

\* The last message of the assistant.
LEMMA LastAskedFacts ==
    ASSUME NEW d \in Sessions
    PROVE  /\ LastAsked(d) \in 0 .. Len(d.log)
           /\ LastAsked(d) # 0 => d.log[LastAsked(d)].by = "assistant"
           /\ \A i \in LastAsked(d) + 1 .. Len(d.log) : d.log[i].by # "assistant"
<1> DEFINE S == {i \in DOMAIN d.log : d.log[i].by = "assistant"}
<1>1. Len(d.log) \in Nat /\ DOMAIN d.log = 1 .. Len(d.log) /\ S \subseteq 1 .. Len(d.log)
  BY LogFacts
<1>2. LastAsked(d) = IF S = {} THEN 0 ELSE Max(S)
  BY DEF LastAsked
<1>3. CASE S = {}
  BY <1>1, <1>2, <1>3
<1>4. CASE S # {}
  <2> DEFINE m == Max(S)
  <2>1. m \in S /\ \A y \in S : y <= m
    BY <1>1, <1>4, MaxFacts
  <2>2. LastAsked(d) = m
    BY <1>2, <1>4
  <2> HIDE DEF m
  <2>3. m \in 1 .. Len(d.log) /\ d.log[m].by = "assistant"
    BY <1>1, <2>1
  <2>4. \A i \in m + 1 .. Len(d.log) : i \in 1 .. Len(d.log) /\ ~(i <= m)
    BY <1>1, <2>3
  <2>5. \A i \in m + 1 .. Len(d.log) : d.log[i].by # "assistant"
    BY <1>1, <2>1, <2>4
  <2> QED
    BY <1>1, <2>2, <2>3, <2>5
<1> QED
  BY <1>3, <1>4

LEMMA LastAskedIs ==
    ASSUME NEW d \in Sessions, NEW k \in 1 .. Len(d.log), d.log[k].by = "assistant",
           \A i \in k + 1 .. Len(d.log) : d.log[i].by # "assistant"
    PROVE  LastAsked(d) = k
<1>1. /\ LastAsked(d) \in 0 .. Len(d.log) /\ Len(d.log) \in Nat
      /\ LastAsked(d) # 0 => d.log[LastAsked(d)].by = "assistant"
      /\ \A i \in LastAsked(d) + 1 .. Len(d.log) : d.log[i].by # "assistant"
  BY LastAskedFacts, LogFacts
<1> QED
  BY <1>1

\* What has not been answered of it.
LEMMA MissingFacts ==
    ASSUME NEW d \in Sessions, LastAsked(d) # 0
    PROVE  /\ Missing(d) \subseteq d.log[LastAsked(d)].asks /\ Missing(d) \subseteq Requests
           /\ \A r \in d.log[LastAsked(d)].asks :
                r \in Missing(d) <=> \A j \in LastAsked(d) + 1 .. Len(d.log) :
                    r \notin d.log[j].yes \cup d.log[j].no \cup d.log[j].results
<1>1. LastAsked(d) \in 1 .. Len(d.log)
  BY LastAskedFacts, LogFacts
<1>2. d.log[LastAsked(d)].asks \subseteq Requests
  BY <1>1, LogFacts
<1> QED
  BY <1>2 DEF Missing

\* The answers, when they are due, are one more entry.
Answer(d) ==
    LET of(s) == {r \in Missing(d) : d.conf[r] = s}
    IN Tool(of("approved"), of("denied"), of("cancelled"))

LEMMA AnswerFacts ==
    ASSUME NEW d \in Sessions
    PROVE  /\ WithAnswers(d) \in Sessions /\ WithAnswers(d).status = d.status
           /\ WithAnswers(d).queue = d.queue /\ WithAnswers(d).conf = d.conf
           /\ \/ WithAnswers(d) = d
              \/ /\ Ready(d) /\ LastAsked(d) # 0 /\ Answer(d) \in Entries
                 /\ WithAnswers(d) = Appended(d, Answer(d))
                 /\ Len(WithAnswers(d).log) = Len(d.log) + 1
                 /\ WithAnswers(d).log[Len(d.log) + 1] = Answer(d)
                 /\ \A i \in 1 .. Len(d.log) : WithAnswers(d).log[i] = d.log[i]
<1>1. CASE ~Ready(d) \/ Missing(d) = {}
  BY <1>1 DEF WithAnswers
<1>2. CASE ~(~Ready(d) \/ Missing(d) = {})
  <2>1. Ready(d) /\ LastAsked(d) # 0
    BY <1>2 DEF Ready
  <2>2. Missing(d) \subseteq Requests
    BY <2>1, MissingFacts
  <2>3. Answer(d) \in Entries
    BY <2>2, EntryTypes DEF Answer
  <2>4. Answer(d) # Assistant({})
    <3>1. Answer(d).by = "tool" /\ Assistant({}).by = "assistant"
      BY EntryFacts DEF Answer
    <3> QED
      BY <3>1
  <2>5. WithAnswers(d) = Appended(d, Answer(d))
    BY <1>2 DEF WithAnswers, Answer
  <2> QED
    BY <2>1, <2>3, <2>4, <2>5, AppendedAlways
<1> QED
  BY <1>1, <1>2

\* cancelPendingConfirmations, after its first n rows.
CancelledTo(d, n) ==
    [d EXCEPT !.conf = [r \in Requests |-> IF r \in Pending(d) /\ r <= n THEN "cancelled" ELSE @[r]]]

LEMMA CancelledFacts ==
    ASSUME NEW d \in Sessions
    PROVE  /\ Cancelled(d) \in Sessions /\ Cancelled(d).status = d.status
           /\ Cancelled(d).queue = d.queue /\ Cancelled(d).log = d.log
           /\ \A r \in Requests : Cancelled(d).conf[r] = IF d.conf[r] = "pending" THEN "cancelled" ELSE d.conf[r]
           /\ \A n : /\ CancelledTo(d, n) \in Sessions /\ CancelledTo(d, n).status = d.status
                     /\ CancelledTo(d, n).queue = d.queue /\ CancelledTo(d, n).log = d.log
                     /\ \A r \in Requests :
                          \/ CancelledTo(d, n).conf[r] = d.conf[r]
                          \/ CancelledTo(d, n).conf[r] = "cancelled" /\ d.conf[r] = "pending"
BY DEF Cancelled, CancelledTo, Sessions, Decisions, Pending

-----------------------------------------------------------------------------
(* What a step comes to: the process dies at one of the rows, or the last  *)
(* one is reached and the run goes on as r.                                *)

Died(w) ==
    /\ restarts < MaxRestarts /\ restarts' = restarts + 1 /\ proc' = "down"
    /\ runs' = [x \in Places |-> NoRun] /\ slips' = slips \cup Damage(w, db')

Goes(w, r, slip) ==
    /\ restarts' = restarts /\ runs' = [runs EXCEPT ![w] = r] /\ slips' = slips \cup slip
    /\ proc' = IF proc = "stopping" /\ w = "active" /\ r = NoRun THEN "stopped" ELSE proc

LEMMA DoesFacts ==
    ASSUME TypeInv, NEW S, NEW ds \in Seq(S), NEW w, NEW r, NEW slip, Does(w, ds, r, slip)
    PROVE  /\ db' \in S
           /\ \/ Died(w) /\ db' # db /\ db' # ds[Len(ds)]
              \/ db' = ds[Len(ds)] /\ Goes(w, r, slip)
<1>1. Len(ds) \in Nat /\ DOMAIN ds = 1 .. Len(ds)
  BY LenProperties
<1>2. PICK i \in 1 .. Len(ds) :
        LET dies == i < Len(ds) IN
        /\ dies => CanStop /\ ds[i] # db /\ ds[i] # Last(ds)
        /\ db' = ds[i]
        /\ runs' = IF dies THEN [x \in DOMAIN runs |-> NoRun] ELSE [runs EXCEPT ![w] = r]
        /\ proc' = IF dies THEN "down"
                   ELSE IF proc = "stopping" /\ w = "active" /\ r = NoRun THEN "stopped" ELSE proc
        /\ restarts' = IF dies THEN restarts + 1 ELSE restarts
        /\ slips' = slips \cup IF dies THEN Damage(w, ds[i]) ELSE slip
  BY <1>1 DEF Does
<1>3. db' \in S
  BY <1>2, ElementOfSeq
<1>4. CASE i < Len(ds)
  <2>1. DOMAIN runs = Places
    BY DEF TypeInv
  <2> QED
    BY <1>2, <1>3, <1>4, <2>1 DEF Died, CanStop, Last
<1>5. CASE ~(i < Len(ds))
  <2>1. i = Len(ds)
    BY <1>1, <1>2, <1>5
  <2> QED
    BY <1>2, <1>3, <1>5, <2>1 DEF Goes
<1> QED
  BY <1>4, <1>5

LEMMA DoesOne ==
    ASSUME TypeInv, NEW w, NEW r, NEW slip, Does(w, <<db>>, r, slip)
    PROVE  db' = db /\ Goes(w, r, slip)
<1>1. <<db>> \in Seq({db}) /\ <<db>>[Len(<<db>>)] = db
  OBVIOUS
<1>2. db' \in {db} /\ ((Died(w) /\ db' # db) \/ (db' = db /\ Goes(w, r, slip)))
  BY <1>1, DoesFacts, Zenon
<1> QED
  BY <1>2

LEMMA DoesTwo ==
    ASSUME TypeInv, NEW w, NEW d, NEW r, NEW slip, Does(w, <<db, d>>, r, slip)
    PROVE  db' = d /\ (Goes(w, r, slip) \/ Died(w))
<1>1. <<db, d>> \in Seq({db, d}) /\ <<db, d>>[Len(<<db, d>>)] = d
  OBVIOUS
<1>2. db' \in {db, d} /\ ((Died(w) /\ db' # db) \/ (db' = d /\ Goes(w, r, slip)))
  BY <1>1, DoesFacts, Zenon
<1> QED
  BY <1>2

LEMMA DoesThree ==
    ASSUME TypeInv, NEW w, NEW d, NEW e, NEW r, NEW slip, Does(w, <<db, d, e>>, r, slip)
    PROVE  \/ Died(w) /\ db' \in {d, e} /\ db' # e
           \/ Goes(w, r, slip) /\ db' = e
<1>1. <<db, d, e>> \in Seq({db, d, e}) /\ <<db, d, e>>[Len(<<db, d, e>>)] = e
  OBVIOUS
<1>2. db' \in {db, d, e} /\ ((Died(w) /\ db' # db /\ db' # e) \/ (db' = e /\ Goes(w, r, slip)))
  BY <1>1, DoesFacts, Zenon
<1> QED
  BY <1>2

LEMMA DoesFour ==
    ASSUME TypeInv, NEW w, NEW d, NEW e, NEW f, NEW r, NEW slip, Does(w, <<db, d, e, f>>, r, slip)
    PROVE  \/ Died(w) /\ db' \in {d, e, f}
           \/ Goes(w, r, slip) /\ db' = f
<1>1. <<db, d, e, f>> \in Seq({db, d, e, f}) /\ <<db, d, e, f>>[Len(<<db, d, e, f>>)] = f
  OBVIOUS
<1>2. db' \in {db, d, e, f} /\ ((Died(w) /\ db' # db) \/ (db' = f /\ Goes(w, r, slip)))
  BY <1>1, DoesFacts, Zenon
<1> QED
  BY <1>2

\* n >= 1 rows between db and the one that is reached.
LEMMA DoesMany ==
    ASSUME TypeInv, NEW S, NEW n \in Nat, NEW f, f \in Seq(S), NEW w, NEW r, NEW slip,
           Does(w, <<db>> \o f, r, slip), f # << >>
    PROVE  \/ Died(w) /\ db' \in S
           \/ Goes(w, r, slip) /\ db' = f[Len(f)]
<1> DEFINE ds == <<db>> \o f
           T == S \cup {db}
<1>1. <<db>> \in Seq(T) /\ f \in Seq(T) /\ Len(<<db>>) = 1
  <2>1. S \subseteq T
    OBVIOUS
  <2> HIDE DEF T
  <2>2. f \in Seq(T)
    BY <2>1
  <2> QED
    BY <2>2 DEF T
<1>2. Len(f) \in Nat \ {0}
  BY EmptySeq
<1> HIDE DEF T
<1>3. /\ ds \in Seq(T) /\ Len(ds) = 1 + Len(f)
      /\ \A i \in 1 .. 1 + Len(f) : ds[i] = IF i <= 1 THEN <<db>>[i] ELSE f[i - 1]
  <2>1. /\ <<db>> \o f \in Seq(T) /\ Len(<<db>> \o f) = Len(<<db>>) + Len(f)
        /\ \A i \in 1 .. Len(<<db>>) + Len(f) :
             (<<db>> \o f)[i] = IF i <= Len(<<db>>) THEN <<db>>[i] ELSE f[i - Len(<<db>>)]
    BY <1>1, ConcatProperties, Zenon
  <2> QED
    BY <1>1, <2>1
<1>4. ds[Len(ds)] = f[Len(f)]
  <2>1. 1 + Len(f) \in 1 .. 1 + Len(f) /\ ~(1 + Len(f) <= 1) /\ 1 + Len(f) - 1 = Len(f)
    BY <1>2
  <2> HIDE DEF ds
  <2> QED
    BY <1>3, <2>1
<1> HIDE DEF ds
<1>5. Does(w, ds, r, slip)
  BY DEF ds
<1>6. db' \in T /\ ((Died(w) /\ db' # db) \/ (db' = ds[Len(ds)] /\ Goes(w, r, slip)))
  BY <1>3, <1>5, DoesFacts
<1> QED
  BY <1>4, <1>6 DEF T

-----------------------------------------------------------------------------
(* The rows of each step *)

\* Typed runs.
LEMMA RunTypes ==
    /\ NoRun \in Runs /\ Ending \in Runs /\ Started \in Runs /\ NoRun # Ending /\ NoRun # Started
    /\ NoRun.at = "none" /\ Ending.at = "ending" /\ Started.at = "acquiring"
    /\ NoRun.stop = "none" /\ Ending.stop = "none" /\ Started.stop = "none"
    /\ NoRun.asks = {} /\ Ending.asks = {} /\ Started.asks = {}
    /\ NoRun.owes = {} /\ Ending.owes = {} /\ Started.owes = {}
<1>1. 0 \in 0 .. MaxRetries
  BY AgentAssumption
<1> QED
  BY <1>1 DEF NoRun, Ending, Started, Runs

LEMMA SlipTypes ==
    ASSUME NEW d, NEW w, NEW r, NEW text
    PROVE  /\ Damage(w, d) \subseteq {"torn", "cut"} /\ Buries(d) \subseteq {"cut"}
           /\ TextBuries(text) \subseteq {"cut"} /\ Dropped(r) \subseteq {"cut"}
BY DEF Damage, Buries, TextBuries, Dropped

LEMMA TruncatedFacts ==
    ASSUME TypeInv, NEW text
    PROVE  /\ Truncated(text) \in Sessions /\ Truncated(text).status = db.status
           /\ Truncated(text).queue = db.queue /\ Truncated(text).conf = db.conf
           /\ \/ Truncated(text) = db
              \/ text /\ Truncated(text) = Appended(db, Assistant({}))
<1>1. Assistant({}) \in Entries /\ db \in Sessions
  BY EntryTypes DEF TypeInv
<1> QED
  BY <1>1, AppendedFacts DEF Truncated

LEMMA FinishDoes ==
    ASSUME TypeInv, NEW w, NEW status, Finish(w, status)
    PROVE  /\ UNCHANGED <<said, withdrawn, late>>
           /\ \E text \in Texts(runs[w]) :
                \/ Died(w) /\ db' \in {Truncated(text), WithStatus(Truncated(text), status)}
                \/ /\ Goes(w, Ending, TextBuries(text) \cup Dropped(runs[w]))
                   /\ db' = WithStatus(Truncated(text), status)
<1>1. PICK text \in Texts(runs[w]) :
        OfRuns(w, <<db, Truncated(text), WithStatus(Truncated(text), status)>>, Ending,
               TextBuries(text) \cup Dropped(runs[w]))
  BY DEF Finish
<1> QED
  BY <1>1, DoesThree DEF OfRuns

LEMMA FinishIdleDoes ==
    ASSUME TypeInv, NEW w, FinishIdle(w)
    PROVE  /\ UNCHANGED <<said, withdrawn, late>>
           /\ db' = WithStatus(db, "idle") /\ (Goes(w, Ending, {}) \/ Died(w))
BY DoesTwo DEF FinishIdle, OfRuns

\* A confirmation for each request of the run up to the n-th.
AsksTo(r, n) ==
    [db EXCEPT !.conf = [q \in Requests |-> IF q \in r.asks /\ q <= n THEN "pending" ELSE @[q]]]

LEMMA AsksToFacts ==
    ASSUME TypeInv, NEW r, NEW n
    PROVE  /\ AsksTo(r, n) \in Sessions /\ AsksTo(r, n).status = db.status
           /\ AsksTo(r, n).queue = db.queue /\ AsksTo(r, n).log = db.log
           /\ \A q \in Requests : AsksTo(r, n).conf[q] = IF q \in r.asks /\ q <= n THEN "pending" ELSE db.conf[q]
BY DEF TypeInv, AsksTo, Sessions, Decisions

LEMMA FinishWaitingDoes ==
    ASSUME TypeInv, NEW w, FinishWaitingConfirmation(w)
    PROVE  LET end == WithStatus(AsksTo(runs[w], MaxRequests), "waiting") IN
           /\ UNCHANGED <<said, withdrawn, late>>
           /\ \/ Died(w) /\ (db' = end \/ \E n \in 0 .. MaxRequests : db' = AsksTo(runs[w], n))
              \/ Goes(w, Ending, {}) /\ db' = end
<1>1. PICK k \in Nat : k = MaxRequests
  BY AgentAssumption
<1> DEFINE r == runs[w]
           rows == [n \in 1 .. k + 1 |-> AsksTo(r, n - 1)]
           end == WithStatus(AsksTo(r, k), "waiting")
           S == {AsksTo(r, n) : n \in 0 .. k} \cup {end}
           ds == Append(rows, end)
<1>2. rows \in Seq(S) /\ Len(rows) = k + 1 /\ rows[k + 1] = AsksTo(r, k)
  <2>1. \A n \in 1 .. k + 1 : n - 1 \in 0 .. k
    BY <1>1
  <2>2. rows[k + 1] = AsksTo(r, k)
    <3>1. k + 1 \in 1 .. k + 1 /\ k + 1 - 1 = k
      BY <1>1
    <3> QED
      BY <3>1
  <2>3. rows \in [1 .. k + 1 -> S]
    BY <2>1
  <2>4. k + 1 \in Nat
    BY <1>1
  <2> HIDE DEF rows, S
  <2> QED
    BY <2>2, <2>3, <2>4
<1>3. FinishWaitingConfirmation(w) = OfRuns(w, Append(rows, WithStatus(Last(rows), "waiting")), Ending, {})
  BY <1>1 DEF FinishWaitingConfirmation, AsksTo
<1>4. Last(rows) = AsksTo(r, k)
  BY <1>2 DEF Last
<1> HIDE DEF rows
<1>5. Does(w, ds, Ending, {}) /\ UNCHANGED <<said, withdrawn, late>>
  BY <1>3, <1>4 DEF OfRuns
<1>6. ds \in Seq(S) /\ ds[Len(ds)] = end
  <2>1. end \in S
    OBVIOUS
  <2> HIDE DEF S, end
  <2> QED
    BY <1>1, <1>2, <2>1, AppendProperties
<1> HIDE DEF ds
<1>7. db' \in S /\ (Died(w) \/ (db' = ds[Len(ds)] /\ Goes(w, Ending, {})))
  BY <1>5, <1>6, DoesFacts, Zenon
<1> QED
  BY <1>1, <1>5, <1>6, <1>7

\* The queue is emptied, and its first n messages are in the conversation.
DrainedTo(n) == [db EXCEPT !.queue = <<>>, !.log = @ \o [i \in 1 .. n |-> User(db.queue[i])]]

LEMMA DrainedFacts ==
    ASSUME TypeInv, NEW n \in 0 .. Len(db.queue)
    PROVE  LET f == DrainedTo(n) IN
           /\ f \in Sessions /\ f.status = db.status /\ f.queue = << >> /\ f.conf = db.conf
           /\ Len(f.log) = Len(db.log) + n
           /\ \A i \in 1 .. Len(db.log) : f.log[i] = db.log[i]
           /\ \A i \in 1 .. n : f.log[Len(db.log) + i] = User(db.queue[i])
<1> DEFINE more == [i \in 1 .. n |-> User(db.queue[i])]
           s == db.log \o more
<1>1. /\ db \in Sessions /\ db.log \in Seq(Entries) /\ Len(db.log) \in Nat /\ n \in Nat
      /\ \A i \in 1 .. n : db.queue[i] \in Messages
  BY LogFacts DEF TypeInv
<1>2. more \in [1 .. n -> Entries]
  BY <1>1, EntryTypes
<1>3. more \in Seq(Entries) /\ Len(more) = n /\ \A i \in 1 .. n : more[i] = User(db.queue[i])
  <2>1. \A i \in 1 .. n : more[i] = User(db.queue[i])
    OBVIOUS
  <2> HIDE DEF more
  <2> QED
    BY <1>1, <1>2, <2>1
<1> HIDE DEF more
<1>4. /\ s \in Seq(Entries) /\ Len(s) = Len(db.log) + n
      /\ \A i \in 1 .. Len(db.log) + n : s[i] = IF i <= Len(db.log) THEN db.log[i] ELSE more[i - Len(db.log)]
  <2>1. /\ db.log \o more \in Seq(Entries) /\ Len(db.log \o more) = Len(db.log) + Len(more)
        /\ \A i \in 1 .. Len(db.log) + Len(more) :
             (db.log \o more)[i] = IF i <= Len(db.log) THEN db.log[i] ELSE more[i - Len(db.log)]
    BY <1>1, <1>3, ConcatProperties, Zenon
  <2> QED
    BY <1>3, <2>1
<1> HIDE DEF s
<1>5. \A i \in 1 .. Len(db.log) : s[i] = db.log[i]
  BY <1>1, <1>4
<1>6. \A i \in 1 .. n : s[Len(db.log) + i] = User(db.queue[i])
  <2> SUFFICES ASSUME NEW i \in 1 .. n PROVE s[Len(db.log) + i] = User(db.queue[i])
    OBVIOUS
  <2> DEFINE j == Len(db.log) + i
  <2>1. j \in 1 .. Len(db.log) + n /\ ~(j <= Len(db.log)) /\ j - Len(db.log) = i
    BY <1>1
  <2> HIDE DEF j
  <2>2. s[j] = IF j <= Len(db.log) THEN db.log[j] ELSE more[j - Len(db.log)]
    BY <1>4, <2>1, Zenon
  <2>3. s[j] = more[i]
    BY <2>1, <2>2, Zenon
  <2> QED
    BY <1>3, <2>3 DEF j
<1>7. DrainedTo(n) = [db EXCEPT !.queue = << >>, !.log = s]
  BY DEF DrainedTo, s, more
<1>8. /\ DrainedTo(n) \in Sessions /\ DrainedTo(n).status = db.status /\ DrainedTo(n).queue = << >>
      /\ DrainedTo(n).conf = db.conf /\ DrainedTo(n).log = s
  <2>1. db \in Sessions /\ s \in Seq(Entries) /\ << >> \in Seq(Messages)
    BY <1>1, <1>4
  <2> QED
    BY <1>7, <2>1 DEF Sessions
<1> QED
  BY <1>4, <1>5, <1>6, <1>8

LEMMA DrainDoes ==
    ASSUME TypeInv, NEW w, Drain(w)
    PROVE  LET end == DrainedTo(Len(db.queue)) IN
           /\ UNCHANGED <<said, withdrawn, late>>
           /\ \/ Died(w) /\ \E n \in 0 .. Len(db.queue) : db' = DrainedTo(n)
              \/ /\ Goes(w, Called(end, NextRound(runs[w])),
                         Dropped(runs[w]) \cup (IF db.queue # <<>> THEN Buries(db) ELSE {}))
                 /\ db' = end
<1> DEFINE k == Len(db.queue)
           rows == [n \in 1 .. k + 1 |-> DrainedTo(n - 1)]
           S == {DrainedTo(n) : n \in 0 .. k}
           slip == Dropped(runs[w]) \cup (IF db.queue # <<>> THEN Buries(db) ELSE {})
           run == Called(DrainedTo(k), NextRound(runs[w]))
<1>1. k \in Nat
  BY LogFacts DEF TypeInv
<1>2. rows \in Seq(S) /\ Len(rows) = k + 1 /\ rows[k + 1] = DrainedTo(k)
  <2>1. \A n \in 1 .. k + 1 : n - 1 \in 0 .. k
    BY <1>1
  <2>2. rows[k + 1] = DrainedTo(k)
    <3>1. k + 1 \in 1 .. k + 1 /\ k + 1 - 1 = k
      BY <1>1
    <3> QED
      BY <3>1
  <2>3. rows \in [1 .. k + 1 -> S]
    BY <2>1
  <2>4. k + 1 \in Nat
    BY <1>1
  <2> HIDE DEF rows, S, k
  <2> QED
    BY <2>2, <2>3, <2>4
<1>3. Drain(w) = OfRuns(w, <<db>> \o rows, Called(Last(rows), NextRound(runs[w])), slip)
  BY DEF Drain, DrainedTo
<1>4. Last(rows) = DrainedTo(k)
  BY <1>2 DEF Last
<1> HIDE DEF rows, slip, run, k
<1>5. Does(w, <<db>> \o rows, run, slip) /\ UNCHANGED <<said, withdrawn, late>>
  BY <1>3, <1>4 DEF OfRuns, run
<1>6. rows # << >> /\ rows[Len(rows)] = DrainedTo(k)
  BY <1>1, <1>2, EmptySeq
<1> HIDE DEF S
<1>7. \/ Died(w) /\ db' \in S
      \/ Goes(w, run, slip) /\ db' = DrainedTo(k)
  BY <1>1, <1>2, <1>5, <1>6, DoesMany
<1> QED
  BY <1>5, <1>7 DEF S, run, slip, k

\* The rows of a step's end: the results of the calls it ran, and its own entry.
RanRow(w) == IF runs[w].owes = {} THEN db ELSE Appended(db, Tool({}, {}, runs[w].owes))
Fresh(n)  == Cardinality(AskedBefore) + 1 .. Cardinality(AskedBefore) + n
StepRow(w, n) == Appended(RanRow(w), Assistant(Fresh(n)))
StepRun(w, n) ==
    LET r == runs[w] IN
    [r EXCEPT !.asks = Fresh(n), !.owes = {}, !.left = (Fresh(n) = {}),
              !.steer = @ \/ Boundary(r), !.aborted = Boundary(r)]

LEMMA OwedFacts ==
    ASSUME NEW d \in Sessions
    PROVE  /\ Owed(d) \subseteq Requests
           /\ d.log # << >> => Len(d.log) \in 1 .. Len(d.log) /\ Owed(d) = d.log[Len(d.log)].yes \cup d.log[Len(d.log)].no
           /\ d.log = << >> => Owed(d) = {}
<1>1. CASE d.log = << >>
  BY <1>1 DEF Owed
<1>2. CASE d.log # << >>
  <2>1. Len(d.log) \in 1 .. Len(d.log)
    BY <1>2, LogFacts
  <2>2. d.log[Len(d.log)].yes \subseteq Requests /\ d.log[Len(d.log)].no \subseteq Requests
    BY <2>1, LogFacts
  <2>3. Owed(d) = d.log[Len(d.log)].yes \cup d.log[Len(d.log)].no
    BY <1>2 DEF Owed, Last
  <2> QED
    BY <1>2, <2>1, <2>2, <2>3
<1> QED
  BY <1>1, <1>2

LEMMA RunField ==
    ASSUME TypeInv, NEW w \in Places
    PROVE  /\ runs[w] \in Runs
           /\ runs[w].at \in {"none", "acquiring", "preparing", "streaming", "retrying", "titling", "ending"}
           /\ runs[w].stop \in {"none", "manual", "shutdown"} /\ runs[w].steer \in BOOLEAN
           /\ runs[w].aborted \in BOOLEAN /\ runs[w].fatal \in BOOLEAN /\ runs[w].stalled \in BOOLEAN
           /\ runs[w].left \in BOOLEAN
           /\ runs[w].attempt \in 0 .. MaxRetries
           /\ runs[w].owes \subseteq Requests /\ runs[w].asks \subseteq Requests
<1>1. runs[w] \in Runs
  BY DEF TypeInv
<1> QED
  BY <1>1 DEF Runs

\* The requests a step may make.
LEMMA FreshFacts ==
    ASSUME TypeInv
    PROVE  /\ Cardinality(AskedBefore) \in 0 .. MaxRequests /\ AskedBefore \subseteq Requests
           /\ \A n \in 0 .. MaxRequests - Cardinality(AskedBefore) : Fresh(n) \in SUBSET Requests
<1>1. db \in Sessions /\ DOMAIN db.log = 1 .. Len(db.log)
  BY LogFacts DEF TypeInv
<1>2. AskedBefore \subseteq Requests
  BY <1>1, LogFacts DEF AskedBefore
<1>3. MaxRequests \in Nat
  BY AgentAssumption
<1>4. 1 \in Int /\ MaxRequests \in Int
  BY <1>3
<1>5. IsFiniteSet(1 .. MaxRequests) /\ Cardinality(1 .. MaxRequests) = IF 1 > MaxRequests THEN 0 ELSE MaxRequests - 1 + 1
  BY <1>4, FS_Interval
<1>6. Cardinality(1 .. MaxRequests) = MaxRequests
  BY <1>3, <1>5
<1>7. Cardinality(AskedBefore) \in Nat /\ Cardinality(AskedBefore) <= MaxRequests
  BY <1>2, <1>5, <1>6, FS_Subset, FS_CardinalityType, ZenonT(30) DEF Requests
<1> DEFINE k == Cardinality(AskedBefore)
<1>8. k \in 0 .. MaxRequests
  BY <1>3, <1>7
<1> HIDE DEF k
<1>9. \A n \in 0 .. MaxRequests - k : k + 1 .. k + n \subseteq 1 .. MaxRequests
  BY <1>3, <1>8
<1> QED
  BY <1>2, <1>8, <1>9 DEF k, Fresh, Requests

LEMMA RanFacts ==
    ASSUME TypeInv, NEW w \in Places
    PROVE  /\ RanRow(w) \in Sessions /\ RanRow(w).status = db.status
           /\ RanRow(w).queue = db.queue /\ RanRow(w).conf = db.conf
           /\ \/ RanRow(w) = db /\ runs[w].owes = {}
              \/ /\ runs[w].owes # {}
                 /\ Len(RanRow(w).log) = Len(db.log) + 1
                 /\ RanRow(w).log[Len(db.log) + 1] = Tool({}, {}, runs[w].owes)
                 /\ \A i \in 1 .. Len(db.log) : RanRow(w).log[i] = db.log[i]
<1>1. db \in Sessions
  BY DEF TypeInv
<1>2. CASE runs[w].owes = {}
  BY <1>1, <1>2 DEF RanRow
<1>3. CASE runs[w].owes # {}
  <2>1. Tool({}, {}, runs[w].owes) \in Entries
    BY RunField, EntryTypes
  <2>2. Tool({}, {}, runs[w].owes) # Assistant({})
    <3>1. Tool({}, {}, runs[w].owes).by = "tool" /\ Assistant({}).by = "assistant"
      BY EntryFacts
    <3> QED
      BY <3>1
  <2>3. RanRow(w) = Appended(db, Tool({}, {}, runs[w].owes))
    BY <1>3 DEF RanRow
  <2> QED
    BY <1>1, <1>3, <2>1, <2>2, <2>3, AppendedAlways
<1> QED
  BY <1>2, <1>3

LEMMA StepRowFacts ==
    ASSUME TypeInv, NEW w \in Places, NEW n \in 0 .. MaxRequests - Cardinality(AskedBefore)
    PROVE  /\ StepRow(w, n) \in Sessions /\ StepRow(w, n).status = db.status
           /\ StepRow(w, n).queue = db.queue /\ StepRow(w, n).conf = db.conf
           /\ \/ StepRow(w, n) = RanRow(w) /\ Assistant(Fresh(n)) = Assistant({})
              \/ /\ Len(StepRow(w, n).log) = Len(RanRow(w).log) + 1
                 /\ StepRow(w, n).log[Len(RanRow(w).log) + 1] = Assistant(Fresh(n))
                 /\ \A i \in 1 .. Len(RanRow(w).log) : StepRow(w, n).log[i] = RanRow(w).log[i]
           /\ StepRun(w, n) \in Runs
<1>1. Assistant(Fresh(n)) \in Entries /\ Fresh(n) \in SUBSET Requests
  BY FreshFacts, EntryTypes
<1>2. RanRow(w) \in Sessions /\ RanRow(w).status = db.status /\ RanRow(w).queue = db.queue /\ RanRow(w).conf = db.conf
  BY RanFacts
<1>3. StepRun(w, n) \in Runs
  <2>1. runs[w] \in Runs
    BY RunField
  <2>2. (Fresh(n) = {}) \in BOOLEAN /\ (runs[w].steer \/ Boundary(runs[w])) \in BOOLEAN /\ Boundary(runs[w]) \in BOOLEAN
    BY DEF Boundary
  <2> QED
    BY <1>1, <2>1, <2>2, ZenonT(60) DEF StepRun, Runs
<1> QED
  BY <1>1, <1>2, <1>3, AppendedFacts DEF StepRow

LEMMA StepEndsDoes ==
    ASSUME TypeInv, NEW w \in Places, StepEnds(w)
    PROVE  /\ runs[w].at = "streaming" /\ runs[w].stop = "none" /\ runs[w].asks = {}
           /\ UNCHANGED <<said, withdrawn, late>>
           /\ \E n \in 0 .. MaxRequests - Cardinality(AskedBefore) :
                \/ Died(w) /\ db' \in {RanRow(w), StepRow(w, n)} /\ db' # StepRow(w, n)
                \/ Goes(w, StepRun(w, n), {}) /\ db' = StepRow(w, n)
<1>1. PICK n \in 0 .. MaxRequests - Cardinality(AskedBefore) :
        OfRuns(w, <<db, RanRow(w), StepRow(w, n)>>, StepRun(w, n), {})
  BY DEF StepEnds, RanRow, StepRow, StepRun, Fresh
<1>2. \/ Died(w) /\ db' \in {RanRow(w), StepRow(w, n)} /\ db' # StepRow(w, n)
      \/ Goes(w, StepRun(w, n), {}) /\ db' = StepRow(w, n)
  BY <1>1, DoesThree DEF OfRuns
<1> QED
  BY <1>1, <1>2 DEF StepEnds, OfRuns

-----------------------------------------------------------------------------
(* The steps of a run, by what they leave behind *)

\* The rows stay, and the run goes on or leaves.
Quiet(w) ==
    /\ db' = db
    /\ \E r \in Runs, slip \in SUBSET {"cut"} :
         /\ Goes(w, r, slip)
         /\ \/ r = NoRun /\ runs[w].at = "ending"
            \/ /\ runs[w].at \in {"acquiring", "preparing", "streaming", "retrying"}
               /\ r.at \in {"preparing", "streaming", "retrying", "titling"}
               /\ r.stop = runs[w].stop
               /\ r.asks # {} => r.at = "streaming" /\ r.asks = runs[w].asks
               /\ r.at = "titling" => db.queue = << >>
               /\ r.owes = {} \/ r.owes = runs[w].owes \/ r.owes = Owed(db)
               /\ r.at \in {"preparing", "streaming"} =>
                    \/ r.at = "preparing" /\ r.owes = Owed(db)
                    \/ runs[w].at \in {"preparing", "streaming"} /\ r.owes = runs[w].owes
               /\ runs[w].at = "streaming" /\ runs[w].asks # {} => r.asks = runs[w].asks \/ "cut" \in slip

Fails(w) ==
    /\ runs[w].at \in {"acquiring", "preparing", "streaming", "retrying"}
    /\ Finish(w, "error") \/ Finish(w, AbortedStatus(runs[w]))

GoesIdle(w) == FinishIdle(w) /\ (runs[w].at = "titling" \/ (runs[w].at = "streaming" /\ db.queue = << >> /\ runs[w].stop = "none" /\ runs[w].asks = {}))
Asks(w)     == FinishWaitingConfirmation(w) /\ runs[w].at = "streaming" /\ runs[w].stop = "none" /\ runs[w].asks # {}
Hears(w)    == Drain(w) /\ runs[w].at = "streaming" /\ runs[w].stop = "none"

LEMMA CalledTypes ==
    ASSUME TypeInv, NEW w \in Places, NEW d \in Sessions
    PROVE  /\ Called(d, runs[w]) \in Runs /\ Called(d, NextRound(runs[w])) \in Runs
           /\ Called(d, runs[w]).at = "preparing" /\ Called(d, NextRound(runs[w])).at = "preparing"
           /\ Called(d, runs[w]).stop = "none" /\ Called(d, NextRound(runs[w])).stop = "none"
           /\ Called(d, runs[w]).asks = {} /\ Called(d, NextRound(runs[w])).asks = {}
           /\ Called(d, runs[w]).owes = Owed(d) /\ Called(d, NextRound(runs[w])).owes = Owed(d)
<1>1. Owed(d) \in SUBSET Requests
  BY OwedFacts
<1>2. 0 \in 0 .. MaxRetries
  BY AgentAssumption
<1> QED
  BY <1>1, <1>2, RunField DEF Called, NextRound, NoRun, Runs

LEMMA LoopTopCases ==
    ASSUME TypeInv, NEW w \in Places, LoopTop(w), runs[w].at \in {"acquiring", "retrying"}
    PROVE  Quiet(w) \/ Fails(w)
<1>1. CASE runs[w].stop # "none" /\ FinishAborted(w)
  BY <1>1 DEF FinishAborted, Fails
<1>2. CASE runs[w].stop = "none" /\ OfRuns(w, <<db>>, Called(db, runs[w]), {})
  <2>1. db' = db /\ Goes(w, Called(db, runs[w]), {})
    BY <1>2, DoesOne DEF OfRuns
  <2>2. db \in Sessions
    BY DEF TypeInv
  <2> DEFINE r == Called(db, runs[w])
  <2>3. r \in Runs /\ r.at = "preparing" /\ r.stop = "none" /\ r.asks = {} /\ r.owes = Owed(db)
    BY <2>2, CalledTypes
  <2> HIDE DEF r
  <2>4. db' = db /\ Goes(w, r, {}) /\ {} \in SUBSET {"cut"}
    BY <2>1 DEF r
  <2> QED
    BY <1>2, <2>3, <2>4 DEF Quiet
<1> QED
  BY <1>1, <1>2 DEF LoopTop

LEMMA RetriesCases ==
    ASSUME TypeInv, NEW w \in Places, Retries(w), runs[w].at \in {"preparing", "streaming"}, runs[w].stop = "none"
    PROVE  Quiet(w) \/ Fails(w)
<1>1. CASE FinishError(w)
  BY <1>1 DEF FinishError, Fails
<1>2. CASE ~FinishError(w)
  <2> DEFINE r == Again(runs[w])
  <2>1. runs[w].attempt < MaxRetries /\ OfRuns(w, <<db>>, r, Dropped(runs[w]))
    BY <1>2 DEF Retries
  <2>2. db' = db /\ Goes(w, r, Dropped(runs[w]))
    BY <2>1, DoesOne DEF OfRuns
  <2>3. runs[w].attempt + 1 \in 0 .. MaxRetries
    BY <2>1, RunField, AgentAssumption
  <2>4. r \in Runs /\ r.at = "retrying" /\ r.stop = "none" /\ r.asks = {} /\ r.owes = {}
    BY <2>3, RunField DEF Again, NoRun, Runs
  <2>5. Dropped(runs[w]) \in SUBSET {"cut"} /\ (runs[w].asks # {} => "cut" \in Dropped(runs[w]))
    BY SlipTypes DEF Dropped
  <2> HIDE DEF r
  <2> QED
    BY <2>2, <2>4, <2>5 DEF Quiet
<1> QED
  BY <1>1, <1>2

LEMMA PreparesCases ==
    ASSUME TypeInv, NEW w \in Places, Prepares(w)
    PROVE  Quiet(w) \/ Fails(w)
<1>1. runs[w].at = "preparing"
  BY DEF Prepares
<1>2. CASE OfRuns(w, <<db>>, [runs[w] EXCEPT !.at = "streaming", !.left = TRUE], {})
  <2> DEFINE r == [runs[w] EXCEPT !.at = "streaming", !.left = TRUE]
  <2>1. db' = db /\ Goes(w, r, {})
    BY <1>2, DoesOne DEF OfRuns
  <2>2. r \in Runs /\ r.at = "streaming" /\ r.stop = runs[w].stop /\ r.asks = runs[w].asks /\ r.owes = runs[w].owes
    BY RunField DEF Runs
  <2>3. {} \in SUBSET {"cut"}
    OBVIOUS
  <2> HIDE DEF r
  <2> QED
    BY <1>1, <2>1, <2>2, <2>3 DEF Quiet
<1>3. CASE Interrupts(runs[w]) /\ FinishAborted(w)
  BY <1>1, <1>3 DEF FinishAborted, Fails
<1>4. CASE ~Interrupts(runs[w]) /\ Retries(w)
  BY <1>1, <1>4, RetriesCases DEF Interrupts
<1> QED
  BY <1>2, <1>3, <1>4 DEF Prepares

LEMMA AbortsCases ==
    ASSUME TypeInv, NEW w \in Places, Aborts(w)
    PROVE  Quiet(w) /\ UNCHANGED <<said, withdrawn, late>>
<1>1. PICK r \in {[runs[w] EXCEPT !.stalled = TRUE, !.aborted = TRUE], [runs[w] EXCEPT !.fatal = TRUE, !.aborted = TRUE]} :
        OfRuns(w, <<db>>, r, {})
  BY DEF Aborts
<1>2. db' = db /\ Goes(w, r, {})
  BY <1>1, DoesOne DEF OfRuns
<1>3. r \in Runs /\ r.at = runs[w].at /\ r.stop = runs[w].stop /\ r.asks = runs[w].asks /\ r.owes = runs[w].owes
  BY RunField DEF Runs
<1>4. runs[w].at = "streaming" /\ {} \in SUBSET {"cut"}
  BY DEF Aborts
<1> QED
  BY <1>1, <1>2, <1>3, <1>4 DEF Quiet, OfRuns

LEMMA StreamEndsCases ==
    ASSUME TypeInv, NEW w \in Places, StreamEnds(w)
    PROVE  Quiet(w) \/ Fails(w) \/ GoesIdle(w) \/ Asks(w) \/ Hears(w)
<1>1. runs[w].at = "streaming"
  BY DEF StreamEnds
<1>2. CASE FinishError(w) \/ FinishAborted(w)
  BY <1>1, <1>2 DEF FinishError, FinishAborted, Fails
<1>3. CASE runs[w].stop = "none" /\ Drain(w)
  BY <1>1, <1>3 DEF Hears
<1>4. CASE runs[w].stop = "none" /\ Retries(w)
  BY <1>1, <1>4, RetriesCases
<1>5. CASE runs[w].stop = "none" /\ runs[w].asks # {} /\ FinishWaitingConfirmation(w)
  BY <1>1, <1>5 DEF Asks
<1>6. CASE runs[w].stop = "none" /\ runs[w].asks = {} /\ AllHeard /\ FinishIdle(w)
  BY <1>1, <1>6 DEF GoesIdle, AllHeard
<1>7. CASE runs[w].stop = "none" /\ runs[w].asks = {} /\ AllHeard /\ OfRuns(w, <<db>>, [NoRun EXCEPT !.at = "titling"], {})
  <2> DEFINE r == [NoRun EXCEPT !.at = "titling"]
  <2>1. db' = db /\ Goes(w, r, {})
    BY <1>7, DoesOne DEF OfRuns
  <2>2. r \in Runs /\ r.at = "titling" /\ r.stop = "none" /\ r.asks = {} /\ r.owes = {}
    <3>1. 0 \in 0 .. MaxRetries
      BY AgentAssumption
    <3> QED
      BY <3>1 DEF NoRun, Runs
  <2>3. {} \in SUBSET {"cut"} /\ db.queue = << >>
    BY <1>7 DEF AllHeard
  <2> HIDE DEF r
  <2> QED
    BY <1>1, <1>7, <2>1, <2>2, <2>3 DEF Quiet
<1>8. ~Interrupts(runs[w]) => runs[w].stop = "none"
  BY DEF Interrupts
<1> QED
  BY <1>2, <1>3, <1>4, <1>5, <1>6, <1>7, <1>8 DEF StreamEnds

LEMMA StepCases ==
    ASSUME TypeInv, NEW w \in Places, RunStep(w) \/ Aborts(w)
    PROVE  /\ UNCHANGED <<said, withdrawn, late>>
           /\ Quiet(w) \/ Fails(w) \/ GoesIdle(w) \/ Asks(w) \/ Hears(w) \/ StepEnds(w)
<1>1. CASE Aborts(w)
  BY <1>1, AbortsCases
<1>2. CASE RunStep(w)
  <2>1. UNCHANGED <<said, withdrawn, late>>
    BY <1>2, Zenon DEF RunStep, Acquires, Prepares, Wakes, StepEnds, StreamEnds, Titled, Leaves, LoopTop, Retries,
       FinishError, FinishAborted, FinishIdle, Finish, FinishWaitingConfirmation, Drain, OfRuns
  <2>2. CASE Acquires(w)
    <3>1. runs[w].at = "acquiring"
      BY <2>2 DEF Acquires
    <3>2. CASE FinishError(w)
      BY <2>1, <3>1, <3>2 DEF FinishError, Fails
    <3>3. CASE LoopTop(w)
      BY <2>1, <3>1, <3>3, LoopTopCases
    <3> QED
      BY <2>2, <3>2, <3>3 DEF Acquires
  <2>3. CASE Prepares(w)
    BY <2>1, <2>3, PreparesCases
  <2>4. CASE Wakes(w)
    BY <2>1, <2>4, LoopTopCases DEF Wakes
  <2>5. CASE StepEnds(w)
    BY <2>1, <2>5
  <2>6. CASE StreamEnds(w)
    BY <2>1, <2>6, StreamEndsCases
  <2>7. CASE Titled(w)
    BY <2>1, <2>7 DEF Titled, GoesIdle
  <2>8. CASE Leaves(w)
    <3>1. runs[w].at = "ending" /\ db' = db /\ Goes(w, NoRun, {})
      BY <2>8, DoesOne DEF Leaves, OfRuns
    <3>2. NoRun \in Runs /\ {} \in SUBSET {"cut"}
      BY RunTypes
    <3> QED
      BY <2>1, <3>1, <3>2 DEF Quiet
  <2> QED
    BY <1>2, <2>2, <2>3, <2>4, <2>5, <2>6, <2>7, <2>8 DEF RunStep
<1> QED
  BY <1>1, <1>2

-----------------------------------------------------------------------------
(* The rows of the user's requests and of a start *)

SubmitRow == IF db.status = "waiting" THEN WithAnswers(db) ELSE db
HeardRow  == Appended(SubmitRow, User(said + 1))

LEMMA SubmitDoes ==
    ASSUME TypeInv, SubmitUserMessage
    PROVE  /\ Served /\ said < MaxMessages /\ said + 1 \in Messages /\ ~Active /\ MaySubmit
           /\ SubmitRow \in Sessions /\ SubmitRow.status = db.status /\ SubmitRow.queue = db.queue
           /\ SubmitRow.conf = db.conf
           /\ HeardRow \in Sessions /\ HeardRow.status = db.status /\ HeardRow.queue = db.queue
           /\ HeardRow.conf = db.conf /\ Len(HeardRow.log) = Len(SubmitRow.log) + 1
           /\ HeardRow.log[Len(SubmitRow.log) + 1] = User(said + 1)
           /\ \A i \in 1 .. Len(SubmitRow.log) : HeardRow.log[i] = SubmitRow.log[i]
           /\ \/ Died("active") /\ db' \in {SubmitRow, HeardRow, WithStatus(HeardRow, "running")}
              \/ Goes("active", Started, Buries(SubmitRow)) /\ db' = WithStatus(HeardRow, "running")
           /\ withdrawn' = withdrawn /\ late' = late
           /\ said' = IF db'.log # <<>> /\ Last(db'.log).msg = said + 1 THEN said + 1 ELSE said
<1>1. db \in Sessions
  BY DEF TypeInv
<1>2. said + 1 \in Messages /\ said < MaxMessages
  BY AgentAssumption DEF SubmitUserMessage, TypeInv, Messages
<1>3. SubmitRow \in Sessions /\ SubmitRow.status = db.status /\ SubmitRow.queue = db.queue /\ SubmitRow.conf = db.conf
  BY <1>1, AnswerFacts DEF SubmitRow
<1>4. User(said + 1) \in Entries /\ User(said + 1) # Assistant({})
  <2>1. User(said + 1).by = "user" /\ Assistant({}).by = "assistant"
    BY EntryFacts
  <2> QED
    BY <1>2, <2>1, EntryTypes
<1>5. /\ HeardRow \in Sessions /\ HeardRow.status = db.status /\ HeardRow.queue = db.queue
      /\ HeardRow.conf = db.conf /\ Len(HeardRow.log) = Len(SubmitRow.log) + 1
      /\ HeardRow.log[Len(SubmitRow.log) + 1] = User(said + 1)
      /\ \A i \in 1 .. Len(SubmitRow.log) : HeardRow.log[i] = SubmitRow.log[i]
  BY <1>3, <1>4, AppendedAlways DEF HeardRow
<1>6. Does("active", <<db, SubmitRow, HeardRow, WithStatus(HeardRow, "running")>>, Started, Buries(SubmitRow))
  BY DEF SubmitUserMessage, SubmitRow, HeardRow
<1>7. \/ Died("active") /\ db' \in {SubmitRow, HeardRow, WithStatus(HeardRow, "running")}
      \/ Goes("active", Started, Buries(SubmitRow)) /\ db' = WithStatus(HeardRow, "running")
  BY <1>6, DoesFour
<1> QED
  BY <1>2, <1>3, <1>5, <1>7 DEF SubmitUserMessage

DecidedRow(r, yes) == [db EXCEPT !.conf[r] = IF yes THEN "approved" ELSE "denied"]

LEMMA ResolveDoes ==
    ASSUME TypeInv, NEW r \in Requests, NEW yes \in BOOLEAN, ResolveConfirmation(r, yes)
    PROVE  LET d == DecidedRow(r, yes)
               e == WithAnswers(d)
           IN
           /\ Served /\ db.conf[r] = "pending" /\ UNCHANGED <<said, withdrawn, late>>
           /\ d \in Sessions /\ d.status = db.status /\ d.queue = db.queue /\ d.log = db.log
           /\ d.conf[r] = IF yes THEN "approved" ELSE "denied"
           /\ \A q \in Requests : q # r => d.conf[q] = db.conf[q]
           /\ e \in Sessions /\ e.status = db.status /\ e.queue = db.queue /\ e.conf = d.conf
           /\ \/ /\ ~Active /\ Pending(d) = {} /\ Ready(d)
                 /\ \/ Died("active") /\ db' \in {d, e, WithStatus(e, "running")}
                    \/ Goes("active", Started, {}) /\ db' = WithStatus(e, "running")
              \/ /\ ~Resumes(d) /\ db' = d
                 /\ Goes("active", Run, IF Active THEN {"early"} ELSE {}) \/ Died("active")
<1> DEFINE d == DecidedRow(r, yes)
           e == WithAnswers(d)
<1>1. /\ d \in Sessions /\ d.status = db.status /\ d.queue = db.queue /\ d.log = db.log
      /\ d.conf[r] = IF yes THEN "approved" ELSE "denied"
      /\ \A q \in Requests : q # r => d.conf[q] = db.conf[q]
  BY DEF DecidedRow, TypeInv, Sessions, Decisions
<1>2. e \in Sessions /\ e.status = db.status /\ e.queue = db.queue /\ e.conf = d.conf
  BY <1>1, AnswerFacts
<1>3. /\ Served /\ db.conf[r] = "pending"
      /\ \/ Resumes(d) /\ OfRuns("active", <<db, d, e, WithStatus(e, "running")>>, Started, {})
         \/ ~Resumes(d) /\ OfRuns("active", <<db, d>>, Run, IF Active THEN {"early"} ELSE {})
  BY DEF ResolveConfirmation, DecidedRow
<1> HIDE DEF d, e
<1>4. CASE Resumes(d) /\ OfRuns("active", <<db, d, e, WithStatus(e, "running")>>, Started, {})
  <2>1. \/ Died("active") /\ db' \in {d, e, WithStatus(e, "running")}
        \/ Goes("active", Started, {}) /\ db' = WithStatus(e, "running")
    BY <1>4, DoesFour DEF OfRuns
  <2>2. UNCHANGED <<said, withdrawn, late>> /\ ~Active /\ Pending(d) = {} /\ Ready(d)
    BY <1>4 DEF OfRuns, Resumes
  <2> QED
    BY <1>1, <1>2, <1>3, <2>1, <2>2 DEF d, e
<1>5. CASE ~Resumes(d) /\ OfRuns("active", <<db, d>>, Run, IF Active THEN {"early"} ELSE {})
  <2> DEFINE slip == IF Active THEN {"early"} ELSE {}
  <2>1. Does("active", <<db, d>>, Run, slip) /\ UNCHANGED <<said, withdrawn, late>> /\ ~Resumes(d)
    BY <1>5 DEF OfRuns
  <2> HIDE DEF slip
  <2>2. db' = d /\ (Goes("active", Run, slip) \/ Died("active"))
    BY <2>1, DoesTwo
  <2> QED
    BY <1>1, <1>2, <1>3, <2>1, <2>2 DEF d, e, slip
<1> QED
  BY <1>3, <1>4, <1>5

\* The rows once nothing is pending any more, and what was cancelled has been answered.
StopRow == IF Pending(db) = {} THEN db ELSE WithAnswers(Cancelled(db))

LEMMA StopRowFacts ==
    ASSUME TypeInv
    PROVE  /\ StopRow \in Sessions /\ StopRow.status = db.status /\ StopRow.queue = db.queue
           /\ \A r \in Requests : StopRow.conf[r] = IF db.conf[r] = "pending" THEN "cancelled" ELSE db.conf[r]
           /\ WithStatus(StopRow, "stopped") \in Sessions
<1>1. db \in Sessions
  BY DEF TypeInv
<1>2. Cancelled(db) \in Sessions /\ Cancelled(db).status = db.status /\ Cancelled(db).queue = db.queue
  BY <1>1, CancelledFacts
<1>3. /\ WithAnswers(Cancelled(db)) \in Sessions /\ WithAnswers(Cancelled(db)).status = db.status
      /\ WithAnswers(Cancelled(db)).queue = db.queue /\ WithAnswers(Cancelled(db)).conf = Cancelled(db).conf
  BY <1>2, AnswerFacts
<1>4. StopRow \in Sessions /\ StopRow.status = db.status /\ StopRow.queue = db.queue
  BY <1>1, <1>3 DEF StopRow
<1>5. ASSUME NEW r \in Requests
      PROVE  StopRow.conf[r] = IF db.conf[r] = "pending" THEN "cancelled" ELSE db.conf[r]
  BY <1>1, <1>3, CancelledFacts DEF StopRow, Pending
<1>6. WithStatus(StopRow, "stopped") \in Sessions
  BY <1>4, WithStatusFacts DEF Statuses
<1> QED
  BY <1>4, <1>5, <1>6

LEMMA CancellingFacts ==
    ASSUME NEW d, NEW S, \A n \in 1 .. MaxRequests : CancelledTo(d, n) \in S
    PROVE  Cancelling(d) \in Seq(S)
<1>1. PICK k \in Nat : k = MaxRequests
  BY AgentAssumption
<1> DEFINE f == [n \in 1 .. k |-> CancelledTo(d, n)]
<1>2. Cancelling(d) = f
  BY <1>1 DEF Cancelling, CancelledTo
<1>3. f \in [1 .. k -> S]
  BY <1>1
<1> HIDE DEF f
<1> QED
  BY <1>2, <1>3

\* The rows of cancelPendingConfirmations between the first row and others.
LEMMA AroundCancelling ==
    ASSUME NEW S, NEW d, NEW s, d \in S, \A n \in 1 .. MaxRequests : CancelledTo(d, n) \in S,
           s \in Seq(S), s # << >>
    PROVE  LET all == <<d>> \o Cancelling(d) \o s IN
           all \in Seq(S) /\ all # << >> /\ Len(all) \in 1 .. Len(all) /\ all[Len(all)] = s[Len(s)]
<1>1. Cancelling(d) \in Seq(S) /\ <<d>> \in Seq(S)
  BY CancellingFacts
<1> DEFINE t == <<d>> \o Cancelling(d)
<1>2. t \in Seq(S)
  BY <1>1, ConcatProperties
<1> HIDE DEF t
<1>3. Len(t) \in Nat /\ Len(s) \in Nat /\ Len(s) # 0
  BY <1>2, LenProperties, EmptySeq
<1> DEFINE all == t \o s
<1>4. /\ all \in Seq(S) /\ Len(all) = Len(t) + Len(s)
      /\ \A i \in 1 .. Len(t) + Len(s) : all[i] = IF i <= Len(t) THEN t[i] ELSE s[i - Len(t)]
  BY <1>2, ConcatProperties, Zenon
<1> HIDE DEF all
<1>5. /\ Len(t) + Len(s) \in 1 .. Len(t) + Len(s) /\ ~(Len(t) + Len(s) <= Len(t))
      /\ Len(t) + Len(s) - Len(t) = Len(s)
  BY <1>3
<1>6. all[Len(all)] = s[Len(s)]
  BY <1>4, <1>5
<1>7. Len(all) \in 1 .. Len(all) /\ all # << >>
  <2>1. Len(all) # 0 /\ Len(all) \in 1 .. Len(all)
    BY <1>3, <1>4
  <2> QED
    BY <1>4, <2>1, EmptySeq
<1> QED
  BY <1>4, <1>6, <1>7 DEF all, t

LEMMA StopDoes ==
    ASSUME TypeInv, StopSession
    PROVE  /\ Served /\ ~Active /\ UNCHANGED <<said, withdrawn, late>>
           /\ \/ /\ Died("active")
                 /\ \/ db' \in {StopRow, WithStatus(StopRow, "stopped")}
                    \/ \E n \in 1 .. MaxRequests : db' = CancelledTo(db, n)
              \/ Goes("active", NoRun, {}) /\ db' = WithStatus(StopRow, "stopped")
<1> DEFINE end == WithStatus(StopRow, "stopped")
           s == <<StopRow, end>>
           S == {CancelledTo(db, n) : n \in 1 .. MaxRequests} \cup {db, StopRow, end}
           all == <<db>> \o Cancelling(db) \o s
<1>1. StopSession => Does("active", all, NoRun, {}) /\ Served /\ ~Active /\ UNCHANGED <<said, withdrawn, late>>
  BY DEF StopSession, OfRuns, StoppedRows, StopRow
<1>2. db \in S /\ (\A n \in 1 .. MaxRequests : CancelledTo(db, n) \in S) /\ StopRow \in S /\ end \in S
  OBVIOUS
<1> HIDE DEF S, end
<1>3. s \in Seq(S) /\ s # << >> /\ s[Len(s)] = end
  BY <1>2
<1> HIDE DEF s
<1>4. all \in Seq(S) /\ all[Len(all)] = end
  BY <1>2, <1>3, AroundCancelling
<1> HIDE DEF all
<1>5. db' \in S /\ ((Died("active") /\ db' # db) \/ (db' = end /\ Goes("active", NoRun, {})))
  BY <1>1, <1>4, DoesFacts
<1> QED
  BY <1>1, <1>5 DEF S, end

StartedRow == WithStatus(WithAnswers(db), IF Active THEN "waiting" ELSE "running")

LEMMA StartRowsFacts ==
    ASSUME TypeInv
    PROVE  /\ db.status = "running" =>
                /\ Last(StartRows) = StopRow
                /\ \A i \in DOMAIN StartRows :
                     StartRows[i] \in {db, StopRow} \/ \E n \in 1 .. MaxRequests : StartRows[i] = CancelledTo(db, n)
           /\ db.status # "running" /\ (db.status # "waiting" \/ Pending(db) # {}) =>
                Last(StartRows) = db /\ \A i \in DOMAIN StartRows : StartRows[i] = db
           /\ db.status = "waiting" /\ Pending(db) = {} /\ Ready(db) =>
                /\ Last(StartRows) = StartedRow
                /\ \A i \in DOMAIN StartRows : StartRows[i] \in {db, WithAnswers(db), StartedRow}
           /\ db.status = "waiting" /\ Pending(db) = {} /\ ~Ready(db) =>
                /\ Last(StartRows) = WithStatus(db, "idle")
                /\ \A i \in DOMAIN StartRows : StartRows[i] \in {db, WithStatus(db, "idle")}
<1>1. CASE db.status = "running"
  <2> DEFINE S == {CancelledTo(db, n) : n \in 1 .. MaxRequests} \cup {db, StopRow}
             s == <<StopRow>>
             all == <<db>> \o Cancelling(db) \o s
  <2>1. StartRows = all
    BY <1>1 DEF StartRows, RecoveredRows, StopRow
  <2>2. db \in S /\ (\A n \in 1 .. MaxRequests : CancelledTo(db, n) \in S) /\ StopRow \in S
    OBVIOUS
  <2> HIDE DEF S
  <2>3. s \in Seq(S) /\ s # << >> /\ s[Len(s)] = StopRow
    BY <2>2
  <2> HIDE DEF s
  <2>4. all \in Seq(S) /\ all[Len(all)] = StopRow
    BY <2>2, <2>3, AroundCancelling
  <2> HIDE DEF all
  <2>5. \A i \in DOMAIN all : all[i] \in S
    <3>1. DOMAIN all = 1 .. Len(all)
      BY <2>4, LenProperties
    <3> QED
      BY <2>4, <3>1, ElementOfSeq
  <2>6. Last(all) = StopRow
    BY <2>4 DEF Last
  <2> QED
    BY <1>1, <2>1, <2>5, <2>6 DEF S
<1>2. CASE db.status # "running" /\ (db.status # "waiting" \/ Pending(db) # {})
  <2>1. StartRows = <<db>>
    BY <1>2 DEF StartRows
  <2>2. Last(<<db>>) = db /\ \A i \in DOMAIN <<db>> : <<db>>[i] = db
    BY DEF Last
  <2> QED
    BY <1>2, <2>1, <2>2
<1>3. CASE db.status = "waiting" /\ Pending(db) = {} /\ Ready(db)
  <2> DEFINE d == WithAnswers(db)
  <2>1. StartRows = <<db, d, StartedRow>>
    BY <1>3 DEF StartRows, StartedRow
  <2> HIDE DEF d
  <2>2. Last(<<db, d, StartedRow>>) = StartedRow /\ \A i \in DOMAIN <<db, d, StartedRow>> : <<db, d, StartedRow>>[i] \in {db, d, StartedRow}
    BY DEF Last
  <2> QED
    BY <1>3, <2>1, <2>2 DEF d
<1>4. CASE db.status = "waiting" /\ Pending(db) = {} /\ ~Ready(db)
  <2> DEFINE d == WithStatus(db, "idle")
  <2>1. StartRows = <<db, d>>
    BY <1>4 DEF StartRows
  <2> HIDE DEF d
  <2>2. Last(<<db, d>>) = d /\ \A i \in DOMAIN <<db, d>> : <<db, d>>[i] \in {db, d}
    BY DEF Last
  <2> QED
    BY <1>4, <2>1, <2>2 DEF d
<1> QED
  BY <1>1, <1>2, <1>3, <1>4

LEMMA StartRowsTypes ==
    ASSUME TypeInv
    PROVE  Last(StartRows) \in Sessions /\ \A i \in DOMAIN StartRows : StartRows[i] \in Sessions
<1>1. db \in Sessions
  BY DEF TypeInv
<1>2. StopRow \in Sessions /\ \A n : CancelledTo(db, n) \in Sessions
  BY <1>1, StopRowFacts, CancelledFacts
<1>3. WithAnswers(db) \in Sessions /\ WithStatus(db, "idle") \in Sessions
  BY <1>1, AnswerFacts, WithStatusFacts DEF Statuses
<1>4. StartedRow \in Sessions
  <2>1. \A s \in Statuses : WithStatus(WithAnswers(db), s) \in Sessions
    BY <1>3, WithStatusFacts
  <2> QED
    BY <2>1 DEF StartedRow, Statuses
<1>5. CASE db.status = "running"
  BY <1>1, <1>2, <1>5, StartRowsFacts
<1>6. CASE db.status # "running" /\ (db.status # "waiting" \/ Pending(db) # {})
  BY <1>1, <1>6, StartRowsFacts
<1>7. CASE db.status = "waiting" /\ Pending(db) = {} /\ Ready(db)
  BY <1>1, <1>3, <1>4, <1>7, StartRowsFacts
<1>8. CASE db.status = "waiting" /\ Pending(db) = {} /\ ~Ready(db)
  BY <1>1, <1>3, <1>8, StartRowsFacts
<1> QED
  BY <1>5, <1>6, <1>7, <1>8

-----------------------------------------------------------------------------
(* Types are kept *)

LEMMA StepTypes ==
    ASSUME TypeInv, NEW w \in Places, NEW r \in Runs, NEW slip, slip \subseteq Slips,
           Goes(w, r, slip) \/ Died(w)
    PROVE  /\ proc' \in {"up", "stopping", "stopped", "down"} /\ runs' \in [Places -> Runs]
           /\ restarts' \in 0 .. MaxRestarts /\ slips' \subseteq Slips
<1>1. CASE Goes(w, r, slip)
  BY <1>1 DEF Goes, TypeInv
<1>2. CASE Died(w)
  <2>1. restarts + 1 \in 0 .. MaxRestarts
    BY <1>2, AgentAssumption DEF Died, TypeInv
  <2>2. Damage(w, db') \subseteq Slips
    BY SlipTypes DEF Slips
  <2>3. runs' \in [Places -> Runs]
    BY <1>2, RunTypes DEF Died
  <2> QED
    BY <1>2, <2>1, <2>2, <2>3 DEF Died, TypeInv
<1> QED
  BY <1>1, <1>2

LEMMA StatusTypes ==
    ASSUME TypeInv, NEW w \in Places
    PROVE  AbortedStatus(runs[w]) \in Statuses /\ "error" \in Statuses /\ db.status \in Statuses
BY DEF AbortedStatus, Statuses, TypeInv, Sessions

\* What persistTruncatedText and the status make of the rows.
LEMMA FailsDoes ==
    ASSUME TypeInv, NEW w \in Places, Fails(w)
    PROVE  /\ UNCHANGED <<said, withdrawn, late>>
           /\ \E text \in BOOLEAN, status \in {"error", AbortedStatus(runs[w])} :
                /\ \/ Died(w) /\ db' \in {Truncated(text), WithStatus(Truncated(text), status)}
                   \/ /\ Goes(w, Ending, TextBuries(text) \cup Dropped(runs[w]))
                      /\ db' = WithStatus(Truncated(text), status)
                /\ WithStatus(Truncated(text), status) \in Sessions
                /\ WithStatus(Truncated(text), status).status = status
                /\ WithStatus(Truncated(text), status).queue = db.queue
                /\ WithStatus(Truncated(text), status).conf = db.conf
                /\ WithStatus(Truncated(text), status).log = Truncated(text).log
<1>1. PICK status \in {"error", AbortedStatus(runs[w])} : Finish(w, status)
  BY DEF Fails
<1>2. /\ UNCHANGED <<said, withdrawn, late>>
      /\ \E text \in Texts(runs[w]) :
           \/ Died(w) /\ db' \in {Truncated(text), WithStatus(Truncated(text), status)}
           \/ /\ Goes(w, Ending, TextBuries(text) \cup Dropped(runs[w]))
              /\ db' = WithStatus(Truncated(text), status)
  BY <1>1, FinishDoes
<1>3. PICK text \in Texts(runs[w]) :
           \/ Died(w) /\ db' \in {Truncated(text), WithStatus(Truncated(text), status)}
           \/ /\ Goes(w, Ending, TextBuries(text) \cup Dropped(runs[w]))
              /\ db' = WithStatus(Truncated(text), status)
  BY <1>2
<1>4. text \in BOOLEAN /\ status \in Statuses
  BY StatusTypes DEF Texts
<1>5. Truncated(text) \in Sessions /\ Truncated(text).queue = db.queue /\ Truncated(text).conf = db.conf
  BY TruncatedFacts
<1> DEFINE f == WithStatus(Truncated(text), status)
<1>6. f \in Sessions /\ f.status = status /\ f.queue = db.queue /\ f.conf = db.conf /\ f.log = Truncated(text).log
  BY <1>4, <1>5, WithStatusFacts
<1> QED
  BY <1>2, <1>3, <1>4, <1>6

LEMMA DrainsTo ==
    ASSUME TypeInv
    PROVE  /\ Len(db.queue) \in 0 .. Len(db.queue)
           /\ \A n \in 0 .. Len(db.queue) : DrainedTo(n) \in Sessions
<1>1. Len(db.queue) \in Nat
  BY LogFacts DEF TypeInv
<1> QED
  BY <1>1, DrainedFacts

LEMMA RunTyped ==
    ASSUME TypeInv, NEW w \in Places, RunStep(w) \/ Aborts(w)
    PROVE  TypeInv'
<1>1. /\ UNCHANGED <<said, withdrawn, late>>
      /\ Quiet(w) \/ Fails(w) \/ GoesIdle(w) \/ Asks(w) \/ Hears(w) \/ StepEnds(w)
  BY StepCases
<1>2. ASSUME NEW r \in Runs, NEW slip, slip \subseteq Slips, Goes(w, r, slip) \/ Died(w), db' \in Sessions
      PROVE  TypeInv'
  BY <1>1, <1>2, StepTypes DEF TypeInv
<1>3. db \in Sessions /\ {} \subseteq Slips /\ {"cut"} \subseteq Slips
  BY DEF TypeInv, Slips
<1>4. CASE Quiet(w)
  <2>1. PICK r \in Runs, slip \in SUBSET {"cut"} : Goes(w, r, slip) /\ db' = db
    BY <1>4 DEF Quiet
  <2> QED
    BY <1>2, <1>3, <2>1
<1>5. CASE Fails(w)
  <2>1. PICK text \in BOOLEAN, status \in {"error", AbortedStatus(runs[w])} :
           /\ \/ Died(w) /\ db' \in {Truncated(text), WithStatus(Truncated(text), status)}
              \/ /\ Goes(w, Ending, TextBuries(text) \cup Dropped(runs[w]))
                 /\ db' = WithStatus(Truncated(text), status)
           /\ WithStatus(Truncated(text), status) \in Sessions
    BY <1>5, FailsDoes
  <2>2. TextBuries(text) \cup Dropped(runs[w]) \subseteq Slips
    BY <1>3, SlipTypes
  <2>3. Truncated(text) \in Sessions
    BY TruncatedFacts
  <2> QED
    BY <1>2, <2>1, <2>2, <2>3, RunTypes
<1>6. CASE GoesIdle(w)
  <2>1. db' = WithStatus(db, "idle") /\ (Goes(w, Ending, {}) \/ Died(w))
    BY <1>6, FinishIdleDoes DEF GoesIdle
  <2>2. WithStatus(db, "idle") \in Sessions
    BY <1>3, WithStatusFacts DEF Statuses
  <2> QED
    BY <1>2, <1>3, <2>1, <2>2, RunTypes
<1>7. CASE Asks(w)
  <2> DEFINE end == WithStatus(AsksTo(runs[w], MaxRequests), "waiting")
  <2>1. \/ Died(w) /\ (db' = end \/ \E n \in 0 .. MaxRequests : db' = AsksTo(runs[w], n))
        \/ Goes(w, Ending, {}) /\ db' = end
    BY <1>7, FinishWaitingDoes DEF Asks
  <2>2. \A n : AsksTo(runs[w], n) \in Sessions
    BY AsksToFacts
  <2>3. end \in Sessions
    BY <2>2, WithStatusFacts DEF Statuses
  <2> QED
    BY <1>2, <1>3, <2>1, <2>2, <2>3, RunTypes
<1>8. CASE Hears(w)
  <2> DEFINE end == DrainedTo(Len(db.queue))
             slip == Dropped(runs[w]) \cup (IF db.queue # <<>> THEN Buries(db) ELSE {})
             r == Called(end, NextRound(runs[w]))
  <2>1. \/ Died(w) /\ \E n \in 0 .. Len(db.queue) : db' = DrainedTo(n)
        \/ Goes(w, r, slip) /\ db' = end
    BY <1>8, DrainDoes DEF Hears
  <2>2. end \in Sessions /\ \A n \in 0 .. Len(db.queue) : DrainedTo(n) \in Sessions
    BY DrainsTo
  <2>3. slip \subseteq Slips
    BY <1>3, SlipTypes
  <2>4. r \in Runs
    BY <2>2, CalledTypes
  <2> HIDE DEF slip, r, end
  <2> QED
    BY <1>2, <2>1, <2>2, <2>3, <2>4
<1>9. CASE StepEnds(w)
  <2>1. PICK n \in 0 .. MaxRequests - Cardinality(AskedBefore) :
                \/ Died(w) /\ db' \in {RanRow(w), StepRow(w, n)}
                \/ Goes(w, StepRun(w, n), {}) /\ db' = StepRow(w, n)
    BY <1>9, StepEndsDoes
  <2>2. StepRow(w, n) \in Sessions /\ StepRun(w, n) \in Runs /\ RanRow(w) \in Sessions
    BY StepRowFacts, RanFacts
  <2> QED
    BY <1>2, <1>3, <2>1, <2>2
<1> QED
  BY <1>1, <1>4, <1>5, <1>6, <1>7, <1>8, <1>9

LEMMA RemoveAtFacts ==
    ASSUME NEW S, NEW q \in Seq(S), NEW i \in 1 .. Len(q)
    PROVE  LET s == RemoveAt(q, i) IN
           /\ s \in Seq(S) /\ Len(s) \in Nat /\ Len(q) = Len(s) + 1
           /\ \A j \in 1 .. Len(s) : s[j] = q[IF j < i THEN j ELSE j + 1]
<1> DEFINE a == SubSeq(q, 1, i - 1)
           b == SubSeq(q, i + 1, Len(q))
<1>1. PICK k \in Nat : k = Len(q)
  BY LenProperties
<1>2. i \in 1 .. k /\ \A j \in 1 .. k : q[j] \in S
  BY <1>1, ElementOfSeq
<1>3. a \in Seq(S) /\ Len(a) = i - 1 /\ \A j \in 1 .. i - 1 : a[j] = q[j]
  <2>1. 1 \in Int /\ i - 1 \in Int /\ \A j \in 1 .. i - 1 : q[j] \in S
    BY <1>1, <1>2
  <2>2. /\ a \in Seq(S) /\ Len(a) = IF 1 <= i - 1 THEN i - 1 - 1 + 1 ELSE 0
        /\ \A j \in 1 .. i - 1 - 1 + 1 : a[j] = q[1 + j - 1]
    BY <2>1, SubSeqProperties
  <2>3. (IF 1 <= i - 1 THEN i - 1 - 1 + 1 ELSE 0) = i - 1 /\ i - 1 - 1 + 1 = i - 1
    BY <1>2
  <2>4. \A j \in 1 .. i - 1 : 1 + j - 1 = j
    BY <1>2
  <2> HIDE DEF a
  <2> QED
    BY <2>2, <2>3, <2>4
<1>4. b \in Seq(S) /\ Len(b) = k - i /\ \A j \in 1 .. k - i : b[j] = q[i + j]
  <2>1. i + 1 \in Int /\ k \in Int /\ \A j \in i + 1 .. k : q[j] \in S
    BY <1>1, <1>2
  <2>2. /\ b \in Seq(S) /\ Len(b) = IF i + 1 <= k THEN k - (i + 1) + 1 ELSE 0
        /\ \A j \in 1 .. k - (i + 1) + 1 : b[j] = q[i + 1 + j - 1]
    BY <1>1, <2>1, SubSeqProperties
  <2>3. (IF i + 1 <= k THEN k - (i + 1) + 1 ELSE 0) = k - i /\ k - (i + 1) + 1 = k - i
    BY <1>2
  <2>4. \A j \in 1 .. k - i : i + 1 + j - 1 = i + j
    BY <1>2
  <2> HIDE DEF b
  <2> QED
    BY <2>2, <2>3, <2>4
<1> HIDE DEF a, b
<1> DEFINE s == a \o b
<1>5. /\ s \in Seq(S) /\ Len(s) = Len(a) + Len(b)
      /\ \A j \in 1 .. Len(a) + Len(b) : s[j] = IF j <= Len(a) THEN a[j] ELSE b[j - Len(a)]
  BY <1>3, <1>4, ConcatProperties, Zenon
<1> HIDE DEF s
<1>6. Len(a) + Len(b) = k - 1 /\ k - 1 \in Nat
  BY <1>2, <1>3, <1>4
<1>7. ASSUME NEW j \in 1 .. k - 1 PROVE s[j] = q[IF j < i THEN j ELSE j + 1]
  <2>1. CASE j < i
    <3>1. j \in 1 .. i - 1 /\ j <= i - 1
      BY <1>2, <2>1
    <3> QED
      BY <1>3, <1>5, <1>6, <2>1, <3>1
  <2>2. CASE ~(j < i)
    <3>1. ~(j <= i - 1) /\ j - (i - 1) \in 1 .. k - i /\ i + (j - (i - 1)) = j + 1
      BY <1>2, <2>2
    <3>2. s[j] = b[j - (i - 1)]
      BY <1>3, <1>5, <1>6, <3>1
    <3>3. b[j - (i - 1)] = q[j + 1]
      BY <1>4, <3>1
    <3> QED
      BY <2>2, <3>2, <3>3
  <2> QED
    BY <2>1, <2>2
<1>8. RemoveAt(q, i) = s
  BY DEF RemoveAt, s, a, b
<1>9. Len(s) = k - 1 /\ k = k - 1 + 1
  BY <1>5, <1>6
<1> QED
  BY <1>1, <1>5, <1>6, <1>7, <1>8, <1>9

\* The queue after one message is taken out.
LEMMA WithdrawDoes ==
    ASSUME TypeInv, NEW n \in Messages, WithdrawQueuedMessage(n)
    PROVE  /\ UNCHANGED <<proc, runs, said, late, restarts, slips>> /\ withdrawn' = withdrawn \cup {n}
           /\ db' \in Sessions /\ db'.status = db.status /\ db'.conf = db.conf /\ db'.log = db.log
           /\ Len(db'.queue) \in Nat /\ Len(db.queue) = Len(db'.queue) + 1
           /\ \E i \in 1 .. Len(db.queue) :
                /\ db.queue[i] = n
                /\ \A j \in 1 .. Len(db'.queue) : db'.queue[j] = db.queue[IF j < i THEN j ELSE j + 1]
<1>1. db \in Sessions /\ db.queue \in Seq(Messages) /\ DOMAIN db.queue = 1 .. Len(db.queue)
  BY LogFacts DEF TypeInv
<1>2. PICK i \in 1 .. Len(db.queue) : db.queue[i] = n /\ db' = [db EXCEPT !.queue = RemoveAt(@, i)]
  BY <1>1 DEF WithdrawQueuedMessage
<1> DEFINE s == RemoveAt(db.queue, i)
<1>3. /\ s \in Seq(Messages) /\ Len(s) \in Nat /\ Len(db.queue) = Len(s) + 1
      /\ \A j \in 1 .. Len(s) : s[j] = db.queue[IF j < i THEN j ELSE j + 1]
  BY <1>1, RemoveAtFacts, Zenon
<1> HIDE DEF s
<1>4. db' = [db EXCEPT !.queue = s]
  BY <1>2 DEF s
<1>5. db' \in Sessions /\ db'.status = db.status /\ db'.conf = db.conf /\ db'.log = db.log /\ db'.queue = s
  BY <1>1, <1>3, <1>4 DEF Sessions
<1> QED
  BY <1>2, <1>3, <1>5 DEF WithdrawQueuedMessage

LEMMA EnqueueDoes ==
    ASSUME TypeInv, NEW steer \in BOOLEAN, Enqueue(steer)
    PROVE  /\ Served /\ Active /\ UNCHANGED <<proc, withdrawn, restarts, slips>>
           /\ said' = said + 1 /\ said + 1 \in Messages /\ said < MaxMessages
           /\ db' \in Sessions /\ db'.status = db.status /\ db'.conf = db.conf /\ db'.log = db.log
           /\ Len(db'.queue) = Len(db.queue) + 1 /\ db'.queue[Len(db.queue) + 1] = said + 1
           /\ \A i \in 1 .. Len(db.queue) : db'.queue[i] = db.queue[i]
           /\ late' = IF Deaf THEN late \cup {said + 1} ELSE late
           /\ \/ runs' = runs
              \/ /\ Run.at \in {"preparing", "streaming"}
                 /\ runs' = [runs EXCEPT !["active"] = [Run EXCEPT !.steer = TRUE, !.aborted = TRUE]]
<1>1. db \in Sessions /\ db.queue \in Seq(Messages)
  BY LogFacts DEF TypeInv
<1>2. said + 1 \in Messages /\ said < MaxMessages
  BY AgentAssumption DEF Enqueue, TypeInv, Messages
<1> DEFINE s == Append(db.queue, said + 1)
<1>3. /\ s \in Seq(Messages) /\ Len(s) = Len(db.queue) + 1 /\ s[Len(db.queue) + 1] = said + 1
      /\ \A i \in 1 .. Len(db.queue) : s[i] = db.queue[i]
  BY <1>1, <1>2, AppendProperties
<1> HIDE DEF s
<1>4. db' = [db EXCEPT !.queue = s]
  BY DEF Enqueue, s
<1>5. db' \in Sessions /\ db'.status = db.status /\ db'.conf = db.conf /\ db'.log = db.log /\ db'.queue = s
  BY <1>1, <1>3, <1>4 DEF Sessions
<1>6. \/ runs' = runs
      \/ /\ Run.at \in {"preparing", "streaming"}
         /\ runs' = [runs EXCEPT !["active"] = [Run EXCEPT !.steer = TRUE, !.aborted = TRUE]]
  BY DEF Enqueue, Run, TypeInv, Places
<1> QED
  BY <1>2, <1>3, <1>5, <1>6 DEF Enqueue

\* A stop asked of the active run.
LEMMA RequestStopDoes ==
    ASSUME TypeInv, NEW why \in {"manual", "shutdown"}, RequestStop(why)
    PROVE  \/ runs' = runs
           \/ /\ Active /\ Run.stop = "none" /\ ~Deaf
              /\ runs' = [runs EXCEPT !["active"] = [Run EXCEPT !.stop = why]]
BY DEF RequestStop, Run, TypeInv, Places

LEMMA RunPut ==
    ASSUME TypeInv, NEW w \in Places, NEW r \in Runs, runs' = [runs EXCEPT ![w] = r]
    PROVE  /\ runs' \in [Places -> Runs] /\ runs'[w] = r
           /\ \A v \in Places : v # w => runs'[v] = runs[v]
BY DEF TypeInv

LEMMA AllStopped ==
    ASSUME runs' = [w \in Places |-> NoRun]
    PROVE  runs' \in [Places -> Runs] /\ \A w \in Places : runs'[w] = NoRun
BY RunTypes

LEMMA DomainRuns == ASSUME TypeInv PROVE DOMAIN runs = Places
BY DEF TypeInv

LEMMA TypesKept == ASSUME TypeInv, [Next]_vars PROVE TypeInv'
<1>1. db \in Sessions /\ {} \subseteq Slips /\ {"cut"} \subseteq Slips /\ "active" \in Places /\ "orphan" \in Places /\ MaxRestarts \in Nat
  BY AgentAssumption DEF TypeInv, Slips, Places
<1>2. ASSUME NEW w \in Places, RunStep(w) \/ Aborts(w) PROVE TypeInv'
  BY <1>2, RunTyped
<1>3. ASSUME NEW steer \in BOOLEAN, Enqueue(steer) PROVE TypeInv'
  <2>1. /\ UNCHANGED <<proc, withdrawn, restarts, slips>> /\ said' = said + 1 /\ said + 1 \in Messages /\ db' \in Sessions
        /\ late' = IF Deaf THEN late \cup {said + 1} ELSE late
        /\ \/ runs' = runs
           \/ runs' = [runs EXCEPT !["active"] = [Run EXCEPT !.steer = TRUE, !.aborted = TRUE]]
    BY <1>3, EnqueueDoes
  <2>2. [Run EXCEPT !.steer = TRUE, !.aborted = TRUE] \in Runs
    BY <1>1, RunField DEF Run, Runs
  <2>3. runs' \in [Places -> Runs]
    BY <1>1, <2>1, <2>2, RunPut DEF TypeInv
  <2>4. late' \subseteq Messages
    BY <2>1 DEF TypeInv
  <2>5. said' \in 0 .. MaxMessages
    BY <2>1, AgentAssumption DEF Messages
  <2> QED
    BY <2>1, <2>3, <2>4, <2>5 DEF TypeInv
<1>4. CASE SubmitUserMessage
  <2>1. /\ said + 1 \in Messages /\ SubmitRow \in Sessions /\ HeardRow \in Sessions
        /\ \/ Died("active") /\ db' \in {SubmitRow, HeardRow, WithStatus(HeardRow, "running")}
           \/ Goes("active", Started, Buries(SubmitRow)) /\ db' = WithStatus(HeardRow, "running")
        /\ withdrawn' = withdrawn /\ late' = late
        /\ said' = said + 1 \/ said' = said
    BY <1>4, SubmitDoes
  <2>2. Buries(SubmitRow) \subseteq Slips /\ "running" \in Statuses
    BY <1>1, SlipTypes DEF Statuses
  <2>5. WithStatus(HeardRow, "running") \in Sessions
    BY <2>1, <2>2, WithStatusFacts
  <2>3. /\ proc' \in {"up", "stopping", "stopped", "down"} /\ runs' \in [Places -> Runs]
        /\ restarts' \in 0 .. MaxRestarts /\ slips' \subseteq Slips
    BY <1>1, <2>1, <2>2, RunTypes, StepTypes
  <2>4. said' \in 0 .. MaxMessages
    BY <2>1, AgentAssumption DEF Messages, TypeInv
  <2> QED
    BY <2>1, <2>3, <2>4, <2>5 DEF TypeInv
<1>5. ASSUME NEW n \in Messages, WithdrawQueuedMessage(n) PROVE TypeInv'
  <2>1. UNCHANGED <<proc, runs, said, late, restarts, slips>> /\ withdrawn' = withdrawn \cup {n} /\ db' \in Sessions
    BY <1>5, WithdrawDoes
  <2> QED
    BY <2>1 DEF TypeInv
<1>6. CASE StopActive
  <2>1. RequestStop("manual") /\ UNCHANGED <<db, proc, said, withdrawn, late, restarts, slips>>
    BY <1>6 DEF StopActive
  <2>2. runs' = runs \/ runs' = [runs EXCEPT !["active"] = [Run EXCEPT !.stop = "manual"]]
    BY <2>1, RequestStopDoes
  <2>3. [Run EXCEPT !.stop = "manual"] \in Runs
    BY <1>1, RunField DEF Run, Runs
  <2>4. runs' \in [Places -> Runs]
    BY <1>1, <2>2, <2>3, RunPut DEF TypeInv
  <2> QED
    BY <2>1, <2>4 DEF TypeInv
<1>7. CASE StopSession
  <2>1. /\ UNCHANGED <<said, withdrawn, late>>
        /\ \/ /\ Died("active")
              /\ \/ db' \in {StopRow, WithStatus(StopRow, "stopped")}
                 \/ \E n \in 1 .. MaxRequests : db' = CancelledTo(db, n)
           \/ Goes("active", NoRun, {}) /\ db' = WithStatus(StopRow, "stopped")
    BY <1>7, StopDoes
  <2>4. StopRow \in Sessions /\ WithStatus(StopRow, "stopped") \in Sessions
    BY StopRowFacts
  <2>5. \A n : CancelledTo(db, n) \in Sessions
    BY <1>1, CancelledFacts
  <2>2. db' \in Sessions
    BY <2>1, <2>4, <2>5
  <2>3. /\ proc' \in {"up", "stopping", "stopped", "down"} /\ runs' \in [Places -> Runs]
        /\ restarts' \in 0 .. MaxRestarts /\ slips' \subseteq Slips
    BY <1>1, <2>1, RunTypes, StepTypes
  <2> QED
    BY <2>1, <2>2, <2>3 DEF TypeInv
<1>8. ASSUME NEW r \in Requests, NEW yes \in BOOLEAN, ResolveConfirmation(r, yes) PROVE TypeInv'
  <2> DEFINE d == DecidedRow(r, yes)
             e == WithAnswers(d)
             slip == IF Active THEN {"early"} ELSE {}
  <2>1. /\ UNCHANGED <<said, withdrawn, late>> /\ d \in Sessions /\ e \in Sessions
        /\ \/ /\ \/ Died("active") /\ db' \in {d, e, WithStatus(e, "running")}
                 \/ Goes("active", Started, {}) /\ db' = WithStatus(e, "running")
           \/ /\ db' = d
              /\ Goes("active", Run, slip) \/ Died("active")
    BY <1>8, ResolveDoes
  <2> HIDE DEF d, e
  <2>2. db' \in Sessions
    BY <2>1, WithStatusFacts DEF Statuses
  <2>3. Run \in Runs /\ slip \subseteq Slips
    BY <1>1, RunField DEF Run, Slips
  <2> HIDE DEF slip
  <2>4. /\ proc' \in {"up", "stopping", "stopped", "down"} /\ runs' \in [Places -> Runs]
        /\ restarts' \in 0 .. MaxRestarts /\ slips' \subseteq Slips
    BY <1>1, <2>1, <2>3, RunTypes, StepTypes
  <2> QED
    BY <2>1, <2>2, <2>4 DEF TypeInv
<1>9. CASE Shutdown
  <2>1. /\ restarts < MaxRestarts /\ restarts' = restarts + 1 /\ proc' \in {"stopping", "stopped"}
        /\ RequestStop("shutdown") /\ UNCHANGED <<db, said, withdrawn, late, slips>>
    BY <1>9 DEF Shutdown, CanStop
  <2>2. runs' = runs \/ runs' = [runs EXCEPT !["active"] = [Run EXCEPT !.stop = "shutdown"]]
    BY <2>1, RequestStopDoes
  <2>3. [Run EXCEPT !.stop = "shutdown"] \in Runs
    BY <1>1, RunField DEF Run, Runs
  <2>4. runs' \in [Places -> Runs]
    BY <1>1, <2>2, <2>3, RunPut DEF TypeInv
  <2>5. restarts' \in 0 .. MaxRestarts
    BY <1>1, <2>1 DEF TypeInv
  <2> QED
    BY <2>1, <2>4, <2>5 DEF TypeInv
<1>10. CASE StopTimesOut
  <2>1. /\ proc' = "stopped" /\ runs' = [runs EXCEPT !["active"] = NoRun, !["orphan"] = Run]
        /\ slips' = slips \cup {"outlived"} \cup Dropped(Run) /\ UNCHANGED <<db, said, withdrawn, late, restarts>>
    BY <1>10 DEF StopTimesOut
  <2>2. Run \in Runs /\ NoRun \in Runs /\ Dropped(Run) \subseteq Slips /\ "outlived" \in Slips
    BY <1>1, RunField, RunTypes, SlipTypes DEF Run, Slips
  <2>3. runs' \in [Places -> Runs]
    BY <2>1, <2>2 DEF TypeInv
  <2> QED
    BY <2>1, <2>2, <2>3 DEF TypeInv
<1>11. CASE Crash
  <2>1. /\ restarts < MaxRestarts /\ restarts' = restarts + 1 /\ proc' = "down"
        /\ runs' = [w \in Places |-> NoRun]
        /\ slips' = slips \cup UNION {Dropped(runs[w]) : w \in Places} /\ UNCHANGED <<db, said, withdrawn, late>>
    BY <1>11, DomainRuns DEF Crash, CanStop
  <2>2. UNION {Dropped(runs[w]) : w \in Places} \subseteq Slips
    BY <1>1, SlipTypes
  <2>3. restarts' \in 0 .. MaxRestarts
    BY <1>1, <2>1 DEF TypeInv
  <2> QED
    BY <2>1, <2>2, <2>3, AllStopped DEF TypeInv
<1>12. CASE Start
  <2>1. /\ db' = Last(StartRows) /\ proc' = "up" /\ UNCHANGED <<said, withdrawn, late, restarts, slips>>
        /\ runs' = runs \/ runs' = [runs EXCEPT !["active"] = Started]
    BY <1>12 DEF Start
  <2>2. runs' \in [Places -> Runs]
    BY <1>1, <2>1, RunPut, RunTypes DEF TypeInv
  <2> QED
    BY <2>1, <2>2, StartRowsTypes DEF TypeInv
<1>13. CASE StartDies
  <2>1. PICK i \in DOMAIN StartRows :
          db' = StartRows[i] /\ slips' = slips \cup Interrupted(StartRows[i]) \cup Dropped(Run)
    BY <1>13 DEF StartDies
  <2>2. /\ restarts < MaxRestarts /\ restarts' = restarts + 1 /\ proc' = "down"
        /\ runs' = [w \in Places |-> NoRun] /\ UNCHANGED <<said, withdrawn, late>>
    BY <1>13, DomainRuns DEF StartDies, CanStop
  <2>3. Interrupted(StartRows[i]) \subseteq Slips /\ Dropped(Run) \subseteq Slips
    BY <1>1, SlipTypes DEF Interrupted
  <2>4. restarts' \in 0 .. MaxRestarts
    BY <1>1, <2>2 DEF TypeInv
  <2>5. db' \in Sessions
    BY <2>1, StartRowsTypes
  <2> QED
    BY <2>1, <2>2, <2>3, <2>4, <2>5, AllStopped DEF TypeInv
<1>14. CASE UNCHANGED vars
  BY <1>14 DEF vars, TypeInv
<1> QED
  BY <1>2, <1>3, <1>4, <1>5, <1>6, <1>7, <1>8, <1>9, <1>10, <1>11, <1>12, <1>13, <1>14, DomainRuns DEF Next

LEMMA TypesStart == Init => TypeInv
<1> SUFFICES ASSUME Init PROVE TypeInv
  OBVIOUS
<1>1. << >> \in Seq(Messages) /\ << >> \in Seq(Entries)
  OBVIOUS
<1>2. db \in Sessions
  BY <1>1 DEF Init, Sessions, Statuses, Decisions
<1>3. runs \in [Places -> Runs]
  BY RunTypes DEF Init, Places
<1>4. 0 \in 0 .. MaxMessages /\ 0 \in 0 .. MaxRestarts
  BY AgentAssumption
<1> QED
  BY <1>2, <1>3, <1>4 DEF Init, TypeInv

-----------------------------------------------------------------------------
(* Where runs are *)

PlaceInv ==
    /\ proc = "down" => \A w \in Places : runs[w] = NoRun
    /\ proc = "stopping" => Active
    /\ \A w \in Places : runs[w].at = "none" => runs[w] = NoRun
    /\ \A w \in Places : runs[w].asks # {} => runs[w].at = "streaming"
    /\ "outlived" \notin slips => runs["orphan"] = NoRun
    /\ runs["orphan"].stop # "none" \/ runs["orphan"].at \in {"none", "titling", "ending"}
    /\ proc = "stopping" => Run.stop # "none" \/ Run.at \in {"titling", "ending"}

LEMMA DiedPlace ==
    ASSUME NEW w \in Places, Died(w)
    PROVE  PlaceInv'
<1>1. proc' = "down" /\ \A v \in Places : runs'[v] = NoRun
  BY AllStopped DEF Died
<1>2. "orphan" \in Places
  BY DEF Places
<1> QED
  BY <1>1, <1>2, RunTypes DEF PlaceInv

LEMMA GoesPlace ==
    ASSUME TypeInv, PlaceInv, NEW w \in Places, NEW r \in Runs, NEW slip, Goes(w, r, slip), proc # "down",
           r.at = "none" => r = NoRun, r.asks # {} => r.at = "streaming",
           w = "orphan" => r.stop # "none" \/ r.at \in {"none", "titling", "ending"},
           w = "orphan" => r = NoRun \/ runs["orphan"] # NoRun,
           w = "active" /\ proc = "stopping" => r.stop # "none" \/ r.at \in {"none", "titling", "ending"}
    PROVE  PlaceInv'
<1>1. runs' \in [Places -> Runs] /\ runs'[w] = r /\ \A v \in Places : v # w => runs'[v] = runs[v]
  BY RunPut DEF Goes
<1>2. proc' # "down" /\ (proc' = "stopping" => proc = "stopping" /\ (w = "active" => r # NoRun))
  BY DEF Goes
<1>3. slips \subseteq slips' /\ "active" \in Places /\ "orphan" \in Places
  BY DEF Goes, Places
<1>4. proc' = "stopping" => Active'
  BY <1>1, <1>2, <1>3 DEF Active, Run, PlaceInv
<1>5. /\ \A v \in Places : runs'[v].at = "none" => runs'[v] = NoRun
      /\ \A v \in Places : runs'[v].asks # {} => runs'[v].at = "streaming"
  BY <1>1 DEF PlaceInv
<1>6. "outlived" \notin slips' => runs'["orphan"] = NoRun
  BY <1>1, <1>3 DEF PlaceInv
<1>7. runs'["orphan"].stop # "none" \/ runs'["orphan"].at \in {"none", "titling", "ending"}
  BY <1>1, <1>3 DEF PlaceInv
<1>8. proc' = "stopping" => Run'.stop # "none" \/ Run'.at \in {"titling", "ending"}
  BY <1>1, <1>2, <1>3, RunTypes DEF PlaceInv, Run, Places
<1> QED
  BY <1>2, <1>4, <1>5, <1>6, <1>7, <1>8 DEF PlaceInv

LEMMA StepPlace ==
    ASSUME TypeInv, PlaceInv, NEW w \in Places, RunStep(w) \/ Aborts(w)
    PROVE  PlaceInv' /\ proc # "down" /\ runs[w] # NoRun
<1>1. Quiet(w) \/ Fails(w) \/ GoesIdle(w) \/ Asks(w) \/ Hears(w) \/ StepEnds(w)
  BY StepCases
<1>2. runs[w].at # "none"
  BY <1>1 DEF Quiet, Fails, GoesIdle, Asks, Hears, StepEnds
<1>3. runs[w] # NoRun /\ proc # "down"
  BY <1>2, RunTypes DEF PlaceInv
<1>4. (w = "orphan" \/ proc = "stopping") => runs[w].stop # "none" \/ runs[w].at \in {"titling", "ending"}
  BY <1>2 DEF PlaceInv, Places, Run
<1>5. CASE Quiet(w)
  <2>1. PICK r \in Runs, slip \in SUBSET {"cut"} :
         /\ Goes(w, r, slip)
         /\ \/ r = NoRun /\ runs[w].at = "ending"
            \/ /\ runs[w].at \in {"acquiring", "preparing", "streaming", "retrying"}
               /\ r.at \in {"preparing", "streaming", "retrying", "titling"}
               /\ r.stop = runs[w].stop
               /\ r.asks # {} => r.at = "streaming" /\ r.asks = runs[w].asks
    BY <1>5 DEF Quiet
  <2>2. /\ r.at = "none" => r = NoRun
        /\ r.asks # {} => r.at = "streaming"
        /\ (w = "orphan" \/ proc = "stopping") => r.stop # "none" \/ r.at \in {"none", "titling", "ending"}
    BY <1>4, <2>1, RunTypes
  <2> QED
    BY <1>3, <2>1, <2>2, GoesPlace
<1>6. ASSUME NEW slip, Goes(w, Ending, slip) \/ Died(w) PROVE PlaceInv'
  BY <1>3, <1>6, GoesPlace, DiedPlace, RunTypes
<1>7. CASE Fails(w)
  <2>1. PICK slip : Died(w) \/ Goes(w, Ending, slip)
    BY <1>7, FailsDoes
  <2> QED
    BY <1>3, <1>6, <2>1
<1>8. CASE GoesIdle(w)
  <2>1. Died(w) \/ Goes(w, Ending, {})
    BY <1>8, FinishIdleDoes DEF GoesIdle
  <2> QED
    BY <1>3, <1>6, <2>1
<1>9. CASE Asks(w)
  <2>1. Died(w) \/ Goes(w, Ending, {})
    BY <1>9, FinishWaitingDoes DEF Asks
  <2> QED
    BY <1>3, <1>6, <2>1
<1>10. CASE Hears(w)
  <2> DEFINE end == DrainedTo(Len(db.queue))
             slip == Dropped(runs[w]) \cup (IF db.queue # <<>> THEN Buries(db) ELSE {})
             r == Called(end, NextRound(runs[w]))
  <2>1. Died(w) \/ Goes(w, r, slip)
    BY <1>10, DrainDoes DEF Hears
  <2>2. end \in Sessions
    BY DrainsTo
  <2>3. r \in Runs /\ r.at = "preparing" /\ r.asks = {}
    BY <2>2, CalledTypes
  <2>4. w # "orphan" /\ proc # "stopping"
    BY <1>4, <1>10 DEF Hears
  <2> HIDE DEF r, slip, end
  <2> QED
    BY <1>3, <2>1, <2>3, <2>4, GoesPlace, DiedPlace
<1>11. CASE StepEnds(w)
  <2>1. runs[w].at = "streaming" /\ runs[w].stop = "none"
    BY <1>11, StepEndsDoes
  <2>2. PICK n \in 0 .. MaxRequests - Cardinality(AskedBefore) : Died(w) \/ Goes(w, StepRun(w, n), {})
    BY <1>11, StepEndsDoes
  <2>3. StepRun(w, n) \in Runs /\ StepRun(w, n).at = "streaming"
    <3>1. runs[w] \in Runs
      BY RunField
    <3>2. StepRun(w, n).at = runs[w].at
      BY <3>1 DEF StepRun, Runs
    <3> QED
      BY <2>1, <3>2, StepRowFacts
  <2>4. w # "orphan" /\ proc # "stopping"
    BY <1>4, <2>1
  <2> QED
    BY <1>3, <2>2, <2>3, <2>4, GoesPlace, DiedPlace
<1> QED
  BY <1>1, <1>3, <1>5, <1>7, <1>8, <1>9, <1>10, <1>11

LEMMA PlaceKept == ASSUME TypeInv, PlaceInv, [Next]_vars PROVE PlaceInv'
<1>1. "active" \in Places /\ "orphan" \in Places /\ Run \in Runs /\ "active" # "orphan"
  BY RunField DEF Places, Run
<1>2. ASSUME NEW w \in Places, RunStep(w) \/ Aborts(w) PROVE PlaceInv'
  BY <1>2, StepPlace
\* The active run changes its flags only.
<1>3. ASSUME NEW r, r \in Runs, runs' = [runs EXCEPT !["active"] = r], r.at # "none",
             r.asks = Run.asks, r.at = Run.at, proc' = proc \/ (proc' = "stopping" /\ proc = "up"),
             r.stop = Run.stop \/ r.stop # "none", proc' = "stopping" /\ proc = "up" => r.stop # "none", slips \subseteq slips', proc # "down"
      PROVE PlaceInv'
  <2>1. runs'["active"] = r /\ runs'["orphan"] = runs["orphan"]
    BY <1>1, <1>3, RunPut
  <2>2. r # NoRun
    BY <1>3, RunTypes
  <2> QED
    BY <1>1, <1>3, <2>1, <2>2 DEF PlaceInv, Active, Run, Places
<1>4. ASSUME NEW steer \in BOOLEAN, Enqueue(steer) PROVE PlaceInv'
  <2>1. /\ proc' = proc /\ slips \subseteq slips' /\ proc # "down"
        /\ \/ runs' = runs
           \/ /\ Run.at \in {"preparing", "streaming"}
              /\ runs' = [runs EXCEPT !["active"] = [Run EXCEPT !.steer = TRUE, !.aborted = TRUE]]
    BY <1>4, EnqueueDoes DEF Served
  <2>2. CASE runs' = runs
    BY <2>1, <2>2 DEF PlaceInv, Active, Run
  <2>3. CASE Run.at \in {"preparing", "streaming"} /\ runs' = [runs EXCEPT !["active"] = [Run EXCEPT !.steer = TRUE, !.aborted = TRUE]]
    <3> DEFINE r == [Run EXCEPT !.steer = TRUE, !.aborted = TRUE]
    <3>1. r \in Runs /\ r.at = Run.at /\ r.asks = Run.asks /\ r.stop = Run.stop
      BY <1>1 DEF Runs
    <3>2. runs' = [runs EXCEPT !["active"] = r] /\ r.at # "none"
      BY <2>3, <3>1
    <3> HIDE DEF r
    <3> QED
      BY <1>3, <2>1, <3>1, <3>2
  <2> QED
    BY <2>1, <2>2, <2>3
<1>5. CASE SubmitUserMessage
  <2>1. /\ proc # "down" /\ proc # "stopping"
        /\ Died("active") \/ Goes("active", Started, Buries(SubmitRow))
    BY <1>5, SubmitDoes DEF Served, PlaceInv
  <2> QED
    BY <1>1, <2>1, GoesPlace, DiedPlace, RunTypes
<1>6. ASSUME NEW n \in Messages, WithdrawQueuedMessage(n) PROVE PlaceInv'
  <2>1. UNCHANGED <<proc, runs, slips>>
    BY <1>6, WithdrawDoes
  <2> QED
    BY <2>1 DEF PlaceInv, Active, Run
<1>7. ASSUME NEW why \in {"manual", "shutdown"}, RequestStop(why), slips' = slips, proc # "down",
             proc' = proc \/ (proc' = "stopped" /\ ~Active) \/ (proc' = "stopping" /\ proc = "up" /\ Active)
      PROVE  PlaceInv'
  <2>1. CASE runs' = runs /\ ~(Active /\ runs' = [runs EXCEPT !["active"] = [Run EXCEPT !.stop = why]])
    <3>1. ~(Active /\ Run.stop = "none" /\ ~Deaf)
      BY <1>7, <2>1 DEF RequestStop, Run
    <3> QED
      BY <1>1, <1>7, <2>1, <3>1 DEF PlaceInv, Active, Run, Deaf
  <2>2. CASE Active /\ runs' = [runs EXCEPT !["active"] = [Run EXCEPT !.stop = why]]
    <3> DEFINE r == [Run EXCEPT !.stop = why]
    <3>1. r \in Runs /\ r.at = Run.at /\ r.asks = Run.asks /\ r.stop # "none"
      BY <1>1 DEF Runs
    <3>2. r.at # "none"
      BY <1>1, <2>2, <3>1 DEF PlaceInv, Active, Run
    <3>3. runs' = [runs EXCEPT !["active"] = r]
      BY <2>2
    <3>4. proc' = proc \/ (proc' = "stopping" /\ proc = "up")
      BY <1>7, <2>2
    <3> HIDE DEF r
    <3> QED
      BY <1>3, <1>7, <3>1, <3>2, <3>3, <3>4
  <2> QED
    <3>1. \/ runs' = runs
          \/ Active /\ runs' = [runs EXCEPT !["active"] = [Run EXCEPT !.stop = why]]
      BY <1>7, RequestStopDoes
    <3> QED
      BY <2>1, <2>2, <3>1
<1>8. CASE StopActive
  BY <1>7, <1>8 DEF StopActive, Served
<1>9. CASE StopSession
  <2>1. proc # "down" /\ (Died("active") \/ Goes("active", NoRun, {}))
    BY <1>9, StopDoes DEF Served
  <2> QED
    BY <1>1, <2>1, GoesPlace, DiedPlace, RunTypes
<1>10. ASSUME NEW r \in Requests, NEW yes \in BOOLEAN, ResolveConfirmation(r, yes) PROVE PlaceInv'
  <2> DEFINE slip == IF Active THEN {"early"} ELSE {}
  <2>1. /\ proc # "down"
        /\ Died("active") \/ (Goes("active", Started, {}) /\ ~Active) \/ Goes("active", Run, slip)
    BY <1>10, ResolveDoes DEF Served
  <2>2. /\ Run.at = "none" => Run = NoRun
        /\ Run.asks # {} => Run.at = "streaming"
        /\ proc = "stopping" => Run.stop # "none" \/ Run.at \in {"none", "titling", "ending"}
    BY <1>1 DEF PlaceInv, Run
  <2> HIDE DEF slip
  <2>3. CASE Goes("active", Run, slip)
    BY <1>1, <2>1, <2>2, <2>3, GoesPlace
  <2>4. CASE Goes("active", Started, {}) /\ ~Active
    <3>1. proc # "stopping"
      BY <2>4 DEF PlaceInv
    <3> QED
      BY <1>1, <2>1, <2>4, <3>1, GoesPlace, RunTypes
  <2> QED
    BY <1>1, <2>1, <2>3, <2>4, DiedPlace
<1>11. CASE Shutdown
  BY <1>7, <1>11 DEF Shutdown
<1>12. CASE StopTimesOut
  <2>1. /\ proc' = "stopped" /\ proc = "stopping" /\ "outlived" \in slips'
        /\ runs' = [runs EXCEPT !["active"] = NoRun, !["orphan"] = Run]
    BY <1>12 DEF StopTimesOut
  <2>2. runs'["active"] = NoRun /\ runs'["orphan"] = Run
    BY <1>1, <2>1 DEF TypeInv
  <2>3. Run.stop # "none" \/ Run.at \in {"none", "titling", "ending"}
    BY <2>1 DEF PlaceInv
  <2> QED
    BY <1>1, <2>1, <2>2, <2>3, RunTypes DEF PlaceInv, Places, Run
<1>13. ASSUME proc' = "down", runs' = [w \in Places |-> NoRun] PROVE PlaceInv'
  BY <1>1, <1>13, AllStopped, RunTypes DEF PlaceInv
<1>14. CASE Crash \/ StartDies
  BY <1>13, <1>14, DomainRuns DEF Crash, StartDies
<1>15. CASE Start
  <2>1. /\ proc' = "up" /\ slips' = slips
        /\ runs' = runs \/ runs' = [runs EXCEPT !["active"] = Started]
    BY <1>15 DEF Start
  <2>2. runs'["orphan"] = runs["orphan"] /\ runs'["active"] \in {runs["active"], Started}
    BY <1>1, <2>1, RunPut, RunTypes
  <2> QED
    BY <1>1, <2>1, <2>2, RunTypes DEF PlaceInv, Places
<1>16. CASE UNCHANGED vars
  BY <1>16 DEF vars, PlaceInv, Active, Run
<1> QED
  BY <1>2, <1>4, <1>5, <1>6, <1>8, <1>9, <1>10, <1>11, <1>12, <1>14, <1>15, <1>16, DomainRuns DEF Next

-----------------------------------------------------------------------------
(* The user's messages *)

\* No message is in two places.
Distinct(d) ==
    /\ \A i, j \in 1 .. Len(d.log) : i # j /\ d.log[i].msg # 0 => d.log[i].msg # d.log[j].msg
    /\ \A i, j \in 1 .. Len(d.queue) : i # j => d.queue[i] # d.queue[j]
    /\ \A i \in 1 .. Len(d.log), j \in 1 .. Len(d.queue) : d.log[i].msg # d.queue[j]

\* None of them is newer than m.
Known(d, m) ==
    /\ \A i \in 1 .. Len(d.log) : d.log[i].msg <= m
    /\ \A i \in 1 .. Len(d.queue) : d.queue[i] <= m

Present(d, n) ==
    \/ \E i \in 1 .. Len(d.log) : d.log[i].msg = n
    \/ \E i \in 1 .. Len(d.queue) : d.queue[i] = n

MessagesInv ==
    /\ Distinct(db) /\ Known(db, said)
    /\ "torn" \notin slips => \A n \in 1 .. said : n \in withdrawn \/ Present(db, n)

\* The rows f have the messages of d.
Adds(d, f) ==
    /\ f \in Sessions /\ f.queue = d.queue /\ Len(d.log) <= Len(f.log)
    /\ \A i \in 1 .. Len(d.log) : f.log[i].msg = d.log[i].msg
    /\ \A i \in 1 .. Len(f.log) : ~(i <= Len(d.log)) => f.log[i].msg = 0

LEMMA AddsFacts ==
    ASSUME NEW d \in Sessions, NEW f \in Sessions, Adds(d, f)
    PROVE  /\ Distinct(d) => Distinct(f)
           /\ \A m \in Nat : Known(d, m) => Known(f, m)
           /\ \A n : Present(d, n) => Present(f, n)
<1>1. Len(d.log) \in Nat /\ Len(f.log) \in Nat /\ f.queue = d.queue /\ Len(d.log) <= Len(f.log)
  BY LogFacts DEF Adds
<1>2. \A i \in 1 .. Len(d.log) : i \in 1 .. Len(f.log) /\ f.log[i].msg = d.log[i].msg
  BY <1>1 DEF Adds
<1>3. \A i \in 1 .. Len(f.log) : i \notin 1 .. Len(d.log) => f.log[i].msg = 0
  BY <1>1 DEF Adds
<1>4. \A i \in 1 .. Len(f.log) : f.log[i].msg = 0 \/ (i \in 1 .. Len(d.log) /\ f.log[i].msg = d.log[i].msg)
  BY <1>2, <1>3
<1>5. \A j \in 1 .. Len(d.queue) : d.queue[j] # 0
  BY LogFacts DEF Messages
<1>6. ASSUME Distinct(d) PROVE Distinct(f)
  BY <1>1, <1>4, <1>5, <1>6 DEF Distinct
<1>7. ASSUME NEW m \in Nat, Known(d, m) PROVE Known(f, m)
  BY <1>1, <1>4, <1>7, SMTT(30) DEF Known
<1>8. ASSUME NEW n, Present(d, n) PROVE Present(f, n)
  BY <1>1, <1>2, <1>8 DEF Present
<1> QED
  BY <1>6, <1>7, <1>8

LEMMA AddsSame ==
    ASSUME NEW d \in Sessions, NEW f \in Sessions, f.queue = d.queue, f.log = d.log
    PROVE  Adds(d, f)
<1>1. Len(d.log) \in Nat
  BY LogFacts
<1> QED
  BY <1>1 DEF Adds

LEMMA AddsOne ==
    ASSUME NEW d \in Sessions, NEW f \in Sessions, f.queue = d.queue, Len(f.log) = Len(d.log) + 1,
           f.log[Len(d.log) + 1].msg = 0, \A i \in 1 .. Len(d.log) : f.log[i] = d.log[i]
    PROVE  Adds(d, f)
<1>1. Len(d.log) \in Nat
  BY LogFacts
<1>2. \A i \in 1 .. Len(d.log) + 1 : ~(i <= Len(d.log)) => i = Len(d.log) + 1
  BY <1>1
<1>3. Len(d.log) <= Len(d.log) + 1
  BY <1>1
<1> QED
  BY <1>2, <1>3 DEF Adds

LEMMA AddsThen ==
    ASSUME NEW d \in Sessions, NEW e \in Sessions, NEW f \in Sessions, Adds(d, e), Adds(e, f)
    PROVE  Adds(d, f)
<1>1. Len(d.log) \in Nat /\ Len(e.log) \in Nat /\ Len(f.log) \in Nat
  BY LogFacts
<1>2. Len(d.log) <= Len(e.log) /\ Len(e.log) <= Len(f.log)
  BY DEF Adds
<1>3. Len(d.log) <= Len(f.log)
  BY <1>1, <1>2
<1>4. \A i \in 1 .. Len(d.log) : i \in 1 .. Len(e.log)
  BY <1>1, <1>2
<1>5. \A i \in 1 .. Len(d.log) : f.log[i].msg = d.log[i].msg
  BY <1>4 DEF Adds
<1>6. \A i \in 1 .. Len(f.log) : ~(i <= Len(d.log)) => i \in 1 .. Len(e.log) \/ ~(i <= Len(e.log))
  BY <1>1
<1>7. \A i \in 1 .. Len(f.log) : ~(i <= Len(d.log)) => f.log[i].msg = 0
  <2> SUFFICES ASSUME NEW i \in 1 .. Len(f.log), ~(i <= Len(d.log)) PROVE f.log[i].msg = 0
    OBVIOUS
  <2>1. CASE i \in 1 .. Len(e.log)
    BY <2>1 DEF Adds
  <2>2. CASE ~(i <= Len(e.log))
    BY <2>2 DEF Adds
  <2> QED
    BY <1>6, <2>1, <2>2
<1> QED
  BY <1>3, <1>5, <1>7 DEF Adds

LEMMA AnswersAdd == ASSUME NEW d \in Sessions PROVE Adds(d, WithAnswers(d))
<1>1. Answer(d).msg = 0
  BY EntryFacts DEF Answer
<1>2. WithAnswers(d) \in Sessions /\ WithAnswers(d).queue = d.queue
  BY AnswerFacts
<1>3. CASE WithAnswers(d) = d
  BY <1>3, AddsSame
<1>4. CASE WithAnswers(d) # d
  <2>1. /\ Len(WithAnswers(d).log) = Len(d.log) + 1 /\ WithAnswers(d).log[Len(d.log) + 1] = Answer(d)
        /\ \A i \in 1 .. Len(d.log) : WithAnswers(d).log[i] = d.log[i]
    BY <1>4, AnswerFacts
  <2> QED
    BY <1>1, <1>2, <2>1, AddsOne
<1> QED
  BY <1>3, <1>4

LEMMA StatusAdds == ASSUME NEW d \in Sessions, NEW s \in Statuses PROVE Adds(d, WithStatus(d, s))
BY AddsSame, WithStatusFacts

LEMMA StopAdds ==
    ASSUME TypeInv
    PROVE  /\ Adds(db, StopRow) /\ Adds(db, WithStatus(StopRow, "stopped"))
           /\ \A n : Adds(db, CancelledTo(db, n))
<1>1. db \in Sessions
  BY DEF TypeInv
<1>2. Cancelled(db) \in Sessions /\ Adds(db, Cancelled(db))
  BY <1>1, CancelledFacts, AddsSame
<1>3. Adds(Cancelled(db), WithAnswers(Cancelled(db))) /\ WithAnswers(Cancelled(db)) \in Sessions
  BY <1>2, AnswersAdd, AnswerFacts
<1>4. Adds(db, WithAnswers(Cancelled(db))) /\ Adds(db, db)
  BY <1>1, <1>2, <1>3, AddsThen, AddsSame
<1>5. StopRow \in Sessions /\ Adds(db, StopRow)
  BY <1>1, <1>3, <1>4 DEF StopRow
<1>6. "stopped" \in Statuses
  BY DEF Statuses
<1>7. Adds(StopRow, WithStatus(StopRow, "stopped")) /\ WithStatus(StopRow, "stopped") \in Sessions
  BY <1>5, <1>6, StatusAdds, WithStatusFacts
<1>8. ASSUME NEW n PROVE Adds(db, CancelledTo(db, n))
  BY <1>1, CancelledFacts, AddsSame
<1> QED
  BY <1>1, <1>5, <1>7, <1>8, AddsThen

\* What a run does to the messages.
LEMMA StepAdds ==
    ASSUME TypeInv, NEW w \in Places, RunStep(w) \/ Aborts(w)
    PROVE  \/ Adds(db, db') /\ slips \subseteq slips'
           \/ \E n \in 0 .. Len(db.queue) :
                db' = DrainedTo(n) /\ slips \subseteq slips' /\ (n = Len(db.queue) \/ "torn" \in slips')
<1>1. Quiet(w) \/ Fails(w) \/ GoesIdle(w) \/ Asks(w) \/ Hears(w) \/ StepEnds(w)
  BY StepCases
<1>2. db \in Sessions /\ "idle" \in Statuses /\ "waiting" \in Statuses /\ Adds(db, db)
  BY AddsSame DEF TypeInv, Statuses
<1>3. \A r, slip : Goes(w, r, slip) \/ Died(w) => slips \subseteq slips'
  BY DEF Goes, Died
<1>4. CASE Quiet(w)
  <2>1. PICK r \in Runs, slip \in SUBSET {"cut"} : Goes(w, r, slip) /\ db' = db
    BY <1>4 DEF Quiet
  <2> QED
    BY <1>2, <1>3, <2>1
<1>5. CASE Fails(w)
  <2>1. PICK text \in BOOLEAN, status \in {"error", AbortedStatus(runs[w])} :
           /\ \/ Died(w) /\ db' \in {Truncated(text), WithStatus(Truncated(text), status)}
              \/ /\ Goes(w, Ending, TextBuries(text) \cup Dropped(runs[w]))
                 /\ db' = WithStatus(Truncated(text), status)
           /\ WithStatus(Truncated(text), status) \in Sessions
    BY <1>5, FailsDoes
  <2>2. status \in Statuses
    BY StatusTypes
  <2>3. Truncated(text) \in Sessions /\ Truncated(text).queue = db.queue
    BY TruncatedFacts
  <2>4. Adds(db, Truncated(text))
    <3>1. CASE Truncated(text) = db
      BY <1>2, <3>1
    <3>2. CASE Truncated(text) # db
      <4>1. Truncated(text) = Appended(db, Assistant({})) /\ Assistant({}) \in Entries
        BY <3>2, TruncatedFacts, EntryTypes
      <4>2. /\ Len(Truncated(text).log) = Len(db.log) + 1 /\ Truncated(text).log[Len(db.log) + 1] = Assistant({})
            /\ \A i \in 1 .. Len(db.log) : Truncated(text).log[i] = db.log[i]
        BY <1>2, <3>2, <4>1, AppendedFacts
      <4> QED
        BY <1>2, <2>3, <4>2, AddsOne, EntryFacts
    <3> QED
      BY <3>1, <3>2
  <2>5. Adds(Truncated(text), WithStatus(Truncated(text), status))
    BY <2>2, <2>3, StatusAdds
  <2>6. Adds(db, WithStatus(Truncated(text), status))
    BY <1>2, <2>1, <2>3, <2>4, <2>5, AddsThen
  <2> QED
    BY <1>3, <2>1, <2>4, <2>6
<1>6. CASE GoesIdle(w)
  <2>1. db' = WithStatus(db, "idle") /\ (Goes(w, Ending, {}) \/ Died(w))
    BY <1>6, FinishIdleDoes DEF GoesIdle
  <2> QED
    BY <1>2, <1>3, <2>1, StatusAdds
<1>7. CASE Asks(w)
  <2> DEFINE d == AsksTo(runs[w], MaxRequests)
             end == WithStatus(d, "waiting")
  <2>1. \/ Died(w) /\ (db' = end \/ \E n \in 0 .. MaxRequests : db' = AsksTo(runs[w], n))
        \/ Goes(w, Ending, {}) /\ db' = end
    BY <1>7, FinishWaitingDoes DEF Asks
  <2>2. \A n : AsksTo(runs[w], n) \in Sessions /\ AsksTo(runs[w], n).queue = db.queue /\ AsksTo(runs[w], n).log = db.log
    BY AsksToFacts
  <2>3. \A n : Adds(db, AsksTo(runs[w], n))
    BY <1>2, <2>2, AddsSame
  <2>4. d \in Sessions /\ Adds(db, d)
    BY <2>2, <2>3
  <2> HIDE DEF d
  <2>5. Adds(d, end) /\ end \in Sessions
    BY <1>2, <2>4, StatusAdds, WithStatusFacts
  <2>6. Adds(db, end)
    BY <1>2, <2>4, <2>5, AddsThen
  <2> QED
    BY <1>3, <2>1, <2>3, <2>6
<1>8. CASE Hears(w)
  <2>1. \/ Died(w) /\ \E n \in 0 .. Len(db.queue) : db' = DrainedTo(n)
        \/ db' = DrainedTo(Len(db.queue)) /\ slips \subseteq slips'
    BY <1>3, <1>8, DrainDoes DEF Hears
  <2>2. CASE db' = DrainedTo(Len(db.queue)) /\ slips \subseteq slips'
    BY <2>2, DrainsTo
  <2>3. CASE Died(w) /\ \E n \in 0 .. Len(db.queue) : db' = DrainedTo(n)
    <3>1. PICK n \in 0 .. Len(db.queue) : db' = DrainedTo(n)
      BY <2>3
    <3>2. db'.queue = << >>
      BY <3>1, DrainedFacts
    <3>3. CASE db.queue = << >>
      <4>1. n = Len(db.queue)
        BY <3>3
      <4> QED
        BY <1>3, <2>3, <3>1, <4>1
    <3>4. CASE db.queue # << >>
      <4>1. "torn" \in Damage(w, db')
        BY <3>2, <3>4 DEF Damage
      <4>2. "torn" \in slips' /\ slips \subseteq slips'
        BY <2>3, <4>1 DEF Died
      <4> QED
        BY <3>1, <4>2
    <3> QED
      BY <3>3, <3>4
  <2> QED
    BY <2>1, <2>2, <2>3
<1>9. CASE StepEnds(w)
  <2>1. PICK n \in 0 .. MaxRequests - Cardinality(AskedBefore) :
                \/ Died(w) /\ db' \in {RanRow(w), StepRow(w, n)}
                \/ Goes(w, StepRun(w, n), {}) /\ db' = StepRow(w, n)
    BY <1>9, StepEndsDoes
  <2>2. /\ StepRow(w, n) \in Sessions /\ StepRow(w, n).queue = db.queue
        /\ RanRow(w) \in Sessions /\ RanRow(w).queue = db.queue
    BY StepRowFacts, RanFacts
  <2>3. Adds(db, RanRow(w))
    <3>1. CASE RanRow(w) = db
      BY <1>2, <3>1
    <3>2. CASE RanRow(w) # db
      <4>1. /\ Len(RanRow(w).log) = Len(db.log) + 1
            /\ RanRow(w).log[Len(db.log) + 1] = Tool({}, {}, runs[w].owes)
            /\ \A i \in 1 .. Len(db.log) : RanRow(w).log[i] = db.log[i]
        BY <3>2, RanFacts
      <4> QED
        BY <1>2, <2>2, <4>1, AddsOne, EntryFacts
    <3> QED
      BY <3>1, <3>2
  <2>4. Adds(RanRow(w), StepRow(w, n))
    <3>1. CASE StepRow(w, n) = RanRow(w)
      BY <2>2, <3>1, AddsSame
    <3>2. CASE StepRow(w, n) # RanRow(w)
      <4>1. /\ Len(StepRow(w, n).log) = Len(RanRow(w).log) + 1
            /\ StepRow(w, n).log[Len(RanRow(w).log) + 1] = Assistant(Fresh(n))
            /\ \A i \in 1 .. Len(RanRow(w).log) : StepRow(w, n).log[i] = RanRow(w).log[i]
        BY <3>2, StepRowFacts
      <4>2. Assistant(Fresh(n)).msg = 0
        BY EntryFacts
      <4> QED
        BY <2>2, <4>1, <4>2, AddsOne
    <3> QED
      BY <3>1, <3>2
  <2>5. Adds(db, StepRow(w, n))
    BY <1>2, <2>2, <2>3, <2>4, AddsThen
  <2> QED
    BY <1>3, <2>1, <2>3, <2>5
<1> QED
  BY <1>1, <1>4, <1>5, <1>6, <1>7, <1>8, <1>9

\* The drained messages are in the conversation; all of them, when the drain is through.
LEMMA DrainedKeeps ==
    ASSUME TypeInv, NEW n \in 0 .. Len(db.queue), Distinct(db)
    PROVE  /\ Distinct(DrainedTo(n))
           /\ \A m \in Nat : Known(db, m) => Known(DrainedTo(n), m)
           /\ n = Len(db.queue) => \A x : Present(db, x) => Present(DrainedTo(n), x)
<1> DEFINE f == DrainedTo(n)
           k == Len(db.log)
<1>1. db \in Sessions
  BY DEF TypeInv
<1>2. k \in Nat /\ n \in Nat /\ Len(db.queue) \in Nat /\ \A j \in 1 .. n : j \in 1 .. Len(db.queue)
  BY <1>1, LogFacts
<1>3. Len(f.log) = k + n /\ f.queue = << >> /\ Len(f.queue) = 0
  BY DrainedFacts
<1>4. \A i \in 1 .. k : f.log[i] = db.log[i]
  BY DrainedFacts
<1>5. \A i \in 1 .. n : f.log[k + i] = User(db.queue[i]) /\ f.log[k + i].msg = db.queue[i]
  BY DrainedFacts, EntryFacts
<1> HIDE DEF k, f
<1>6. \A i \in 1 .. k + n : i \in 1 .. k \/ (i - k \in 1 .. n /\ i = k + (i - k))
  BY <1>2
<1>7. \A i \in 1 .. k + n : (i \in 1 .. k /\ f.log[i].msg = db.log[i].msg)
                             \/ (i - k \in 1 .. n /\ f.log[i].msg = db.queue[i - k])
  <2> SUFFICES ASSUME NEW i \in 1 .. k + n, ~(i \in 1 .. k)
               PROVE  i - k \in 1 .. n /\ f.log[i].msg = db.queue[i - k]
    BY <1>4
  <2>1. PICK j \in 1 .. n : j = i - k /\ i = k + j
    BY <1>6
  <2>2. f.log[k + j].msg = db.queue[j]
    BY <1>5
  <2> QED
    BY <2>1, <2>2
<1>8. Distinct(f)
  <2>1. ASSUME NEW i \in 1 .. k + n, NEW j \in 1 .. k + n, i # j, f.log[i].msg # 0
        PROVE  f.log[i].msg # f.log[j].msg
    <3>1. CASE i \in 1 .. k /\ f.log[i].msg = db.log[i].msg
      <4>1. CASE j \in 1 .. k /\ f.log[j].msg = db.log[j].msg
        BY <2>1, <3>1, <4>1 DEF Distinct, k
      <4>2. CASE j - k \in 1 .. n /\ f.log[j].msg = db.queue[j - k]
        BY <1>2, <3>1, <4>2 DEF Distinct, k
      <4> QED
        BY <1>7, <4>1, <4>2
    <3>2. CASE i - k \in 1 .. n /\ f.log[i].msg = db.queue[i - k]
      <4>1. CASE j \in 1 .. k /\ f.log[j].msg = db.log[j].msg
        BY <1>2, <3>2, <4>1 DEF Distinct, k
      <4>2. CASE j - k \in 1 .. n /\ f.log[j].msg = db.queue[j - k]
        <5>1. i - k # j - k
          BY <1>2, <2>1
        <5>2. i - k \in 1 .. Len(db.queue) /\ j - k \in 1 .. Len(db.queue)
          BY <1>2, <3>2, <4>2
        <5> QED
          BY <3>2, <4>2, <5>1, <5>2 DEF Distinct
      <4> QED
        BY <1>7, <4>1, <4>2
    <3> QED
      BY <1>7, <3>1, <3>2
  <2> QED
    BY <1>3, <2>1 DEF Distinct
<1>9. ASSUME NEW m \in Nat, Known(db, m) PROVE Known(f, m)
  <2>1. \A i \in 1 .. k + n : f.log[i].msg <= m
    BY <1>2, <1>7, <1>9 DEF Known, k
  <2> QED
    BY <1>3, <2>1 DEF Known
<1>10. ASSUME n = Len(db.queue), NEW x, Present(db, x) PROVE Present(f, x)
  <2>1. CASE \E i \in 1 .. k : db.log[i].msg = x
    <3>1. PICK i \in 1 .. k : db.log[i].msg = x
      BY <2>1
    <3>2. i \in 1 .. k + n /\ f.log[i].msg = x
      BY <1>2, <1>4, <3>1
    <3> QED
      BY <1>3, <3>2 DEF Present
  <2>2. CASE \E i \in 1 .. Len(db.queue) : db.queue[i] = x
    <3>1. PICK i \in 1 .. n : db.queue[i] = x
      BY <1>10, <2>2
    <3>2. k + i \in 1 .. k + n
      BY <1>2
    <3>3. f.log[k + i].msg = x
      BY <1>5, <3>1
    <3> QED
      BY <1>3, <3>2, <3>3 DEF Present
  <2> QED
    BY <1>10, <2>1, <2>2 DEF Present, k
<1> QED
  BY <1>8, <1>9, <1>10 DEF f

\* A message that is put behind the others.
LEMMA HeardKeeps ==
    ASSUME NEW d \in Sessions, NEW f \in Sessions, NEW m \in Nat, Distinct(d), Known(d, m),
           f.queue = d.queue, Len(f.log) = Len(d.log) + 1, f.log[Len(d.log) + 1].msg = m + 1,
           \A i \in 1 .. Len(d.log) : f.log[i] = d.log[i]
    PROVE  /\ Distinct(f) /\ Known(f, m + 1) /\ Present(f, m + 1)
           /\ \A x : Present(d, x) => Present(f, x)
<1> DEFINE k == Len(d.log)
<1>1. k \in Nat /\ Len(f.log) = k + 1
  BY LogFacts
<1>2. f.log[k + 1].msg = m + 1 /\ \A i \in 1 .. k : f.log[i].msg = d.log[i].msg
  OBVIOUS
<1>3. \A i \in 1 .. k : d.log[i].msg <= m /\ d.log[i].msg \in Nat
  BY LogFacts DEF Known
<1>4. \A i \in 1 .. Len(d.queue) : d.queue[i] <= m /\ d.queue[i] \in Nat /\ f.queue[i] = d.queue[i]
  BY LogFacts DEF Known, Messages
<1>5. /\ \A i, j \in 1 .. k : i # j /\ d.log[i].msg # 0 => d.log[i].msg # d.log[j].msg
      /\ \A i, j \in 1 .. Len(d.queue) : i # j => d.queue[i] # d.queue[j]
      /\ \A i \in 1 .. k, j \in 1 .. Len(d.queue) : d.log[i].msg # d.queue[j]
  BY DEF Distinct
<1>6. Len(f.queue) = Len(d.queue) /\ Present(d, m) = Present(d, m)
  OBVIOUS
<1> HIDE DEF k
<1>7. \A i \in 1 .. k + 1 : i = k + 1 \/ i \in 1 .. k
  BY <1>1
<1>8. Known(f, m + 1)
  <2>1. \A i \in 1 .. k + 1 : f.log[i].msg <= m + 1
    BY <1>2, <1>3, <1>7, SMTT(30)
  <2>2. \A i \in 1 .. Len(d.queue) : f.queue[i] <= m + 1
    BY <1>4
  <2> QED
    BY <1>1, <1>6, <2>1, <2>2 DEF Known
<1>9. Distinct(f)
  <2>1. \A i, j \in 1 .. k + 1 : i # j /\ f.log[i].msg # 0 => f.log[i].msg # f.log[j].msg
    <3> SUFFICES ASSUME NEW i \in 1 .. k + 1, NEW j \in 1 .. k + 1, i # j, f.log[i].msg # 0
                 PROVE  f.log[i].msg # f.log[j].msg
      OBVIOUS
    <3>1. CASE i \in 1 .. k /\ j \in 1 .. k
      BY <1>2, <1>5, <3>1, SMTT(30)
    <3>2. CASE i = k + 1 /\ j \in 1 .. k
      BY <1>2, <1>3, <3>2
    <3>3. CASE i \in 1 .. k /\ j = k + 1
      BY <1>2, <1>3, <3>3
    <3> QED
      BY <1>7, <3>1, <3>2, <3>3
  <2>2. \A i \in 1 .. k + 1, j \in 1 .. Len(d.queue) : f.log[i].msg # d.queue[j]
    <3> SUFFICES ASSUME NEW i \in 1 .. k + 1, NEW j \in 1 .. Len(d.queue) PROVE f.log[i].msg # d.queue[j]
      OBVIOUS
    <3>1. CASE i \in 1 .. k
      BY <1>2, <1>5, <3>1
    <3>2. CASE i = k + 1
      BY <1>2, <1>4, <3>2
    <3> QED
      BY <1>7, <3>1, <3>2
  <2> QED
    BY <1>1, <1>5, <1>6, <2>1, <2>2 DEF Distinct
<1>10. Present(f, m + 1)
  <2>1. k + 1 \in 1 .. k + 1
    BY <1>1
  <2> QED
    BY <1>1, <1>2, <2>1 DEF Present
<1>11. ASSUME NEW x, Present(d, x) PROVE Present(f, x)
  <2>1. \A i \in 1 .. k : i \in 1 .. k + 1
    BY <1>1
  <2> QED
    BY <1>1, <1>2, <1>4, <1>6, <1>11, <2>1 DEF Present, k
<1> QED
  BY <1>8, <1>9, <1>10, <1>11

\* A message that is put into the queue.
LEMMA QueuedKeeps ==
    ASSUME NEW d \in Sessions, NEW f \in Sessions, NEW m \in Nat, Distinct(d), Known(d, m),
           f.log = d.log, Len(f.queue) = Len(d.queue) + 1, f.queue[Len(d.queue) + 1] = m + 1,
           \A i \in 1 .. Len(d.queue) : f.queue[i] = d.queue[i]
    PROVE  /\ Distinct(f) /\ Known(f, m + 1) /\ Present(f, m + 1)
           /\ \A x : Present(d, x) => Present(f, x)
<1> DEFINE k == Len(d.queue)
<1>1. k \in Nat /\ Len(f.queue) = k + 1 /\ f.queue[k + 1] = m + 1
  BY LogFacts
<1>2. \A i \in 1 .. k : f.queue[i] = d.queue[i] /\ d.queue[i] <= m /\ d.queue[i] \in Nat
  BY LogFacts DEF Known, Messages
<1>3. \A i \in 1 .. Len(d.log) : d.log[i].msg <= m /\ d.log[i].msg \in Nat /\ f.log[i] = d.log[i]
  BY LogFacts DEF Known
<1>4. /\ \A i, j \in 1 .. Len(d.log) : i # j /\ d.log[i].msg # 0 => d.log[i].msg # d.log[j].msg
      /\ \A i, j \in 1 .. k : i # j => d.queue[i] # d.queue[j]
      /\ \A i \in 1 .. Len(d.log), j \in 1 .. k : d.log[i].msg # d.queue[j]
  BY DEF Distinct
<1>5. Len(f.log) = Len(d.log)
  OBVIOUS
<1> HIDE DEF k
<1>6. \A i \in 1 .. k + 1 : i = k + 1 \/ i \in 1 .. k
  BY <1>1
<1>7. Known(f, m + 1)
  <2>1. \A i \in 1 .. k + 1 : f.queue[i] <= m + 1
    BY <1>1, <1>2, <1>6
  <2>2. \A i \in 1 .. Len(d.log) : f.log[i].msg <= m + 1
    BY <1>3
  <2> QED
    BY <1>1, <1>5, <2>1, <2>2 DEF Known
<1>8. Distinct(f)
  <2>1. \A i, j \in 1 .. k + 1 : i # j => f.queue[i] # f.queue[j]
    <3> SUFFICES ASSUME NEW i \in 1 .. k + 1, NEW j \in 1 .. k + 1, i # j PROVE f.queue[i] # f.queue[j]
      OBVIOUS
    <3>1. CASE i \in 1 .. k /\ j \in 1 .. k
      BY <1>2, <1>4, <3>1
    <3>2. CASE i = k + 1 /\ j \in 1 .. k
      BY <1>1, <1>2, <3>2
    <3>3. CASE i \in 1 .. k /\ j = k + 1
      BY <1>1, <1>2, <3>3, SMTT(30)
    <3> QED
      BY <1>6, <3>1, <3>2, <3>3
  <2>2. \A i \in 1 .. Len(d.log), j \in 1 .. k + 1 : f.log[i].msg # f.queue[j]
    <3> SUFFICES ASSUME NEW i \in 1 .. Len(d.log), NEW j \in 1 .. k + 1 PROVE f.log[i].msg # f.queue[j]
      OBVIOUS
    <3>1. CASE j \in 1 .. k
      BY <1>2, <1>3, <1>4, <3>1
    <3>2. CASE j = k + 1
      BY <1>1, <1>3, <3>2
    <3> QED
      BY <1>6, <3>1, <3>2
  <2> QED
    BY <1>1, <1>3, <1>4, <1>5, <2>1, <2>2 DEF Distinct
<1>9. Present(f, m + 1)
  <2>1. k + 1 \in 1 .. k + 1
    BY <1>1
  <2> QED
    BY <1>1, <2>1 DEF Present
<1>10. ASSUME NEW x, Present(d, x) PROVE Present(f, x)
  <2>1. \A i \in 1 .. k : i \in 1 .. k + 1
    BY <1>1
  <2> QED
    BY <1>1, <1>2, <1>3, <1>5, <1>10, <2>1 DEF Present, k
<1> QED
  BY <1>7, <1>8, <1>9, <1>10

\* A message that is taken out of the queue.
LEMMA WithdrawnKeeps ==
    ASSUME TypeInv, NEW n \in Messages, WithdrawQueuedMessage(n), Distinct(db)
    PROVE  /\ Distinct(db') /\ \A m \in Nat : Known(db, m) => Known(db', m)
           /\ \A x : Present(db, x) => x = n \/ Present(db', x)
<1>1. PICK i \in 1 .. Len(db.queue) :
                /\ db.queue[i] = n
                /\ \A j \in 1 .. Len(db'.queue) : db'.queue[j] = db.queue[IF j < i THEN j ELSE j + 1]
  BY WithdrawDoes
<1> DEFINE q == db'.queue
           k == Len(q)
           from(j) == IF j < i THEN j ELSE j + 1
<1>2. k \in Nat /\ Len(db.queue) = k + 1 /\ db'.log = db.log
  BY WithdrawDoes
<1>3. \A j \in 1 .. k : q[j] = db.queue[from(j)]
  BY <1>1
<1> HIDE DEF q, k
<1>4. \A j \in 1 .. k : from(j) \in 1 .. k + 1
  BY <1>2
<1>5. \A j, l \in 1 .. k : j # l => from(j) # from(l)
  BY <1>1, <1>2
<1>6. \A l \in 1 .. k + 1 : l = i \/ \E j \in 1 .. k : from(j) = l
  <2> SUFFICES ASSUME NEW l \in 1 .. k + 1, l # i PROVE \E j \in 1 .. k : from(j) = l
    OBVIOUS
  <2>1. CASE l < i
    <3>1. l \in 1 .. k /\ from(l) = l
      BY <1>1, <1>2, <2>1
    <3> QED
      BY <3>1
  <2>2. CASE ~(l < i)
    <3>1. l - 1 \in 1 .. k /\ from(l - 1) = l
      BY <1>1, <1>2, <2>2
    <3> QED
      BY <3>1
  <2> QED
    BY <2>1, <2>2
<1> HIDE DEF from
<1>7. Distinct(db')
  <2>1. /\ \A h, j \in 1 .. Len(db.log) : h # j /\ db.log[h].msg # 0 => db.log[h].msg # db.log[j].msg
        /\ \A h, j \in 1 .. k + 1 : h # j => db.queue[h] # db.queue[j]
        /\ \A h \in 1 .. Len(db.log), j \in 1 .. k + 1 : db.log[h].msg # db.queue[j]
    BY <1>2 DEF Distinct
  <2>2. ASSUME NEW j \in 1 .. k, NEW l \in 1 .. k, j # l PROVE q[j] # q[l]
    BY <1>3, <1>4, <1>5, <2>1, <2>2
  <2>3. \A h \in 1 .. Len(db.log), j \in 1 .. k : db.log[h].msg # q[j]
    BY <1>3, <1>4, <2>1
  <2> QED
    BY <1>2, <2>1, <2>2, <2>3 DEF Distinct, q, k
<1>8. ASSUME NEW m \in Nat, Known(db, m) PROVE Known(db', m)
  BY <1>2, <1>3, <1>4, <1>8 DEF Known, q, k
<1>9. ASSUME NEW x, Present(db, x), x # n PROVE Present(db', x)
  <2>1. CASE \E l \in 1 .. Len(db.log) : db.log[l].msg = x
    BY <1>2, <2>1 DEF Present
  <2>2. CASE \E l \in 1 .. k + 1 : db.queue[l] = x
    <3>1. PICK l \in 1 .. k + 1 : db.queue[l] = x
      BY <2>2
    <3>2. l # i
      BY <1>1, <1>9, <3>1
    <3>3. PICK j \in 1 .. k : from(j) = l
      BY <1>6, <3>2
    <3>4. q[j] = x
      BY <1>3, <3>1, <3>3
    <3> QED
      BY <3>4 DEF Present, q, k
  <2> QED
    BY <1>2, <1>9, <2>1, <2>2 DEF Present
<1> QED
  BY <1>7, <1>8, <1>9

LEMMA MessagesKept == ASSUME TypeInv, MessagesInv, [Next]_vars, TypeInv' PROVE MessagesInv'
<1>1. db \in Sessions /\ db' \in Sessions /\ said \in Nat
  BY DEF TypeInv
\* Most steps leave the messages where they are.
<1>2. ASSUME Adds(db, db'), slips \subseteq slips', said' = said, withdrawn' = withdrawn PROVE MessagesInv'
  <2>1. Distinct(db') /\ Known(db', said') /\ \A x : Present(db, x) => Present(db', x)
    BY <1>1, <1>2, AddsFacts DEF MessagesInv
  <2> QED
    BY <1>2, <2>1 DEF MessagesInv
<1>3. ASSUME NEW w \in Places, RunStep(w) \/ Aborts(w) PROVE MessagesInv'
  <2>1. said' = said /\ withdrawn' = withdrawn
    BY <1>3, StepCases
  <2>2. CASE Adds(db, db') /\ slips \subseteq slips'
    BY <1>2, <2>1, <2>2
  <2>3. ASSUME NEW n \in 0 .. Len(db.queue), db' = DrainedTo(n), slips \subseteq slips',
               n = Len(db.queue) \/ "torn" \in slips'
        PROVE  MessagesInv'
    <3>1. Distinct(db') /\ Known(db', said')
      BY <1>1, <2>1, <2>3, DrainedKeeps DEF MessagesInv
    <3>2. n = Len(db.queue) => \A x : Present(db, x) => Present(db', x)
      BY <2>3, DrainedKeeps DEF MessagesInv
    <3> QED
      BY <2>1, <2>3, <3>1, <3>2 DEF MessagesInv
  <2> QED
    BY <1>3, <2>2, <2>3, StepAdds
<1>4. ASSUME NEW steer \in BOOLEAN, Enqueue(steer) PROVE MessagesInv'
  <2>1. /\ said' = said + 1 /\ withdrawn' = withdrawn /\ slips \subseteq slips' /\ db'.log = db.log
        /\ Len(db'.queue) = Len(db.queue) + 1 /\ db'.queue[Len(db.queue) + 1] = said + 1
        /\ \A i \in 1 .. Len(db.queue) : db'.queue[i] = db.queue[i]
    BY <1>4, EnqueueDoes
  <2>2. Distinct(db) /\ Known(db, said)
    BY DEF MessagesInv
  <2>3. Distinct(db') /\ Known(db', said + 1) /\ Present(db', said + 1) /\ \A x : Present(db, x) => Present(db', x)
    BY <1>1, <2>1, <2>2, QueuedKeeps
  <2>4. \A n \in 1 .. said + 1 : n = said + 1 \/ n \in 1 .. said
    BY <1>1
  <2> QED
    BY <2>1, <2>3, <2>4 DEF MessagesInv
<1>5. CASE SubmitUserMessage
  <2>1. /\ SubmitRow \in Sessions /\ HeardRow \in Sessions /\ HeardRow.queue = SubmitRow.queue
        /\ Len(HeardRow.log) = Len(SubmitRow.log) + 1
        /\ HeardRow.log[Len(SubmitRow.log) + 1] = User(said + 1)
        /\ \A i \in 1 .. Len(SubmitRow.log) : HeardRow.log[i] = SubmitRow.log[i]
        /\ db' \in {SubmitRow, HeardRow, WithStatus(HeardRow, "running")}
        /\ withdrawn' = withdrawn
        /\ said' = IF db'.log # <<>> /\ Last(db'.log).msg = said + 1 THEN said + 1 ELSE said
    BY <1>5, SubmitDoes
  <2>2. slips \subseteq slips'
    BY <1>5, SubmitDoes DEF Goes, Died
  <2>3. Adds(db, SubmitRow)
    BY <1>1, AnswersAdd, AddsSame DEF SubmitRow
  <2>4. Distinct(SubmitRow) /\ Known(SubmitRow, said) /\ \A x : Present(db, x) => Present(SubmitRow, x)
    BY <1>1, <2>1, <2>3, AddsFacts DEF MessagesInv
  <2>5. CASE db' = SubmitRow
    <3>1. Len(db'.log) \in Nat /\ (db'.log # << >> => Len(db'.log) \in 1 .. Len(db'.log))
      BY <1>1, LogFacts
    <3>2. db'.log # << >> => Last(db'.log).msg <= said /\ Last(db'.log).msg \in Nat
      BY <1>1, <2>4, <2>5, <3>1, LogFacts DEF Known, Last
    <3>3. said' = said
      BY <1>1, <2>1, <3>2
    <3> QED
      BY <1>2, <2>1, <2>2, <2>3, <2>5, <3>3
  <2>6. CASE db' # SubmitRow
    <3>1. User(said + 1).msg = said + 1
      BY EntryFacts
    <3>2. /\ Distinct(HeardRow) /\ Known(HeardRow, said + 1) /\ Present(HeardRow, said + 1)
          /\ \A x : Present(SubmitRow, x) => Present(HeardRow, x)
      BY <1>1, <2>1, <2>4, <3>1, HeardKeeps
    <3>3. db'.log = HeardRow.log /\ db'.queue = HeardRow.queue
      BY <2>1, <2>6, WithStatusFacts DEF Statuses
    <3>4. said' = said + 1
      <4>1. Len(SubmitRow.log) + 1 \in 1 .. Len(HeardRow.log) /\ Len(HeardRow.log) # 0
        BY <2>1, LogFacts
      <4>2. HeardRow.log # << >> /\ Last(HeardRow.log).msg = said + 1
        BY <2>1, <3>1, <4>1, LogFacts DEF Last
      <4> QED
        BY <2>1, <3>3, <4>2
    <3>7. /\ Distinct(HeardRow) => Distinct(db')
          /\ Known(HeardRow, said + 1) => Known(db', said + 1)
          /\ \A x : Present(HeardRow, x) => Present(db', x)
      BY <3>3 DEF Distinct, Known, Present
    <3>5. Distinct(db') /\ Known(db', said + 1) /\ Present(db', said + 1) /\ \A x : Present(db, x) => Present(db', x)
      BY <2>4, <3>2, <3>7
    <3>6. \A n \in 1 .. said + 1 : n = said + 1 \/ n \in 1 .. said
      BY <1>1
    <3> QED
      BY <2>1, <2>2, <3>4, <3>5, <3>6 DEF MessagesInv
  <2> QED
    BY <2>5, <2>6
<1>6. ASSUME NEW n \in Messages, WithdrawQueuedMessage(n) PROVE MessagesInv'
  <2>1. UNCHANGED <<said, slips>> /\ withdrawn' = withdrawn \cup {n}
    BY <1>6, WithdrawDoes
  <2>2. Distinct(db') /\ Known(db', said) /\ \A x : Present(db, x) => x = n \/ Present(db', x)
    BY <1>1, <1>6, WithdrawnKeeps DEF MessagesInv
  <2> QED
    BY <2>1, <2>2 DEF MessagesInv
<1>7. ASSUME db' = db, UNCHANGED <<said, withdrawn, late>>, slips \subseteq slips' PROVE MessagesInv'
  BY <1>1, <1>2, <1>7, AddsSame
<1>8. CASE StopActive \/ Shutdown \/ StopTimesOut \/ Crash \/ UNCHANGED vars
  BY <1>7, <1>8 DEF StopActive, Shutdown, StopTimesOut, Crash, vars
<1>9. CASE StopSession
  <2>1. /\ UNCHANGED <<said, withdrawn, late>> /\ slips \subseteq slips'
        /\ \/ db' \in {StopRow, WithStatus(StopRow, "stopped")}
           \/ \E n \in 1 .. MaxRequests : db' = CancelledTo(db, n)
    BY <1>9, StopDoes DEF Goes, Died
  <2> QED
    BY <1>2, <2>1, StopAdds
<1>10. ASSUME NEW r \in Requests, NEW yes \in BOOLEAN, ResolveConfirmation(r, yes) PROVE MessagesInv'
  <2> DEFINE d == DecidedRow(r, yes)
             e == WithAnswers(d)
             f == WithStatus(e, "running")
  <2>1. UNCHANGED <<said, withdrawn, late>> /\ slips \subseteq slips' /\ db' \in {d, e, f}
    BY <1>10, ResolveDoes DEF Goes, Died
  <2>2. d \in Sessions /\ d.queue = db.queue /\ d.log = db.log /\ e \in Sessions
    BY <1>10, ResolveDoes
  <2>3. Adds(db, d)
    BY <1>1, <2>2, AddsSame
  <2>4. Adds(d, e)
    BY <2>2, AnswersAdd
  <2> HIDE DEF d, e
  <2>5. Adds(e, f) /\ f \in Sessions
    BY <2>2, StatusAdds, WithStatusFacts DEF Statuses
  <2> HIDE DEF f
  <2>6. Adds(db, e)
    BY <1>1, <2>2, <2>3, <2>4, AddsThen
  <2>7. Adds(db, f)
    BY <1>1, <2>2, <2>5, <2>6, AddsThen
  <2> QED
    BY <1>2, <2>1, <2>3, <2>6, <2>7
<1>11. Adds(db, Last(StartRows)) /\ \A i \in DOMAIN StartRows : Adds(db, StartRows[i])
  <2>1. Adds(db, db) /\ Adds(db, StopRow) /\ \A n : Adds(db, CancelledTo(db, n))
    BY <1>1, AddsSame, StopAdds
  <2>2. Adds(db, WithAnswers(db)) /\ WithAnswers(db) \in Sessions
    BY <1>1, AnswersAdd, AnswerFacts
  <2>3. Adds(db, WithStatus(db, "idle"))
    BY <1>1, StatusAdds DEF Statuses
  <2>4. Adds(db, StartedRow)
    <3>1. ASSUME NEW s \in Statuses PROVE Adds(db, WithStatus(WithAnswers(db), s))
      <4>1. WithStatus(WithAnswers(db), s) \in Sessions /\ Adds(WithAnswers(db), WithStatus(WithAnswers(db), s))
        BY <2>2, StatusAdds, WithStatusFacts
      <4> QED
        BY <1>1, <2>2, <4>1, AddsThen
    <3> QED
      BY <3>1 DEF StartedRow, Statuses
  <2>5. CASE db.status = "running"
    BY <2>1, <2>5, StartRowsFacts
  <2>6. CASE db.status # "running" /\ (db.status # "waiting" \/ Pending(db) # {})
    BY <2>1, <2>6, StartRowsFacts
  <2>7. CASE db.status = "waiting" /\ Pending(db) = {} /\ Ready(db)
    BY <2>1, <2>2, <2>4, <2>7, StartRowsFacts
  <2>8. CASE db.status = "waiting" /\ Pending(db) = {} /\ ~Ready(db)
    BY <2>1, <2>3, <2>8, StartRowsFacts
  <2> QED
    BY <2>5, <2>6, <2>7, <2>8
<1>12. CASE Start
  BY <1>2, <1>11, <1>12 DEF Start
<1>13. CASE StartDies
  BY <1>2, <1>11, <1>13 DEF StartDies
<1> QED
  BY <1>3, <1>4, <1>5, <1>6, <1>8, <1>9, <1>10, <1>12, <1>13, DomainRuns DEF Next

LEMMA MessagesStart == Init => MessagesInv
<1> SUFFICES ASSUME Init PROVE MessagesInv
  OBVIOUS
<1>1. Len(db.log) = 0 /\ Len(db.queue) = 0 /\ said = 0
  BY DEF Init
<1> QED
  BY <1>1 DEF MessagesInv, Distinct, Known

LEMMA FewCount ==
    ASSUME NEW S, \A x, y \in S : x = y
    PROVE  Cardinality(S) = IF S = {} THEN 0 ELSE 1
<1>1. CASE S = {}
  BY <1>1, FS_EmptySet
<1>2. CASE S # {}
  <2>1. PICK x : S = {x}
    BY <1>2
  <2> QED
    BY <1>2, <2>1, FS_Singleton
<1> QED
  BY <1>1, <1>2

LEMMA MessagesCount == TypeInv /\ MessagesInv => NothingLost
<1> SUFFICES ASSUME TypeInv, MessagesInv, NEW n \in 1 .. said, n \notin withdrawn
             PROVE  Times(n) <= 1 /\ ("torn" \notin slips => Times(n) = 1)
  BY DEF NothingLost
<1> DEFINE L == {i \in DOMAIN db.log : db.log[i].msg = n}
           Q == {i \in DOMAIN db.queue : db.queue[i] = n}
<1>1. DOMAIN db.log = 1 .. Len(db.log) /\ DOMAIN db.queue = 1 .. Len(db.queue) /\ n # 0
  BY LogFacts DEF TypeInv
<1>2. /\ \A x, y \in L : x = y
      /\ \A x, y \in Q : x = y
      /\ L = {} \/ Q = {}
      /\ "torn" \notin slips => L # {} \/ Q # {}
  BY <1>1, SMTT(30) DEF MessagesInv, Distinct, Present
<1>3. Times(n) = Cardinality(L) + Cardinality(Q)
  BY DEF Times
<1> HIDE DEF L, Q
<1>4. Cardinality(L) = (IF L = {} THEN 0 ELSE 1) /\ Cardinality(Q) = (IF Q = {} THEN 0 ELSE 1)
  BY <1>2, FewCount
<1> QED
  BY <1>2, <1>3, <1>4

-----------------------------------------------------------------------------
(* The status *)

\* The last assistant message has asked for approvals, and each request that is not
\* answered yet has a confirmation.
Waits(d) ==
    /\ LastAsked(d) # 0 /\ d.log[LastAsked(d)].asks # {}
    /\ \A r \in Missing(d) : d.conf[r] # "none"

StatusRow(d) ==
    /\ Pending(d) # {} => d.status \in {"waiting", "running"}
    /\ d.status = "waiting" => Waits(d)

\* Of what is in the queue, nothing was in time for the run to hear it.
Only(q, l) == \A i \in DOMAIN q : q[i] \in l
Heard(d) == d.status = "idle" => Only(d.queue, late)

StatusInv ==
    /\ StatusRow(db)
    /\ Heard(db) /\ (Run.at = "titling" => Only(db.queue, late))
    /\ proc # "down" /\ Pending(db) # {} => db.status = "waiting"
    /\ proc # "down" /\ db.status = "waiting" /\ "early" \notin slips => Pending(db) # {}
    /\ Active /\ Run.at # "ending" => db.status = "running"
    /\ Active /\ Run.at = "ending" /\ db.status = "running" => proc = "stopping"
    /\ ~Active /\ db.status = "running" => proc \in {"stopped", "down"}
    /\ Run.stop = "shutdown" => proc = "stopping"
    /\ Run.asks # {} => LastAsked(db) # 0 /\ db.log[LastAsked(db)].asks = Run.asks

StatusKept == "outlived" \notin slips => StatusInv

\* With every decision taken, whoever waits may go on.
LEMMA WaitsReady ==
    ASSUME NEW d \in Sessions, Waits(d), Pending(d) = {}
    PROVE  Ready(d)
<1>1. LastAsked(d) # 0 /\ d.log[LastAsked(d)].asks # {} /\ Missing(d) \subseteq Requests
  BY MissingFacts DEF Waits
<1>2. \A r \in Missing(d) : d.conf[r] # "none" /\ d.conf[r] # "pending"
  BY <1>1 DEF Waits, Pending
<1> QED
  BY <1>1, <1>2 DEF Ready

\* Who waits goes on waiting when something else than an assistant message is added.
LEMMA WaitsMore ==
    ASSUME NEW d \in Sessions, NEW f \in Sessions, Waits(d),
           \A r \in Requests : d.conf[r] # "none" => f.conf[r] # "none",
           \A i \in 1 .. Len(d.log) : f.log[i] = d.log[i],
           \/ Len(f.log) = Len(d.log)
           \/ Len(f.log) = Len(d.log) + 1 /\ f.log[Len(d.log) + 1].by # "assistant"
    PROVE  Waits(f)
<1> DEFINE m == LastAsked(d)
           k == Len(d.log)
<1>1. /\ k \in Nat /\ m \in 1 .. k /\ d.log[m].by = "assistant"
      /\ \A i \in m + 1 .. k : d.log[i].by # "assistant"
      /\ d.log[m].asks # {}
  BY LogFacts, LastAskedFacts DEF Waits
<1>2. Len(f.log) = k \/ (Len(f.log) = k + 1 /\ f.log[k + 1].by # "assistant")
  OBVIOUS
<1>3. \A i \in 1 .. k : f.log[i] = d.log[i]
  OBVIOUS
<1>4. LastAsked(d) # 0
  BY DEF Waits
<1>5. /\ Missing(d) \subseteq d.log[m].asks /\ Missing(d) \subseteq Requests
      /\ \A r \in d.log[m].asks :
           r \in Missing(d) <=> \A j \in m + 1 .. k : r \notin d.log[j].yes \cup d.log[j].no \cup d.log[j].results
  BY <1>4, MissingFacts
<1>6. \A r \in Missing(d) : d.conf[r] # "none"
  BY DEF Waits
<1> HIDE DEF m, k
<1>7. m \in 1 .. Len(f.log) /\ f.log[m] = d.log[m]
  BY <1>1, <1>2, <1>3
<1>8. ASSUME NEW i \in m + 1 .. Len(f.log) PROVE f.log[i].by # "assistant"
  <2>1. i \in m + 1 .. k \/ (i = k + 1 /\ Len(f.log) = k + 1)
    BY <1>1, <1>2
  <2>2. CASE i \in m + 1 .. k
    <3>1. i \in 1 .. k
      BY <1>1, <2>2
    <3> QED
      BY <1>1, <1>3, <2>2, <3>1
  <2>3. CASE i = k + 1 /\ Len(f.log) = k + 1
    <3>1. Len(f.log) # k
      BY <1>1, <2>3
    <3> QED
      BY <1>2, <2>3, <3>1
  <2> QED
    BY <2>1, <2>2, <2>3
<1>9. LastAsked(f) = m
  <2>1. f.log[m].by = "assistant"
    BY <1>1, <1>7
  <2> QED
    BY <1>7, <1>8, <2>1, LastAskedIs
<1>10. LastAsked(f) # 0 /\ f.log[LastAsked(f)].asks = d.log[m].asks
  BY <1>1, <1>7, <1>9
<1>11. ASSUME NEW r \in Missing(f) PROVE r \in Missing(d)
  <2>1. /\ r \in d.log[m].asks
        /\ \A j \in m + 1 .. Len(f.log) : r \notin f.log[j].yes \cup f.log[j].no \cup f.log[j].results
    <3>1. /\ Missing(f) \subseteq f.log[LastAsked(f)].asks
          /\ \A q \in f.log[LastAsked(f)].asks :
               q \in Missing(f) <=> \A j \in LastAsked(f) + 1 .. Len(f.log) :
                    q \notin f.log[j].yes \cup f.log[j].no \cup f.log[j].results
      BY <1>10, MissingFacts
    <3> QED
      BY <1>9, <1>10, <3>1
  <2>2. \A j \in m + 1 .. k : j \in m + 1 .. Len(f.log) /\ j \in 1 .. k
    BY <1>1, <1>2
  <2>3. \A j \in m + 1 .. k : r \notin d.log[j].yes \cup d.log[j].no \cup d.log[j].results
    BY <1>3, <2>1, <2>2
  <2> QED
    BY <1>5, <2>1, <2>3
<1>12. \A r \in Missing(f) : f.conf[r] # "none"
  BY <1>5, <1>6, <1>11
<1> QED
  BY <1>1, <1>10, <1>12 DEF Waits

\* f says the same as d, and asks for no more.
Milder(d, f) ==
    /\ f \in Sessions /\ f.status = d.status /\ f.queue = d.queue
    /\ Pending(f) \subseteq Pending(d) /\ (Waits(d) => Waits(f))

LEMMA MilderFacts ==
    ASSUME NEW d, NEW f, Milder(d, f)
    PROVE  (StatusRow(d) => StatusRow(f)) /\ (Heard(d) => Heard(f))
BY DEF Milder, StatusRow, Heard

LEMMA AnswersMilder == ASSUME NEW d \in Sessions PROVE Milder(d, WithAnswers(d))
<1> DEFINE f == WithAnswers(d)
<1>1. f \in Sessions /\ f.status = d.status /\ f.queue = d.queue /\ f.conf = d.conf
  BY AnswerFacts
<1>2. \/ f = d
      \/ /\ Len(f.log) = Len(d.log) + 1 /\ f.log[Len(d.log) + 1] = Answer(d)
         /\ \A i \in 1 .. Len(d.log) : f.log[i] = d.log[i]
  BY AnswerFacts
<1>3. Answer(d).by # "assistant"
  BY EntryFacts DEF Answer
<1> HIDE DEF f
<1>4. Waits(d) => Waits(f)
  BY <1>1, <1>2, <1>3, WaitsMore
<1>5. Pending(f) \subseteq Pending(d)
  BY <1>1 DEF Pending
<1> QED
  BY <1>1, <1>4, <1>5 DEF Milder, f

LEMMA CancelledMilder ==
    ASSUME NEW d \in Sessions
    PROVE  Milder(d, Cancelled(d)) /\ \A n : Milder(d, CancelledTo(d, n))
<1>1. ASSUME NEW f, f \in Sessions, f.status = d.status, f.queue = d.queue, f.log = d.log,
             \A r \in Requests : f.conf[r] = d.conf[r] \/ (f.conf[r] = "cancelled" /\ d.conf[r] = "pending")
      PROVE  Milder(d, f)
  <2>1. \A r \in Requests : d.conf[r] # "none" => f.conf[r] # "none"
    BY <1>1
  <2>2. Pending(f) \subseteq Pending(d)
    BY <1>1 DEF Pending
  <2>3. Waits(d) => Waits(f)
    BY <1>1, <2>1, WaitsMore
  <2> QED
    BY <1>1, <2>2, <2>3 DEF Milder
<1>2. Milder(d, Cancelled(d))
  BY <1>1, CancelledFacts
<1>3. ASSUME NEW n PROVE Milder(d, CancelledTo(d, n))
  BY <1>1, CancelledFacts
<1> QED
  BY <1>2, <1>3

LEMMA StopMilder ==
    ASSUME TypeInv
    PROVE  Milder(db, StopRow) /\ Pending(StopRow) = {} /\ (Pending(db) = {} => StopRow = db)
<1>1. db \in Sessions
  BY DEF TypeInv
<1>2. Cancelled(db) \in Sessions /\ Milder(db, Cancelled(db)) /\ Milder(db, db)
  BY <1>1, CancelledFacts, CancelledMilder DEF Milder
<1>3. Milder(Cancelled(db), WithAnswers(Cancelled(db)))
  BY <1>2, AnswersMilder
<1>4. Milder(db, WithAnswers(Cancelled(db)))
  BY <1>2, <1>3 DEF Milder
<1>5. Pending(StopRow) = {}
  <2>1. \A r \in Requests : StopRow.conf[r] # "pending"
    BY StopRowFacts
  <2> QED
    BY <2>1 DEF Pending
<1> QED
  BY <1>2, <1>4, <1>5 DEF StopRow

LEMMA DiedStatus ==
    ASSUME proc' = "down", runs' = [x \in Places |-> NoRun], StatusRow(db'), slips \subseteq slips',
           Heard(db'), late' = late
    PROVE  StatusInv'
<1>1. Run' = NoRun /\ ~Active' /\ proc' = "down"
  BY AllStopped DEF Run, Active, Places
<1>2. /\ StatusRow(db)'
      /\ Heard(db)'
  <2>1. StatusRow(db)' = StatusRow(db')
    BY DEF StatusRow, Pending, Waits, LastAsked, Missing
  <2>2. Heard(db)' = Heard(db')
    BY DEF Heard, Only
  <2> QED
    BY <2>1, <2>2
<1> QED
  BY <1>1, <1>2, RunTypes DEF StatusInv

\* What a step of the active run has to keep.
LEMMA GoesStatus ==
    ASSUME TypeInv, NEW r \in Runs, NEW slip, Goes("active", r, slip), StatusRow(db'),
           late' = late, Heard(db'), r.at = "titling" => Only(db'.queue, late),
           proc' # "down" /\ Pending(db') # {} => db'.status = "waiting",
           proc' # "down" /\ db'.status = "waiting" /\ "early" \notin slips' => Pending(db') # {},
           r # NoRun /\ r.at # "ending" => db'.status = "running",
           r # NoRun /\ r.at = "ending" /\ db'.status = "running" => proc' = "stopping",
           r = NoRun /\ db'.status = "running" => proc' \in {"stopped", "down"},
           r.stop = "shutdown" => proc' = "stopping",
           r.asks # {} => LastAsked(db') # 0 /\ db'.log[LastAsked(db')].asks = r.asks
    PROVE  StatusInv'
<1>1. "active" \in Places
  BY DEF Places
<1>2. Run' = r /\ (Active' <=> r # NoRun)
  BY <1>1, RunPut DEF Goes, Run, Active
<1>3. StatusRow(db)' /\ Heard(db)' /\ ((Run.at = "titling")' => Only(db.queue, late)')
  <2>1. StatusRow(db)' = StatusRow(db')
    BY DEF StatusRow, Pending, Waits, LastAsked, Missing
  <2>2. Heard(db)' = Heard(db')
    BY DEF Heard, Only
  <2>3. Only(db.queue, late)' = Only(db'.queue, late)
    BY DEF Only
  <2> QED
    BY <1>2, <2>1, <2>2, <2>3
<1>4. Pending(db)' = Pending(db') /\ LastAsked(db)' = LastAsked(db')
  BY DEF Pending, LastAsked
<1> QED
  BY <1>2, <1>3, <1>4 DEF StatusInv

LEMMA StepStatus ==
    ASSUME TypeInv, PlaceInv, StatusInv, NEW w \in Places, RunStep(w) \/ Aborts(w), "outlived" \notin slips
    PROVE  StatusInv'
<1>1. /\ Quiet(w) \/ Fails(w) \/ GoesIdle(w) \/ Asks(w) \/ Hears(w) \/ StepEnds(w)
      /\ late' = late
  BY StepCases
<1>0. late' = late
  BY <1>1
<1>2. proc # "down" /\ runs[w] # NoRun
  BY StepPlace
<1>3. w = "active" /\ runs[w] = Run /\ Active
  BY <1>2 DEF PlaceInv, Places, Run, Active
<1>4. db \in Sessions /\ Run \in Runs
  BY <1>3, RunField DEF TypeInv
<1>5. Run.at # "ending" => db.status = "running" /\ Pending(db) = {}
  BY <1>2, <1>3 DEF StatusInv
<1>6. \A r, slip : Goes(w, r, slip) => slips \subseteq slips' /\ (r # NoRun => proc' = proc) /\ (r = NoRun /\ proc = "stopping" => proc' = "stopped")
  BY <1>3 DEF Goes
<1>7. ASSUME Died(w), StatusRow(db'), Heard(db') PROVE StatusInv'
  BY <1>1, <1>7, DiedStatus DEF Died
<1>8. Ending \in Runs /\ Ending # NoRun /\ Ending.at = "ending" /\ Ending.stop = "none" /\ Ending.asks = {}
  BY RunTypes
<1>9. CASE Quiet(w)
  <2>1. PICK r \in Runs, slip \in SUBSET {"cut"} :
         /\ Goes(w, r, slip)
         /\ \/ r = NoRun /\ Run.at = "ending"
            \/ /\ Run.at \in {"acquiring", "preparing", "streaming", "retrying"}
               /\ r.at \in {"preparing", "streaming", "retrying", "titling"}
               /\ r.stop = Run.stop
               /\ r.asks # {} => r.at = "streaming" /\ r.asks = Run.asks
               /\ r.at = "titling" => db.queue = << >>
    BY <1>3, <1>9 DEF Quiet
  <2>2. db' = db
    BY <1>9 DEF Quiet
  <2>3. slips \subseteq slips' /\ (r # NoRun => proc' = proc) /\ (r = NoRun /\ proc = "stopping" => proc' = "stopped")
    BY <1>6, <2>1
  <2>4. CASE r = NoRun /\ Run.at = "ending"
    <3>1. db.status = "running" => proc' \in {"stopped", "down"}
      BY <1>3, <2>3, <2>4 DEF StatusInv
    <3>2. Heard(db') /\ (r.at = "titling" => Only(db'.queue, late))
      BY <2>2, <2>3, <2>4, RunTypes DEF StatusInv
    <3>3. proc' # "down" /\ Pending(db') # {} => db'.status = "waiting"
      BY <1>2, <2>2 DEF StatusInv
    <3>4. db'.status = "waiting" /\ "early" \notin slips' => Pending(db') # {}
      BY <1>2, <2>2, <2>3 DEF StatusInv
    <3>5. StatusRow(db')
      BY <2>2 DEF StatusInv
    <3>6. Goes("active", r, slip)
      BY <1>3, <2>1
    <3>7. r.stop = "none" /\ r.asks = {}
      BY <2>4, RunTypes
    <3> QED
      BY <2>2, <2>4, <3>1, <3>2, <3>3, <3>4, <3>5, <3>6, <3>7, <1>0, GoesStatus
  <2>5. CASE ~(r = NoRun /\ Run.at = "ending")
    <3>1. r # NoRun /\ r.at # "ending" /\ Run.at # "ending"
      BY <2>1, <2>5, RunTypes
    <3>2. db.status = "running" /\ Pending(db) = {} /\ proc' = proc
      BY <1>5, <2>3, <3>1
    <3>3. Heard(db') /\ (r.at = "titling" => Only(db'.queue, late))
      BY <2>1, <2>2, <2>5 DEF StatusInv, Only
    <3>4. StatusRow(db')
      BY <2>2 DEF StatusInv
    <3>5. r.stop = "shutdown" => proc' = "stopping"
      BY <2>1, <2>5, <3>2 DEF StatusInv
    <3>6. r.asks # {} => LastAsked(db') # 0 /\ db'.log[LastAsked(db')].asks = r.asks
      BY <2>1, <2>2, <2>5 DEF StatusInv
    <3>7. Goes("active", r, slip)
      BY <1>3, <2>1
    <3> QED
      BY <2>2, <3>1, <3>2, <3>3, <3>4, <3>5, <3>6, <3>7, <1>0, GoesStatus
  <2> QED
    BY <2>4, <2>5
<1>10. CASE Fails(w)
  <2>1. PICK text \in BOOLEAN, status \in {"error", AbortedStatus(Run)} :
           /\ \/ Died(w) /\ db' \in {Truncated(text), WithStatus(Truncated(text), status)}
              \/ /\ Goes(w, Ending, TextBuries(text) \cup Dropped(Run))
                 /\ db' = WithStatus(Truncated(text), status)
           /\ WithStatus(Truncated(text), status) \in Sessions
           /\ WithStatus(Truncated(text), status).status = status
           /\ WithStatus(Truncated(text), status).conf = db.conf
    BY <1>3, <1>10, FailsDoes
  <2>2. Run.at # "ending"
    BY <1>3, <1>10 DEF Fails
  <2>3. db.status = "running" /\ Pending(db) = {}
    BY <1>5, <2>2
  <2>4. status \in {"error", "stopped"} \/ (status = "running" /\ Run.stop = "shutdown")
    BY <2>3 DEF AbortedStatus
  <2>5. status = "running" => proc = "stopping"
    BY <2>4 DEF StatusInv
  <2>6. Truncated(text).status = "running" /\ Truncated(text).conf = db.conf
    BY <2>3, TruncatedFacts
  <2>7. db'.status \in {"error", "stopped", "running"} /\ Pending(db') = {}
    BY <2>1, <2>3, <2>4, <2>6 DEF Pending
  <2>8. StatusRow(db') /\ Heard(db')
    BY <2>7 DEF StatusRow, Heard
  <2>9. CASE Goes(w, Ending, TextBuries(text) \cup Dropped(Run)) /\ db' = WithStatus(Truncated(text), status)
    <3>1. proc' = proc /\ (db'.status = "running" => proc = "stopping")
      BY <1>6, <1>8, <2>1, <2>5, <2>9
    <3> QED
      BY <1>3, <1>8, <2>7, <2>8, <2>9, <3>1, <1>0, GoesStatus
  <2> QED
    BY <1>7, <2>1, <2>8, <2>9
<1>11. CASE GoesIdle(w)
  <2>1. db' = WithStatus(db, "idle") /\ (Goes(w, Ending, {}) \/ Died(w))
    BY <1>11, FinishIdleDoes DEF GoesIdle
  <2>2. Run.at \in {"titling", "streaming"} /\ (Run.at = "streaming" => db.queue = << >>)
    BY <1>3, <1>11 DEF GoesIdle
  <2>3. Pending(db) = {}
    BY <1>5, <2>2
  <2>4. db'.status = "idle" /\ db'.queue = db.queue /\ Pending(db') = {}
    BY <1>4, <2>1, <2>3, WithStatusFacts DEF Statuses, Pending
  <2>5. StatusRow(db') /\ Heard(db')
    BY <2>2, <2>4 DEF StatusRow, Heard, Only, StatusInv
  <2>6. CASE Goes(w, Ending, {})
    <3>1. slips \subseteq slips'
      BY <1>6, <2>6
    <3> QED
      BY <1>3, <1>8, <2>4, <2>5, <2>6, <3>1, <1>0, GoesStatus
  <2> QED
    BY <1>7, <2>1, <2>5, <2>6
<1>12. CASE Asks(w)
  <2> DEFINE d == AsksTo(Run, MaxRequests)
             end == WithStatus(d, "waiting")
  <2>1. \/ Died(w) /\ (db' = end \/ \E n \in 0 .. MaxRequests : db' = AsksTo(Run, n))
        \/ Goes(w, Ending, {}) /\ db' = end
    BY <1>3, <1>12, FinishWaitingDoes DEF Asks
  <2>2. db.status = "running" /\ Run.asks # {} /\ Run.asks \subseteq Requests
    BY <1>3, <1>5, <1>12, RunField DEF Asks
  <2>3. \A n : AsksTo(Run, n) \in Sessions /\ AsksTo(Run, n).status = "running" /\ AsksTo(Run, n).log = db.log
    BY <2>2, AsksToFacts
  <2>4. \A n : StatusRow(AsksTo(Run, n)) /\ Heard(AsksTo(Run, n))
    BY <2>3 DEF StatusRow, Heard
  <2>5. /\ d \in Sessions /\ d.log = db.log
        /\ \A q \in Requests : d.conf[q] = IF q \in Run.asks /\ q <= MaxRequests THEN "pending" ELSE db.conf[q]
    BY <2>3, AsksToFacts
  <2>6. \A q \in Run.asks : q <= MaxRequests /\ q \in Requests
    BY <2>2, AgentAssumption DEF Requests
  <2>7. \A q \in Run.asks : d.conf[q] = "pending"
    BY <2>5, <2>6
  <2> HIDE DEF d
  <2>8. end \in Sessions /\ end.status = "waiting" /\ end.log = db.log /\ end.conf = d.conf
    BY <2>5, WithStatusFacts DEF Statuses
  <2> HIDE DEF end
  <2>9. LastAsked(db) # 0 /\ db.log[LastAsked(db)].asks = Run.asks
    BY <2>2 DEF StatusInv
  <2>10. LastAsked(end) = LastAsked(db) /\ Missing(end) = Missing(db)
    BY <2>8 DEF LastAsked, Missing
  <2>11. Missing(db) \subseteq Run.asks
    BY <1>4, <2>9, MissingFacts
  <2>12. Waits(end)
    BY <2>2, <2>7, <2>8, <2>9, <2>10, <2>11 DEF Waits
  <2>13. Pending(end) # {} /\ StatusRow(end) /\ Heard(end)
    BY <2>2, <2>6, <2>7, <2>8, <2>12 DEF StatusRow, Heard, Pending
  <2>14. CASE Goes(w, Ending, {}) /\ db' = end
    BY <1>3, <1>8, <2>8, <2>13, <2>14, <1>0, GoesStatus
  <2> QED
    BY <1>7, <2>1, <2>4, <2>13, <2>14
<1>13. CASE Hears(w)
  <2> DEFINE end == DrainedTo(Len(db.queue))
             slip == Dropped(runs[w]) \cup (IF db.queue # <<>> THEN Buries(db) ELSE {})
             r == Called(end, NextRound(runs[w]))
  <2>1. \/ Died(w) /\ \E n \in 0 .. Len(db.queue) : db' = DrainedTo(n)
        \/ Goes(w, r, slip) /\ db' = end
    BY <1>13, DrainDoes DEF Hears
  <2>2. db.status = "running" /\ Pending(db) = {}
    BY <1>3, <1>5, <1>13 DEF Hears
  <2>3. \A n \in 0 .. Len(db.queue) : DrainedTo(n).status = "running" /\ Pending(DrainedTo(n)) = {}
    BY <2>2, DrainedFacts DEF Pending
  <2>4. \A n \in 0 .. Len(db.queue) : StatusRow(DrainedTo(n)) /\ Heard(DrainedTo(n))
    BY <2>3 DEF StatusRow, Heard
  <2>5. end \in Sessions /\ end.status = "running" /\ Pending(end) = {} /\ StatusRow(end) /\ Heard(end)
    BY <2>3, <2>4, DrainsTo
  <2>6. r \in Runs /\ r.at = "preparing" /\ r.stop = "none" /\ r.asks = {} /\ r # NoRun
    BY <2>5, CalledTypes, RunTypes
  <2> HIDE DEF r, slip, end
  <2>7. CASE Goes(w, r, slip) /\ db' = end
    BY <1>3, <2>5, <2>6, <2>7, <1>0, GoesStatus
  <2> QED
    BY <1>7, <2>1, <2>4, <2>7
<1>14. CASE StepEnds(w)
  <2>1. PICK n \in 0 .. MaxRequests - Cardinality(AskedBefore) :
                \/ Died(w) /\ db' \in {RanRow(w), StepRow(w, n)}
                \/ Goes(w, StepRun(w, n), {}) /\ db' = StepRow(w, n)
    BY <1>14, StepEndsDoes
  <2>2. Run.at = "streaming" /\ Run.stop = "none"
    BY <1>3, <1>14, StepEndsDoes
  <2>3. db.status = "running" /\ Pending(db) = {}
    BY <1>5, <2>2
  <2>4. /\ StepRow(w, n) \in Sessions /\ StepRow(w, n).status = "running" /\ Pending(StepRow(w, n)) = {}
        /\ RanRow(w) \in Sessions /\ RanRow(w).status = "running" /\ Pending(RanRow(w)) = {}
    BY <2>3, StepRowFacts, RanFacts DEF Pending
  <2>5. db'.status = "running" /\ Pending(db') = {}
    BY <2>1, <2>4
  <2>6. StatusRow(db') /\ Heard(db')
    BY <2>5 DEF StatusRow, Heard
  <2> DEFINE r == StepRun(w, n)
             f == StepRow(w, n)
  <2>7. r \in Runs /\ r.at = "streaming" /\ r.stop = "none" /\ r.asks = Fresh(n)
    <3>1. runs[w] \in Runs
      BY RunField
    <3>2. r.at = runs[w].at /\ r.stop = runs[w].stop /\ r.asks = Fresh(n)
      BY <3>1 DEF StepRun, Runs
    <3> QED
      BY <1>3, <2>2, <3>2, StepRowFacts
  <2>8. r.asks # {} => LastAsked(f) # 0 /\ f.log[LastAsked(f)].asks = r.asks
    <3> SUFFICES ASSUME Fresh(n) # {} PROVE LastAsked(f) # 0 /\ f.log[LastAsked(f)].asks = Fresh(n)
      BY <2>7
    <3> DEFINE k == Len(RanRow(w).log)
    <3>1. Assistant(Fresh(n)).asks = Fresh(n) /\ Assistant({}).asks = {} /\ Assistant(Fresh(n)).by = "assistant"
      BY EntryFacts
    <3>2. Assistant(Fresh(n)) # Assistant({})
      BY <3>1
    <3>3. Len(f.log) = k + 1 /\ f.log[k + 1] = Assistant(Fresh(n))
      BY <3>2, StepRowFacts
    <3>4. k \in Nat
      BY <2>4, LogFacts
    <3> HIDE DEF k, f
    <3>5. k + 1 \in 1 .. Len(f.log) /\ \A i \in k + 1 + 1 .. Len(f.log) : FALSE
      BY <3>3, <3>4
    <3>6. f \in Sessions
      BY <2>4 DEF f
    <3>7. f.log[k + 1].by = "assistant"
      BY <3>1, <3>3
    <3>8. LastAsked(f) = k + 1
      BY <3>5, <3>6, <3>7, LastAskedIs
    <3> QED
      BY <3>1, <3>3, <3>4, <3>8
  <2> HIDE DEF r, f
  <2>9. CASE Goes(w, r, {}) /\ db' = f
    <3>1. r # NoRun
      BY <2>7, RunTypes
    <3> QED
      BY <1>3, <2>5, <2>6, <2>7, <2>8, <2>9, <3>1, <1>0, GoesStatus
  <2> QED
    BY <1>7, <2>1, <2>6, <2>9 DEF r, f
<1> QED
  BY <1>1, <1>9, <1>10, <1>11, <1>12, <1>13, <1>14

\* A step that leaves the status, the confirmations and the conversation alone, and
\* of the active run what the status is about.
LEMMA SameStatus ==
    ASSUME TypeInv, StatusInv, db' \in Sessions, db'.status = db.status, db'.conf = db.conf, db'.log = db.log,
           slips \subseteq slips', Run'.at = Run.at, Run'.asks = Run.asks, (Run' = NoRun) = (Run = NoRun),
           db.status = "idle" /\ Only(db.queue, late) => Only(db'.queue, late'),
           Run.at = "titling" /\ Only(db.queue, late) => Only(db'.queue, late'),
           proc' # "down" => proc # "down", Run'.stop = "shutdown" => proc' = "stopping",
           proc = "stopping" => proc' = "stopping",
           ~Active /\ db.status = "running" => proc' \in {"stopped", "down"}
    PROVE  StatusInv'
<1>1. Pending(db') = Pending(db) /\ LastAsked(db') = LastAsked(db) /\ Missing(db') = Missing(db)
  BY DEF Pending, LastAsked, Missing
<1>2. Waits(db') = Waits(db)
  BY <1>1 DEF Waits
<1>3. StatusRow(db') = StatusRow(db)
  BY <1>1, <1>2 DEF StatusRow
<1>4. StatusRow(db)' = StatusRow(db') /\ Pending(db)' = Pending(db') /\ LastAsked(db)' = LastAsked(db')
  BY DEF StatusRow, Pending, Waits, LastAsked, Missing
<1>5. Heard(db)' /\ (Run'.at = "titling" => Only(db.queue, late)')
  <2>1. Only(db.queue, late)' = Only(db'.queue, late')
    BY DEF Only
  <2>2. Heard(db)' = (db'.status = "idle" => Only(db'.queue, late'))
    BY DEF Heard, Only
  <2> QED
    BY <2>1, <2>2 DEF StatusInv, Heard
<1>6. Active' = Active
  BY DEF Active
<1> QED
  BY <1>1, <1>3, <1>4, <1>5, <1>6 DEF StatusInv

LEMMA SubmitStatus ==
    ASSUME TypeInv, PlaceInv, StatusInv, SubmitUserMessage
    PROVE  StatusInv'
<1>0. late' = late
  BY DEF SubmitUserMessage
<1>1. /\ Served /\ ~Active /\ MaySubmit
      /\ SubmitRow \in Sessions /\ SubmitRow.status = db.status /\ SubmitRow.queue = db.queue
      /\ SubmitRow.conf = db.conf
      /\ HeardRow \in Sessions /\ HeardRow.status = db.status /\ HeardRow.queue = db.queue
      /\ HeardRow.conf = db.conf /\ Len(HeardRow.log) = Len(SubmitRow.log) + 1
      /\ HeardRow.log[Len(SubmitRow.log) + 1] = User(said + 1)
      /\ \A i \in 1 .. Len(SubmitRow.log) : HeardRow.log[i] = SubmitRow.log[i]
      /\ \/ Died("active") /\ db' \in {SubmitRow, HeardRow, WithStatus(HeardRow, "running")}
         \/ Goes("active", Started, Buries(SubmitRow)) /\ db' = WithStatus(HeardRow, "running")
  BY SubmitDoes
<1>2. Pending(db) = {}
  BY <1>1 DEF Served, MaySubmit, StatusInv
<1>3. Milder(db, SubmitRow)
  <2>1. db \in Sessions
    BY DEF TypeInv
  <2>2. Milder(db, db)
    BY <2>1 DEF Milder
  <2> QED
    BY <2>1, <2>2, AnswersMilder DEF SubmitRow
<1>4. Milder(SubmitRow, HeardRow)
  <2>1. User(said + 1).by # "assistant"
    BY EntryFacts
  <2>2. HeardRow.log[Len(SubmitRow.log) + 1].by # "assistant"
    BY <1>1, <2>1
  <2>3. Waits(SubmitRow) => Waits(HeardRow)
    BY <1>1, <2>2, WaitsMore
  <2>4. Pending(HeardRow) \subseteq Pending(SubmitRow)
    BY <1>1 DEF Pending
  <2> QED
    BY <1>1, <2>3, <2>4 DEF Milder
<1>5. StatusRow(SubmitRow) /\ StatusRow(HeardRow) /\ Heard(SubmitRow) /\ Heard(HeardRow)
  BY <1>3, <1>4, MilderFacts DEF StatusInv
<1> DEFINE f == WithStatus(HeardRow, "running")
<1>6. f.status = "running" /\ f.conf = db.conf
  BY <1>1, WithStatusFacts DEF Statuses
<1>7. Pending(f) = {}
  BY <1>2, <1>6 DEF Pending
<1>8. StatusRow(f) /\ Heard(f)
  BY <1>6, <1>7 DEF StatusRow, Heard
<1> HIDE DEF f
<1>9. CASE Died("active") /\ db' \in {SubmitRow, HeardRow, f}
  <2>1. StatusRow(db') /\ Heard(db')
    BY <1>5, <1>8, <1>9
  <2> QED
    BY <1>9, <2>1, <1>0, DiedStatus DEF Died
<1>10. CASE Goes("active", Started, Buries(SubmitRow)) /\ db' = f
  BY <1>6, <1>7, <1>8, <1>10, RunTypes, <1>0, GoesStatus
<1> QED
  BY <1>1, <1>9, <1>10 DEF f

LEMMA StopSessionStatus ==
    ASSUME TypeInv, PlaceInv, StatusInv, StopSession
    PROVE  StatusInv'
<1>0. late' = late
  BY DEF StopSession, OfRuns
<1>1. /\ Served /\ ~Active
      /\ \/ /\ Died("active")
            /\ \/ db' \in {StopRow, WithStatus(StopRow, "stopped")}
               \/ \E n \in 1 .. MaxRequests : db' = CancelledTo(db, n)
         \/ Goes("active", NoRun, {}) /\ db' = WithStatus(StopRow, "stopped")
  BY StopDoes
<1>2. db \in Sessions /\ StopRow \in Sessions
  BY StopRowFacts DEF TypeInv
<1> DEFINE f == WithStatus(StopRow, "stopped")
<1>3. f.status = "stopped" /\ f.conf = StopRow.conf
  BY <1>2, WithStatusFacts DEF Statuses
<1>4. Pending(f) = {}
  BY <1>3, StopMilder DEF Pending
<1>5. StatusRow(f) /\ Heard(f)
  BY <1>3, <1>4 DEF StatusRow, Heard
<1>6. StatusRow(StopRow) /\ Heard(StopRow)
  BY StopMilder, MilderFacts DEF StatusInv
<1>7. \A n : StatusRow(CancelledTo(db, n)) /\ Heard(CancelledTo(db, n))
  BY <1>2, CancelledMilder, MilderFacts DEF StatusInv
<1> HIDE DEF f
<1>8. CASE Died("active")
  <2>1. StatusRow(db') /\ Heard(db')
    BY <1>1, <1>5, <1>6, <1>7 DEF f
  <2> QED
    BY <1>8, <2>1, <1>0, DiedStatus DEF Died
<1>9. CASE Goes("active", NoRun, {}) /\ db' = f
  BY <1>3, <1>4, <1>5, <1>9, RunTypes, <1>0, GoesStatus
<1> QED
  BY <1>1, <1>8, <1>9 DEF f

LEMMA ResolveStatus ==
    ASSUME TypeInv, PlaceInv, StatusInv, NEW r \in Requests, NEW yes \in BOOLEAN, ResolveConfirmation(r, yes)
    PROVE  StatusInv'
<1>0. late' = late
  BY DEF ResolveConfirmation, OfRuns
<1> DEFINE d == DecidedRow(r, yes)
           e == WithAnswers(d)
           f == WithStatus(e, "running")
           slip == IF Active THEN {"early"} ELSE {}
<1>1. /\ Served /\ db.conf[r] = "pending"
      /\ d \in Sessions /\ d.status = db.status /\ d.queue = db.queue /\ d.log = db.log
      /\ d.conf[r] \notin {"none", "pending"}
      /\ \A q \in Requests : q # r => d.conf[q] = db.conf[q]
      /\ e \in Sessions /\ e.status = db.status /\ e.queue = db.queue /\ e.conf = d.conf
  BY ResolveDoes
<1>2. \/ /\ ~Active /\ Pending(d) = {} /\ Ready(d)
         /\ \/ Died("active") /\ db' \in {d, e, f}
            \/ Goes("active", Started, {}) /\ db' = f
      \/ /\ ~Resumes(d) /\ db' = d
         /\ Goes("active", Run, slip) \/ Died("active")
  BY ResolveDoes
<1>3. Milder(d, e)
  BY <1>1, AnswersMilder
<1> HIDE DEF d, e
<1>4. db \in Sessions /\ Run \in Runs
  BY RunField DEF TypeInv, Run, Places
<1>5. Milder(db, d)
  <2>1. \A q \in Requests : db.conf[q] # "none" => d.conf[q] # "none"
    BY <1>1
  <2>2. Pending(d) \subseteq Pending(db)
    BY <1>1 DEF Pending
  <2>3. Waits(db) => Waits(d)
    BY <1>1, <1>4, <2>1, WaitsMore
  <2> QED
    BY <1>1, <2>2, <2>3 DEF Milder
<1>6. StatusRow(d) /\ StatusRow(e) /\ Heard(d) /\ Heard(e)
  BY <1>3, <1>5, MilderFacts DEF StatusInv
<1>7. f.status = "running" /\ f.conf = d.conf
  BY <1>1, WithStatusFacts DEF Statuses
<1> HIDE DEF f
<1>8. proc # "down" /\ db.status = "waiting"
  BY <1>1 DEF Served, StatusInv, Pending
<1>9. CASE Died("active") /\ db' = d
  BY <1>6, <1>9, <1>0, DiedStatus DEF Died
<1>10. CASE ~Active /\ Pending(d) = {} /\ Died("active") /\ db' \in {d, e, f}
  <2>1. StatusRow(f) /\ Heard(f)
    BY <1>7, <1>10 DEF StatusRow, Heard, Pending
  <2>2. StatusRow(db') /\ Heard(db')
    BY <1>6, <1>10, <2>1
  <2> QED
    BY <1>10, <2>2, <1>0, DiedStatus DEF Died
<1>11. CASE ~Active /\ Pending(d) = {} /\ Goes("active", Started, {}) /\ db' = f
  <2>1. StatusRow(f) /\ Heard(f) /\ Pending(f) = {}
    BY <1>7, <1>11 DEF StatusRow, Heard, Pending
  <2> QED
    BY <1>7, <1>11, <2>1, RunTypes, <1>0, GoesStatus
<1>12. CASE ~Resumes(d) /\ db' = d /\ Goes("active", Run, slip)
  <2>1. slips \subseteq slips' /\ (Active => "early" \in slips')
    BY <1>12 DEF Goes
  <2>2. Run = NoRun => proc # "stopping"
    BY DEF PlaceInv, Active
  <2>3. proc' = proc
    BY <1>12, <2>2 DEF Goes
  <2>4. db'.status = "waiting" /\ db'.log = db.log /\ db'.queue = db.queue
    BY <1>1, <1>8, <1>12
  <2>5. "early" \notin slips' => Pending(db') # {}
    <3>1. Waits(d)
      BY <1>1, <1>6, <1>8 DEF StatusRow
    <3>2. Pending(d) = {} => Ready(d)
      BY <1>1, <3>1, WaitsReady
    <3> QED
      BY <1>12, <2>1, <3>2 DEF Resumes
  <2>6. Heard(db') /\ (Run.at = "titling" => Only(db'.queue, late))
    BY <1>6, <1>12, <2>4 DEF StatusInv
  <2>7. Run # NoRun => Run.at = "ending"
    BY <1>8 DEF StatusInv, Active
  <2>8. Run.stop = "shutdown" => proc' = "stopping"
    BY <2>3 DEF StatusInv
  <2>9. Run.asks = {}
    BY <2>7, RunTypes DEF PlaceInv, Run, Places
  <2>10. StatusRow(db')
    BY <1>6, <1>12
  <2> QED
    BY <1>4, <1>12, <2>4, <2>5, <2>6, <2>7, <2>8, <2>9, <2>10, <1>0, GoesStatus
<1> QED
  BY <1>2, <1>9, <1>10, <1>11, <1>12

\* The rows of a start.
LEMMA StartRowsStatus ==
    ASSUME TypeInv, StatusInv, NEW d, d = Last(StartRows) \/ \E i \in DOMAIN StartRows : d = StartRows[i]
    PROVE  StatusRow(d) /\ Heard(d)
<1>1. db \in Sessions /\ Milder(db, db)
  BY DEF TypeInv, Milder
<1>2. Milder(db, StopRow) /\ Milder(db, WithAnswers(db)) /\ \A n : Milder(db, CancelledTo(db, n))
  BY <1>1, StopMilder, AnswersMilder, CancelledMilder
<1>3. ASSUME Milder(db, d) PROVE StatusRow(d) /\ Heard(d)
  BY <1>3, MilderFacts DEF StatusInv
<1>4. CASE db.status = "running"
  <2>1. Milder(db, d)
    BY <1>1, <1>2, <1>4, StartRowsFacts
  <2> QED
    BY <1>3, <2>1
<1>5. CASE db.status # "running" /\ (db.status # "waiting" \/ Pending(db) # {})
  <2>1. Milder(db, d)
    BY <1>1, <1>5, StartRowsFacts
  <2> QED
    BY <1>3, <2>1
<1>6. CASE db.status = "waiting" /\ Pending(db) = {} /\ Ready(db)
  <2>1. d \in {db, WithAnswers(db), StartedRow}
    BY <1>6, StartRowsFacts
  <2>2. CASE d = StartedRow
    <3> DEFINE e == WithAnswers(db)
    <3>1. e \in Sessions /\ Pending(e) = {} /\ Waits(e)
      BY <1>2, <1>6 DEF Milder, StatusInv, StatusRow
    <3> HIDE DEF e
    <3>2. \A s \in Statuses : /\ WithStatus(e, s).status = s
                              /\ WithStatus(e, s).conf = e.conf /\ WithStatus(e, s).log = e.log
      BY <3>1, WithStatusFacts
    <3>3. PICK s \in {"waiting", "running"} : d = WithStatus(e, s)
      BY <2>2 DEF StartedRow, e
    <3>4. d.status = s /\ d.conf = e.conf /\ d.log = e.log
      BY <3>2, <3>3 DEF Statuses
    <3>5. Waits(d) /\ Pending(d) = {}
      <4>1. LastAsked(d) = LastAsked(e) /\ Missing(d) = Missing(e)
        BY <3>4 DEF LastAsked, Missing
      <4> QED
        BY <3>1, <3>4, <4>1 DEF Waits, Pending
    <3> QED
      BY <3>3, <3>4, <3>5 DEF StatusRow, Heard
  <2> QED
    BY <1>1, <1>2, <1>3, <2>1, <2>2
<1>7. CASE db.status = "waiting" /\ Pending(db) = {} /\ ~Ready(db)
  BY <1>1, <1>7, WaitsReady DEF StatusInv, StatusRow
<1>8. db.status \in {"running", "waiting"} \/ (db.status # "running" /\ db.status # "waiting")
  OBVIOUS
<1> QED
  BY <1>4, <1>5, <1>6, <1>7

LEMMA StartStatus ==
    ASSUME TypeInv, PlaceInv, StatusInv, Start, TypeInv'
    PROVE  StatusInv'
<1>1. /\ proc \in {"stopped", "down"} /\ proc' = "up" /\ db' = Last(StartRows) /\ slips' = slips /\ late' = late
      /\ runs' = IF StartsRun THEN [runs EXCEPT !["active"] = Started] ELSE runs
  BY DEF Start
<1>2. "active" \in Places /\ db \in Sessions /\ db' \in Sessions
  BY DEF Places, TypeInv
<1>3. Run' = IF StartsRun THEN Started ELSE Run
  BY <1>1, <1>2, RunPut, RunTypes DEF Run
<1>4. StatusRow(db') /\ Heard(db')
  BY <1>1, StartRowsStatus
<1>5. StatusRow(db)' = StatusRow(db') /\ Heard(db)' = Heard(db') /\ Pending(db)' = Pending(db') /\ LastAsked(db)' = LastAsked(db')
  BY <1>1 DEF StatusRow, Heard, Only, Pending, Waits, LastAsked, Missing
<1>6. Run.stop # "shutdown" /\ Started.stop # "shutdown"
  BY <1>1, RunTypes DEF StatusInv
<1>7. ~Active => Run.at = "none" /\ Run.asks = {}
  BY RunTypes DEF Active
<1>8. Active => proc = "stopped"
  BY <1>1 DEF PlaceInv, Active, Run, Places
<1>9. CASE db.status = "running"
  <2>1. db' = StopRow
    BY <1>1, <1>9, StartRowsFacts
  <2>2. db'.status = "running" /\ db'.queue = db.queue /\ Pending(db') = {}
    BY <1>9, <2>1, StopRowFacts, StopMilder
  <2>3. CASE Active
    <3>1. Run' = Run /\ db' = db /\ Run.at # "ending"
      BY <1>3, <1>8, <1>9, <2>1, <2>3, StopMilder DEF StartsRun, StatusInv
    <3> QED
      BY <1>1, <1>3, <1>4, <1>5, <1>6, <1>9, <2>2, <2>3, <3>1 DEF StatusInv, Active
  <2>4. CASE ~Active
    <3>1. Run' = Started
      BY <1>3, <1>9, <2>4 DEF StartsRun
    <3> QED
      BY <1>1, <1>4, <1>5, <2>2, <3>1, RunTypes DEF StatusInv, Active
  <2> QED
    BY <2>3, <2>4
<1>10. CASE db.status # "running" /\ (db.status # "waiting" \/ Pending(db) # {})
  <2>1. db' = db
    BY <1>1, <1>10, StartRowsFacts
  <2>2. Run' = Run
    BY <1>3, <1>10 DEF StartsRun
  <2>3. Pending(db) # {} => db.status = "waiting"
    BY <1>10 DEF StatusInv, StatusRow
  <2>4. db.status = "waiting" => Pending(db) # {}
    BY <1>10
  <2>5. Active => Run.at = "ending"
    BY <1>10 DEF StatusInv
  <2> QED
    BY <1>1, <1>4, <1>5, <1>6, <1>10, <2>1, <2>2, <2>3, <2>4, <2>5 DEF StatusInv, Active
<1>11. CASE db.status = "waiting" /\ Pending(db) = {} /\ Ready(db)
  <2> DEFINE e == WithAnswers(db)
  <2>1. db' = WithStatus(e, IF Active THEN "waiting" ELSE "running")
    BY <1>1, <1>11, StartRowsFacts DEF StartedRow
  <2>2. e \in Sessions /\ e.conf = db.conf
    BY <1>2, AnswerFacts
  <2> HIDE DEF e
  <2>3. \A s \in Statuses : WithStatus(e, s).status = s /\ WithStatus(e, s).conf = db.conf
    BY <2>2, WithStatusFacts
  <2>4. db'.conf = db.conf /\ db'.status = IF Active THEN "waiting" ELSE "running"
    BY <2>1, <2>3 DEF Statuses
  <2>5. Pending(db') = {}
    BY <1>11, <2>4 DEF Pending
  <2>6. CASE Active
    <3>1. Run' = Run /\ db'.status = "waiting" /\ Run.at = "ending" /\ Run.asks = {}
      BY <1>3, <1>11, <2>4, <2>6 DEF StartsRun, StatusInv, PlaceInv, Run, Places
    <3>2. "early" \in slips
      BY <1>8, <1>11, <2>6 DEF StatusInv
    <3> QED
      BY <1>1, <1>4, <1>5, <1>6, <2>5, <2>6, <3>1, <3>2 DEF StatusInv, Active
  <2>7. CASE ~Active
    <3>1. Run' = Started /\ db'.status = "running"
      BY <1>3, <1>11, <2>4, <2>7 DEF StartsRun
    <3> QED
      BY <1>1, <1>4, <1>5, <2>5, <3>1, RunTypes DEF StatusInv, Active
  <2> QED
    BY <2>6, <2>7
<1>12. CASE db.status = "waiting" /\ Pending(db) = {} /\ ~Ready(db)
  BY <1>2, <1>12, WaitsReady DEF StatusInv, StatusRow
<1> QED
  BY <1>9, <1>10, <1>11, <1>12

\* What has happened stays in the history.
LEMMA SlipsStay == ASSUME TypeInv, [Next]_vars PROVE slips \subseteq slips'
<1>1. \A w, r, slip : Goes(w, r, slip) \/ Died(w) => slips \subseteq slips'
  BY DEF Goes, Died
<1>2. ASSUME NEW w \in Places, RunStep(w) \/ Aborts(w) PROVE slips \subseteq slips'
  BY <1>2, StepAdds
<1>3. ASSUME NEW r \in Requests, NEW yes \in BOOLEAN, ResolveConfirmation(r, yes) PROVE slips \subseteq slips'
  BY <1>1, <1>3, ResolveDoes
<1>4. ASSUME NEW n \in Messages, WithdrawQueuedMessage(n) PROVE slips \subseteq slips'
  BY <1>4 DEF WithdrawQueuedMessage
<1>5. CASE SubmitUserMessage \/ StopSession
  BY <1>1, <1>5, SubmitDoes, StopDoes
<1>6. ASSUME NEW steer \in BOOLEAN, Enqueue(steer) PROVE slips \subseteq slips'
  BY <1>6 DEF Enqueue
<1>7. CASE StopActive \/ Shutdown \/ StopTimesOut \/ Crash \/ Start \/ StartDies \/ UNCHANGED vars
  BY <1>7 DEF StopActive, Shutdown, StopTimesOut, Crash, Start, StartDies, vars
<1> QED
  BY <1>2, <1>3, <1>4, <1>5, <1>6, <1>7, DomainRuns DEF Next

LEMMA StatusStays == ASSUME TypeInv, PlaceInv, StatusKept, [Next]_vars, TypeInv' PROVE StatusKept'
<1> SUFFICES ASSUME "outlived" \notin slips' PROVE StatusInv'
  BY DEF StatusKept
<1>1. slips \subseteq slips'
  BY SlipsStay
<1>2. "outlived" \notin slips /\ StatusInv
  BY <1>1 DEF StatusKept
<1>3. "active" \in Places /\ db \in Sessions /\ db' \in Sessions /\ Run \in Runs
  BY RunField DEF Places, TypeInv, Run
<1>4. ASSUME NEW w \in Places, RunStep(w) \/ Aborts(w) PROVE StatusInv'
  BY <1>2, <1>4, StepStatus
\* The active run changes its flags, or is asked to stop.
<1>5. ASSUME NEW r \in Runs, runs' = [runs EXCEPT !["active"] = r], r.at = Run.at, r.asks = Run.asks, Active
      PROVE  Run' = r /\ r # NoRun
  <2>1. Run' = r
    BY <1>3, <1>5, RunPut DEF Run
  <2>2. Run.at # "none"
    BY <1>3, <1>5 DEF PlaceInv, Active, Run
  <2> QED
    BY <1>5, <2>1, <2>2, RunTypes
<1>6. ASSUME NEW steer \in BOOLEAN, Enqueue(steer) PROVE StatusInv'
  <2>1. /\ Active /\ proc' = proc /\ proc # "down"
        /\ db'.status = db.status /\ db'.conf = db.conf /\ db'.log = db.log
        /\ Deaf => late' = late \cup {said + 1}
        /\ Len(db'.queue) = Len(db.queue) + 1 /\ db'.queue[Len(db.queue) + 1] = said + 1
        /\ \A i \in 1 .. Len(db.queue) : db'.queue[i] = db.queue[i]
        /\ \/ runs' = runs
           \/ runs' = [runs EXCEPT !["active"] = [Run EXCEPT !.steer = TRUE, !.aborted = TRUE]]
    BY <1>6, EnqueueDoes DEF Served
  <2>2. Run' # NoRun /\ Run'.at = Run.at /\ Run'.asks = Run.asks /\ Run'.stop = Run.stop
    <3>1. CASE runs' = runs
      BY <2>1, <3>1 DEF Run, Active
    <3>2. CASE runs' = [runs EXCEPT !["active"] = [Run EXCEPT !.steer = TRUE, !.aborted = TRUE]]
      <4> DEFINE r == [Run EXCEPT !.steer = TRUE, !.aborted = TRUE]
      <4>1. r \in Runs /\ r.at = Run.at /\ r.asks = Run.asks /\ r.stop = Run.stop
        BY <1>3 DEF Runs
      <4>2. runs' = [runs EXCEPT !["active"] = r]
        BY <3>2
      <4> HIDE DEF r
      <4> QED
        BY <1>5, <2>1, <4>1, <4>2
    <3> QED
      BY <2>1, <3>1, <3>2
  <2>3. ~Deaf => db.status = "running" /\ Run.at # "titling"
    BY <1>2, <2>1 DEF Deaf, StatusInv
  <2>4. db.status = "idle" \/ Run.at = "titling" => (Only(db.queue, late) => Only(db'.queue, late'))
    <3>1. DOMAIN db.queue = 1 .. Len(db.queue) /\ DOMAIN db'.queue = 1 .. Len(db'.queue) /\ Len(db.queue) \in Nat
      BY <1>3, LogFacts
    <3>2. \A i \in 1 .. Len(db'.queue) : i \in 1 .. Len(db.queue) \/ i = Len(db.queue) + 1
      BY <2>1, <3>1
    <3>3. Deaf /\ Only(db.queue, late) => Only(db'.queue, late')
      BY <2>1, <3>1, <3>2 DEF Only
    <3> QED
      BY <2>3, <3>3
  <2>5. Run.stop = "shutdown" => proc = "stopping"
    BY <1>2 DEF StatusInv
  <2> QED
    BY <1>1, <1>2, <1>3, <2>1, <2>2, <2>4, <2>5, SameStatus DEF Active
<1>7. CASE SubmitUserMessage
  BY <1>2, <1>7, SubmitStatus
<1>8. ASSUME NEW n \in Messages, WithdrawQueuedMessage(n) PROVE StatusInv'
  <2>1. UNCHANGED <<proc, runs, slips, late>> /\ db'.status = db.status /\ db'.conf = db.conf /\ db'.log = db.log
    BY <1>8, WithdrawDoes
  <2>2. Only(db.queue, late) => Only(db'.queue, late')
    <3>1. PICK i \in 1 .. Len(db.queue) : \A j \in 1 .. Len(db'.queue) : db'.queue[j] = db.queue[IF j < i THEN j ELSE j + 1]
      BY <1>8, WithdrawDoes
    <3>2. Len(db'.queue) \in Nat /\ Len(db.queue) = Len(db'.queue) + 1
      BY <1>8, WithdrawDoes
    <3>3. DOMAIN db.queue = 1 .. Len(db.queue) /\ DOMAIN db'.queue = 1 .. Len(db'.queue)
      BY <1>3, LogFacts
    <3>4. \A j \in 1 .. Len(db'.queue) : (IF j < i THEN j ELSE j + 1) \in 1 .. Len(db.queue)
      BY <3>2
    <3> QED
      BY <2>1, <3>1, <3>3, <3>4 DEF Only
  <2>3. Run' = Run
    BY <2>1 DEF Run
  <2>4. /\ Run.stop = "shutdown" => proc = "stopping"
        /\ ~Active /\ db.status = "running" => proc \in {"stopped", "down"}
    BY <1>2 DEF StatusInv
  <2> QED
    BY <1>2, <1>3, <2>1, <2>2, <2>3, <2>4, SameStatus
<1>9. ASSUME NEW why \in {"manual", "shutdown"}, RequestStop(why), UNCHANGED <<db, slips, late>>,
             (why = "manual" /\ proc' = proc)
               \/ (why = "shutdown" /\ proc = "up" /\ proc' = IF Active THEN "stopping" ELSE "stopped"),
             proc # "down"
      PROVE  StatusInv'
  <2>1. /\ proc' # "down" => proc # "down"
        /\ proc = "stopping" => proc' = "stopping"
    BY <1>9
  <2>2. ~Active /\ db.status = "running" => proc' \in {"stopped", "down"}
    BY <1>2, <1>9 DEF StatusInv
  <2>3. /\ Run'.at = Run.at /\ Run'.asks = Run.asks /\ (Run' = NoRun) = (Run = NoRun)
        /\ Run'.stop = Run.stop \/ (Run'.stop = why /\ Active)
    <3>1. CASE runs' = runs
      BY <3>1 DEF Run
    <3>2. CASE Active /\ runs' = [runs EXCEPT !["active"] = [Run EXCEPT !.stop = why]]
      <4> DEFINE r == [Run EXCEPT !.stop = why]
      <4>1. r \in Runs /\ r.at = Run.at /\ r.asks = Run.asks /\ r.stop = why
        BY <1>3 DEF Runs
      <4>2. runs' = [runs EXCEPT !["active"] = r] /\ Active
        BY <3>2
      <4> HIDE DEF r
      <4>3. Run' = r /\ r # NoRun /\ Run # NoRun
        BY <1>5, <4>1, <4>2 DEF Active
      <4> QED
        BY <4>1, <4>2, <4>3
    <3>3. runs' = runs \/ (Active /\ runs' = [runs EXCEPT !["active"] = [Run EXCEPT !.stop = why]])
      BY <1>9, RequestStopDoes
    <3> QED
      BY <3>1, <3>2, <3>3
  <2>4. Run'.stop = "shutdown" => proc' = "stopping"
    BY <1>2, <1>9, <2>3 DEF StatusInv
  <2>5. db' = db /\ slips' = slips /\ late' = late
    BY <1>9
  <2> QED
    BY <1>2, <1>3, <2>1, <2>2, <2>3, <2>4, <2>5, SameStatus
<1>10. CASE StopActive
  BY <1>9, <1>10 DEF StopActive, Served
<1>11. CASE StopSession
  BY <1>2, <1>11, StopSessionStatus
<1>12. ASSUME NEW r \in Requests, NEW yes \in BOOLEAN, ResolveConfirmation(r, yes) PROVE StatusInv'
  BY <1>2, <1>12, ResolveStatus
<1>13. CASE Shutdown
  BY <1>9, <1>13 DEF Shutdown
<1>14. CASE StopTimesOut
  BY <1>14 DEF StopTimesOut
<1>15. CASE Crash
  <2>1. proc' = "down" /\ runs' = [w \in Places |-> NoRun] /\ db' = db /\ late' = late
    BY <1>15, DomainRuns DEF Crash
  <2> QED
    BY <1>1, <1>2, <2>1, DiedStatus DEF StatusInv
<1>16. CASE Start
  BY <1>2, <1>16, StartStatus
<1>17. CASE StartDies
  <2>1. /\ proc' = "down" /\ runs' = [w \in Places |-> NoRun] /\ late' = late
        /\ \E i \in DOMAIN StartRows : db' = StartRows[i]
    BY <1>17, DomainRuns DEF StartDies
  <2>2. StatusRow(db') /\ Heard(db')
    BY <1>2, <2>1, StartRowsStatus
  <2> QED
    BY <1>1, <2>1, <2>2, DiedStatus
<1>18. CASE UNCHANGED vars
  <2>1. UNCHANGED <<db, proc, runs, slips, late>>
    BY <1>18 DEF vars
  <2>2. Run' = Run
    BY <2>1 DEF Run
  <2>3. /\ Run.stop = "shutdown" => proc = "stopping"
        /\ ~Active /\ db.status = "running" => proc \in {"stopped", "down"}
    BY <1>2 DEF StatusInv
  <2> QED
    BY <1>2, <1>3, <2>1, <2>2, <2>3, SameStatus
<1> QED
  BY <1>4, <1>6, <1>7, <1>8, <1>10, <1>11, <1>12, <1>13, <1>14, <1>15, <1>16, <1>17, <1>18, DomainRuns DEF Next

LEMMA PlaceStart == Init => PlaceInv /\ StatusKept
<1> SUFFICES ASSUME Init PROVE PlaceInv /\ StatusInv
  BY DEF StatusKept
<1>1. Run = NoRun /\ runs["orphan"] = NoRun /\ ~Active /\ \A w \in Places : runs[w] = NoRun
  BY DEF Init, Run, Active, Places
<1>2. PlaceInv
  BY <1>1, RunTypes DEF Init, PlaceInv, Places
<1>3. Pending(db) = {} /\ db.status = "idle" /\ db.queue = << >> /\ proc = "up"
  BY DEF Init, Pending
<1>4. StatusInv
  BY <1>1, <1>3, RunTypes DEF StatusInv, StatusRow, Heard, Only
<1> QED
  BY <1>2, <1>4

-----------------------------------------------------------------------------
(* Requests, answers and results *)

Answers(e) == e.yes \cup e.no
AskedIn(d) == UNION {d.log[i].asks : i \in 1 .. Len(d.log)}

\* Requests are numbered as they are made, each is made once, and only one that has
\* been made has a confirmation.
AskedOnce(d) ==
    /\ \E k \in 0 .. MaxRequests : AskedIn(d) = 1 .. k
    /\ \A r \in Requests : r \notin AskedIn(d) => d.conf[r] = "none"
    /\ \A i, j \in 1 .. Len(d.log) : \A r \in d.log[i].asks : r \in d.log[j].asks => i = j

\* An answer or a result comes once, and after the request.
AnsweredAfter(d) ==
    /\ \A i \in 1 .. Len(d.log) : \A r \in Answers(d.log[i]) \cup d.log[i].results :
          \E j \in 1 .. Len(d.log) : j < i /\ r \in d.log[j].asks
    /\ \A i, j \in 1 .. Len(d.log) : \A r \in Answers(d.log[i]) : r \in Answers(d.log[j]) => i = j
    /\ \A i, j \in 1 .. Len(d.log) : \A r \in d.log[i].results : r \in d.log[j].results => i = j

\* An answer is what was decided, and a result is one of an answered or a cancelled request.
AsDecided(d) ==
    /\ \A i \in 1 .. Len(d.log) : \A r \in d.log[i].yes : d.conf[r] = "approved"
    /\ \A i \in 1 .. Len(d.log) : \A r \in d.log[i].no : d.conf[r] = "denied"
    /\ \A i \in 1 .. Len(d.log) : \A r \in d.log[i].results :
          d.conf[r] = "cancelled" \/ \E j \in 1 .. Len(d.log) : j < i /\ r \in Answers(d.log[j])

RequestsRow(d) == AskedOnce(d) /\ AnsweredAfter(d) /\ AsDecided(d)

\* What the run r owes has been answered and has no result; what it asks has been
\* made and has no confirmation.
RunRow(d, r) ==
    /\ \A q \in r.owes : /\ \E i \in 1 .. Len(d.log) : q \in Answers(d.log[i])
                         /\ \A i \in 1 .. Len(d.log) : q \notin d.log[i].results
    /\ \A q \in r.asks : d.conf[q] = "none" /\ q \in AskedIn(d)

RequestsInv == RequestsRow(db) /\ RunRow(db, Run)

Grows(d, f) ==
    /\ f \in Sessions
    /\ RequestsRow(d) => RequestsRow(f) /\ \A r \in Runs : RunRow(d, r) => RunRow(f, r)

LEMMA GrowsThen ==
    ASSUME NEW d, NEW e, NEW f, Grows(d, e), Grows(e, f)
    PROVE  Grows(d, f)
BY DEF Grows

LEMMA GrowsSame ==
    ASSUME NEW d \in Sessions, NEW f \in Sessions, f.log = d.log, f.conf = d.conf
    PROVE  Grows(d, f)
<1>1. AskedIn(f) = AskedIn(d)
  BY DEF AskedIn
<1>2. AskedOnce(f) = AskedOnce(d)
  BY <1>1 DEF AskedOnce
<1>3. AnsweredAfter(f) = AnsweredAfter(d)
  BY DEF AnsweredAfter
<1>4. AsDecided(f) = AsDecided(d)
  BY DEF AsDecided
<1>5. \A r : RunRow(f, r) = RunRow(d, r)
  BY <1>1 DEF RunRow
<1> QED
  BY <1>2, <1>3, <1>4, <1>5 DEF Grows, RequestsRow

LEMMA AskedInFacts ==
    ASSUME NEW d \in Sessions
    PROVE  /\ AskedIn(d) \subseteq Requests
           /\ \A r : r \in AskedIn(d) <=> \E i \in 1 .. Len(d.log) : r \in d.log[i].asks
<1>1. \A r : r \in AskedIn(d) <=> \E i \in 1 .. Len(d.log) : r \in d.log[i].asks
  BY DEF AskedIn
<1> QED
  BY <1>1, LogFacts

\* Confirmations are made for requests that have none, or decided when they are pending.
LEMMA ConfGrows ==
    ASSUME NEW d \in Sessions, NEW f \in Sessions, f.log = d.log, RequestsRow(d),
           \A r \in Requests : \/ f.conf[r] = d.conf[r] \/ d.conf[r] = "pending"
                               \/ d.conf[r] = "none" /\ r \in AskedIn(d)
    PROVE  RequestsRow(f)
<1>1. AskedIn(f) = AskedIn(d) /\ AskedIn(d) \subseteq Requests
  BY AskedInFacts DEF AskedIn
<1>2. AskedOnce(f)
  BY <1>1 DEF AskedOnce, RequestsRow
<1>3. AnsweredAfter(f)
  BY DEF AnsweredAfter, RequestsRow
<1>4. \A i \in 1 .. Len(d.log) : /\ d.log[i].yes \subseteq Requests /\ d.log[i].no \subseteq Requests
                                 /\ d.log[i].results \subseteq Requests
  BY LogFacts
<1>5. \A r \in Requests : d.conf[r] \in {"approved", "denied", "cancelled"} => f.conf[r] = d.conf[r]
  BY DEF RequestsRow
<1>6. AsDecided(f)
  BY <1>4, <1>5 DEF AsDecided, RequestsRow
<1> QED
  BY <1>2, <1>3, <1>6 DEF RequestsRow

\* Decisions and cancellations are of pending confirmations only.
LEMMA DecisionGrows ==
    ASSUME NEW d \in Sessions, NEW f \in Sessions, f.log = d.log,
           \A r \in Requests : f.conf[r] = d.conf[r] \/ d.conf[r] = "pending"
    PROVE  Grows(d, f)
<1>1. RequestsRow(d) => RequestsRow(f)
  BY ConfGrows
<1>2. ASSUME NEW r \in Runs, RunRow(d, r) PROVE RunRow(f, r)
  <2>1. r.asks \subseteq Requests
    BY DEF Runs
  <2>2. AskedIn(f) = AskedIn(d)
    BY DEF AskedIn
  <2>3. \A q \in r.asks : f.conf[q] = "none" /\ q \in AskedIn(f)
    BY <1>2, <2>1, <2>2 DEF RunRow
  <2> QED
    BY <1>2, <2>3 DEF RunRow
<1> QED
  BY <1>1, <1>2 DEF Grows

\* Entries that are about no request.
LEMMA PlainGrows ==
    ASSUME NEW d \in Sessions, NEW f \in Sessions, f.conf = d.conf, Len(d.log) <= Len(f.log),
           \A i \in 1 .. Len(d.log) : f.log[i] = d.log[i],
           \A i \in 1 .. Len(f.log) : ~(i <= Len(d.log)) =>
               f.log[i].asks = {} /\ f.log[i].yes = {} /\ f.log[i].no = {} /\ f.log[i].results = {}
    PROVE  Grows(d, f)
<1> DEFINE k == Len(d.log)
           m == Len(f.log)
<1>1. k \in Nat /\ m \in Nat /\ k <= m
  BY LogFacts
<1>2. \A i \in 1 .. m : \/ i \in 1 .. k /\ f.log[i] = d.log[i]
                        \/ f.log[i].asks = {} /\ Answers(f.log[i]) = {} /\ f.log[i].results = {}
                           /\ f.log[i].yes = {} /\ f.log[i].no = {}
  BY <1>1 DEF Answers
<1>3. \A i \in 1 .. k : i \in 1 .. m /\ f.log[i] = d.log[i]
  BY <1>1
<1> HIDE DEF k, m
<1>4. \A r : r \in AskedIn(f) <=> r \in AskedIn(d)
  BY <1>2, <1>3, AskedInFacts DEF k, m
<1>5. AskedIn(f) = AskedIn(d)
  BY <1>4
<1>6. ASSUME AskedOnce(d) PROVE AskedOnce(f)
  <2>1. \A i, j \in 1 .. m : \A r \in f.log[i].asks : r \in f.log[j].asks => i = j
    <3> SUFFICES ASSUME NEW i \in 1 .. m, NEW j \in 1 .. m, NEW r \in f.log[i].asks, r \in f.log[j].asks
                 PROVE  i = j
      OBVIOUS
    <3>1. i \in 1 .. k /\ j \in 1 .. k /\ r \in d.log[i].asks /\ r \in d.log[j].asks
      BY <1>2
    <3> QED
      BY <1>6, <3>1 DEF AskedOnce, k
  <2> QED
    BY <1>5, <1>6, <2>1 DEF AskedOnce, m
<1>7. ASSUME AnsweredAfter(d) PROVE AnsweredAfter(f)
  <2>1. ASSUME NEW i \in 1 .. m, NEW r \in Answers(f.log[i]) \cup f.log[i].results
        PROVE  \E j \in 1 .. m : j < i /\ r \in f.log[j].asks
    <3>1. i \in 1 .. k /\ r \in Answers(d.log[i]) \cup d.log[i].results
      BY <1>2, <2>1
    <3>2. PICK j \in 1 .. k : j < i /\ r \in d.log[j].asks
      BY <1>7, <3>1 DEF AnsweredAfter, k
    <3> QED
      BY <1>3, <3>2
  <2>2. ASSUME NEW i \in 1 .. m, NEW j \in 1 .. m, NEW r \in Answers(f.log[i]), r \in Answers(f.log[j])
        PROVE  i = j
    <3>1. i \in 1 .. k /\ j \in 1 .. k /\ r \in Answers(d.log[i]) /\ r \in Answers(d.log[j])
      BY <1>2, <2>2
    <3> QED
      BY <1>7, <3>1 DEF AnsweredAfter, k
  <2>3. ASSUME NEW i \in 1 .. m, NEW j \in 1 .. m, NEW r \in f.log[i].results, r \in f.log[j].results
        PROVE  i = j
    <3>1. i \in 1 .. k /\ j \in 1 .. k /\ r \in d.log[i].results /\ r \in d.log[j].results
      BY <1>2, <2>3
    <3> QED
      BY <1>7, <3>1 DEF AnsweredAfter, k
  <2> QED
    BY <2>1, <2>2, <2>3 DEF AnsweredAfter, m
<1>8. ASSUME AsDecided(d) PROVE AsDecided(f)
  <2>1. ASSUME NEW i \in 1 .. m
        PROVE  (\A r \in f.log[i].yes : f.conf[r] = "approved") /\ (\A r \in f.log[i].no : f.conf[r] = "denied")
    BY <1>2, <1>8 DEF AsDecided, k
  <2>2. ASSUME NEW i \in 1 .. m, NEW r \in f.log[i].results
        PROVE  f.conf[r] = "cancelled" \/ \E j \in 1 .. m : j < i /\ r \in Answers(f.log[j])
    <3>1. i \in 1 .. k /\ r \in d.log[i].results
      BY <1>2, <2>2
    <3>2. d.conf[r] = "cancelled" \/ \E j \in 1 .. k : j < i /\ r \in Answers(d.log[j])
      BY <1>8, <3>1 DEF AsDecided, k
    <3> QED
      BY <1>3, <3>2
  <2> QED
    BY <2>1, <2>2 DEF AsDecided, m
<1>9. ASSUME NEW r, RunRow(d, r) PROVE RunRow(f, r)
  <2>1. ASSUME NEW q \in r.owes
        PROVE  /\ \E i \in 1 .. m : q \in Answers(f.log[i])
               /\ \A i \in 1 .. m : q \notin f.log[i].results
    <3>1. PICK i \in 1 .. k : q \in Answers(d.log[i])
      BY <1>9 DEF RunRow, k
    <3>2. \A j \in 1 .. k : q \notin d.log[j].results
      BY <1>9 DEF RunRow, k
    <3> QED
      BY <1>2, <1>3, <3>1, <3>2
  <2>2. \A q \in r.asks : f.conf[q] = "none" /\ q \in AskedIn(f)
    BY <1>5, <1>9 DEF RunRow
  <2> QED
    BY <2>1, <2>2 DEF RunRow, m
<1> QED
  BY <1>6, <1>7, <1>8, <1>9 DEF Grows, RequestsRow

\* One more entry, with requests, answers or results.
LEMMA EntryKeeps ==
    ASSUME NEW d \in Sessions, NEW f \in Sessions, NEW e, RequestsRow(d), f.conf = d.conf,
           Len(f.log) = Len(d.log) + 1, f.log[Len(d.log) + 1] = e,
           \A i \in 1 .. Len(d.log) : f.log[i] = d.log[i],
           \E n \in 0 .. MaxRequests : AskedIn(d) \cup e.asks = 1 .. n,
           \A r \in e.asks : r \notin AskedIn(d),
           \A r \in Answers(e) \cup e.results : r \in AskedIn(d),
           \A r \in Answers(e), i \in 1 .. Len(d.log) : r \notin Answers(d.log[i]),
           \A r \in e.results, i \in 1 .. Len(d.log) : r \notin d.log[i].results,
           \A r \in e.yes : d.conf[r] = "approved", \A r \in e.no : d.conf[r] = "denied",
           \A r \in e.results : d.conf[r] = "cancelled" \/ \E i \in 1 .. Len(d.log) : r \in Answers(d.log[i])
    PROVE  RequestsRow(f) /\ AskedIn(f) = AskedIn(d) \cup e.asks
<1> DEFINE k == Len(d.log)
<1>1. k \in Nat /\ Len(f.log) = k + 1 /\ f.log[k + 1] = e
  BY LogFacts
<1>2. \A i \in 1 .. k : i \in 1 .. k + 1 /\ i < k + 1 /\ f.log[i] = d.log[i]
  BY <1>1
<1>3. \A i \in 1 .. k + 1 : i \in 1 .. k \/ i = k + 1
  BY <1>1
<1>4. k + 1 \in 1 .. k + 1
  BY <1>1
<1>5. AskedOnce(d) /\ AnsweredAfter(d) /\ AsDecided(d)
  BY DEF RequestsRow
<1>6. /\ \A r \in Answers(e), i \in 1 .. k : r \notin Answers(d.log[i])
      /\ \A r \in e.results, i \in 1 .. k : r \notin d.log[i].results
      /\ \A r \in e.results : d.conf[r] = "cancelled" \/ \E i \in 1 .. k : r \in Answers(d.log[i])
  OBVIOUS
<1>7. \A r : r \in AskedIn(d) <=> \E i \in 1 .. k : r \in d.log[i].asks
  BY AskedInFacts
<1> HIDE DEF k
<1>8. \A r : r \in AskedIn(f) <=> \E i \in 1 .. k + 1 : r \in f.log[i].asks
  BY <1>1, AskedInFacts
<1>9. AskedIn(f) = AskedIn(d) \cup e.asks
  <2>1. \A r : r \in AskedIn(f) <=> (r \in AskedIn(d) \/ r \in e.asks)
    BY <1>1, <1>2, <1>3, <1>4, <1>7, <1>8
  <2> QED
    BY <2>1
<1>10. AskedOnce(f)
  <2>1. \E n \in 0 .. MaxRequests : AskedIn(f) = 1 .. n
    BY <1>9
  <2>2. \A r \in Requests : r \notin AskedIn(f) => f.conf[r] = "none"
    BY <1>5, <1>9 DEF AskedOnce
  <2>3. ASSUME NEW i \in 1 .. k + 1, NEW j \in 1 .. k + 1, NEW r \in f.log[i].asks, r \in f.log[j].asks
        PROVE  i = j
    <3>1. CASE i \in 1 .. k /\ j \in 1 .. k
      BY <1>2, <1>5, <2>3, <3>1 DEF AskedOnce, k
    <3>2. CASE i \in 1 .. k /\ j = k + 1
      BY <1>1, <1>2, <1>7, <2>3, <3>2
    <3>3. CASE i = k + 1 /\ j \in 1 .. k
      BY <1>1, <1>2, <1>7, <2>3, <3>3
    <3> QED
      BY <1>3, <3>1, <3>2, <3>3
  <2> QED
    BY <1>1, <2>1, <2>2, <2>3 DEF AskedOnce
<1>11. AnsweredAfter(f)
  <2>1. ASSUME NEW i \in 1 .. k + 1, NEW r \in Answers(f.log[i]) \cup f.log[i].results
        PROVE  \E j \in 1 .. k + 1 : j < i /\ r \in f.log[j].asks
    <3>1. CASE i \in 1 .. k
      <4>1. PICK j \in 1 .. k : j < i /\ r \in d.log[j].asks
        BY <1>2, <1>5, <2>1, <3>1 DEF AnsweredAfter, k
      <4> QED
        BY <1>2, <4>1
    <3>2. CASE i = k + 1
      <4>1. PICK j \in 1 .. k : r \in d.log[j].asks
        BY <1>1, <1>7, <2>1, <3>2
      <4> QED
        BY <1>2, <3>2, <4>1
    <3> QED
      BY <1>3, <3>1, <3>2
  <2>2. ASSUME NEW i \in 1 .. k + 1, NEW j \in 1 .. k + 1, NEW r \in Answers(f.log[i]), r \in Answers(f.log[j])
        PROVE  i = j
    <3>1. CASE i \in 1 .. k /\ j \in 1 .. k
      BY <1>2, <1>5, <2>2, <3>1 DEF AnsweredAfter, k
    <3>2. CASE i \in 1 .. k /\ j = k + 1
      BY <1>1, <1>2, <1>6, <2>2, <3>2
    <3>3. CASE i = k + 1 /\ j \in 1 .. k
      BY <1>1, <1>2, <1>6, <2>2, <3>3
    <3> QED
      BY <1>3, <3>1, <3>2, <3>3
  <2>3. ASSUME NEW i \in 1 .. k + 1, NEW j \in 1 .. k + 1, NEW r \in f.log[i].results, r \in f.log[j].results
        PROVE  i = j
    <3>1. CASE i \in 1 .. k /\ j \in 1 .. k
      BY <1>2, <1>5, <2>3, <3>1 DEF AnsweredAfter, k
    <3>2. CASE i \in 1 .. k /\ j = k + 1
      BY <1>1, <1>2, <1>6, <2>3, <3>2
    <3>3. CASE i = k + 1 /\ j \in 1 .. k
      BY <1>1, <1>2, <1>6, <2>3, <3>3
    <3> QED
      BY <1>3, <3>1, <3>2, <3>3
  <2> QED
    BY <1>1, <2>1, <2>2, <2>3 DEF AnsweredAfter
<1>12. AsDecided(f)
  <2>1. ASSUME NEW i \in 1 .. k + 1
        PROVE  (\A r \in f.log[i].yes : f.conf[r] = "approved") /\ (\A r \in f.log[i].no : f.conf[r] = "denied")
    BY <1>1, <1>2, <1>3, <1>5 DEF AsDecided, k
  <2>2. ASSUME NEW i \in 1 .. k + 1, NEW r \in f.log[i].results
        PROVE  f.conf[r] = "cancelled" \/ \E j \in 1 .. k + 1 : j < i /\ r \in Answers(f.log[j])
    <3>1. CASE i \in 1 .. k
      <4>1. d.conf[r] = "cancelled" \/ \E j \in 1 .. k : j < i /\ r \in Answers(d.log[j])
        BY <1>2, <1>5, <2>2, <3>1 DEF AsDecided, k
      <4> QED
        BY <1>2, <4>1
    <3>2. CASE i = k + 1
      <4>1. d.conf[r] = "cancelled" \/ \E j \in 1 .. k : r \in Answers(d.log[j])
        BY <1>1, <1>6, <2>2, <3>2
      <4> QED
        BY <1>2, <3>2, <4>1
    <3> QED
      BY <1>3, <3>1, <3>2
  <2> QED
    BY <1>1, <2>1, <2>2 DEF AsDecided
<1> QED
  BY <1>9, <1>10, <1>11, <1>12 DEF RequestsRow

\* What the last request of the assistant still misses has no answer and no result anywhere.
LEMMA Unanswered ==
    ASSUME NEW d \in Sessions, RequestsRow(d), LastAsked(d) # 0, NEW r \in Missing(d)
    PROVE  /\ r \in AskedIn(d)
           /\ \A i \in 1 .. Len(d.log) : r \notin Answers(d.log[i]) /\ r \notin d.log[i].results
<1> DEFINE k == LastAsked(d)
<1>1. k \in 1 .. Len(d.log) /\ Len(d.log) \in Nat
  BY LastAskedFacts, LogFacts
<1>2. /\ r \in d.log[k].asks
      /\ \A j \in k + 1 .. Len(d.log) : r \notin d.log[j].yes \cup d.log[j].no \cup d.log[j].results
  BY MissingFacts
<1> HIDE DEF k
<1>3. r \in AskedIn(d)
  BY <1>1, <1>2, AskedInFacts
<1>4. ASSUME NEW i \in 1 .. Len(d.log), r \in Answers(d.log[i]) \cup d.log[i].results PROVE FALSE
  <2>1. PICK j \in 1 .. Len(d.log) : j < i /\ r \in d.log[j].asks
    BY <1>4 DEF RequestsRow, AnsweredAfter
  <2>2. j = k
    BY <1>1, <1>2, <2>1 DEF RequestsRow, AskedOnce
  <2>3. i \in k + 1 .. Len(d.log)
    BY <1>1, <2>1, <2>2
  <2> QED
    BY <1>2, <1>4, <2>3 DEF Answers
<1> QED
  BY <1>3, <1>4

\* A run's row survives an entry that has no result of what the run owes.
LEMMA EntryRun ==
    ASSUME NEW d \in Sessions, NEW f \in Sessions, NEW e, NEW r, f.conf = d.conf,
           Len(f.log) = Len(d.log) + 1, f.log[Len(d.log) + 1] = e,
           \A i \in 1 .. Len(d.log) : f.log[i] = d.log[i],
           AskedIn(d) \subseteq AskedIn(f), RunRow(d, r), \A q \in e.results : q \notin r.owes
    PROVE  RunRow(f, r)
<1> DEFINE k == Len(d.log)
<1>1. k \in Nat /\ Len(f.log) = k + 1 /\ f.log[k + 1] = e
  BY LogFacts
<1>2. \A i \in 1 .. k : i \in 1 .. k + 1 /\ f.log[i] = d.log[i]
  BY <1>1
<1>3. \A i \in 1 .. k + 1 : i \in 1 .. k \/ i = k + 1
  BY <1>1
<1> HIDE DEF k
<1>4. ASSUME NEW q \in r.owes
      PROVE  /\ \E i \in 1 .. k + 1 : q \in Answers(f.log[i])
             /\ \A i \in 1 .. k + 1 : q \notin f.log[i].results
  <2>1. PICK i \in 1 .. k : q \in Answers(d.log[i])
    BY DEF RunRow, k
  <2>2. \A j \in 1 .. k : q \notin d.log[j].results
    BY DEF RunRow, k
  <2> QED
    BY <1>1, <1>2, <1>3, <2>1, <2>2
<1>5. \A q \in r.asks : f.conf[q] = "none" /\ q \in AskedIn(f)
  BY DEF RunRow
<1> QED
  BY <1>1, <1>4, <1>5 DEF RunRow

\* appendApprovalResponsesIfReady answers nothing twice.
LEMMA AnswersGrow == ASSUME NEW d \in Sessions PROVE Grows(d, WithAnswers(d))
<1> DEFINE f == WithAnswers(d)
           e == Answer(d)
<1>1. f \in Sessions /\ f.conf = d.conf
  BY AnswerFacts
<1>2. CASE f = d
  BY <1>1, <1>2, GrowsSame
<1>3. CASE f # d
  <2>1. /\ LastAsked(d) # 0 /\ Len(f.log) = Len(d.log) + 1 /\ f.log[Len(d.log) + 1] = e
        /\ \A i \in 1 .. Len(d.log) : f.log[i] = d.log[i]
    BY <1>3, AnswerFacts
  <2>2. /\ e.asks = {} /\ e.yes = {r \in Missing(d) : d.conf[r] = "approved"}
        /\ e.no = {r \in Missing(d) : d.conf[r] = "denied"}
        /\ e.results = {r \in Missing(d) : d.conf[r] = "cancelled"}
    BY EntryFacts DEF Answer
  <2> HIDE DEF e, f
  <2> SUFFICES ASSUME RequestsRow(d)
               PROVE  RequestsRow(f) /\ \A r \in Runs : RunRow(d, r) => RunRow(f, r)
    BY <1>1 DEF Grows, f
  <2>3. \A r \in Missing(d) : /\ r \in AskedIn(d)
                              /\ \A i \in 1 .. Len(d.log) : r \notin Answers(d.log[i]) /\ r \notin d.log[i].results
    BY <2>1, Unanswered
  <2>4. \A r \in Answers(e) \cup e.results : r \in Missing(d)
    BY <2>2 DEF Answers
  <2>5. \E n \in 0 .. MaxRequests : AskedIn(d) \cup e.asks = 1 .. n
    BY <2>2 DEF RequestsRow, AskedOnce
  <2>6. /\ \A r \in e.asks : r \notin AskedIn(d)
        /\ \A r \in Answers(e) \cup e.results : r \in AskedIn(d)
        /\ \A r \in Answers(e), i \in 1 .. Len(d.log) : r \notin Answers(d.log[i])
        /\ \A r \in e.results, i \in 1 .. Len(d.log) : r \notin d.log[i].results
    BY <2>2, <2>3, <2>4
  <2>7. /\ \A r \in e.yes : d.conf[r] = "approved"
        /\ \A r \in e.no : d.conf[r] = "denied"
        /\ \A r \in e.results : d.conf[r] = "cancelled"
    BY <2>2
  <2>8. RequestsRow(f) /\ AskedIn(f) = AskedIn(d) \cup e.asks
    BY <1>1, <2>1, <2>5, <2>6, <2>7, EntryKeeps
  <2>9. ASSUME NEW r \in Runs, RunRow(d, r) PROVE RunRow(f, r)
    <3>1. \A q \in e.results : q \notin r.owes
      BY <2>3, <2>4, <2>9 DEF RunRow
    <3> QED
      BY <1>1, <2>1, <2>8, <2>9, <3>1, EntryRun
  <2> QED
    BY <2>8, <2>9
<1> QED
  BY <1>2, <1>3 DEF f

\* The answers a call takes up have no result yet.
LEMMA OwedRow ==
    ASSUME NEW d \in Sessions, RequestsRow(d), NEW q \in Owed(d)
    PROVE  /\ \E i \in 1 .. Len(d.log) : q \in Answers(d.log[i])
           /\ \A i \in 1 .. Len(d.log) : q \notin d.log[i].results
<1> DEFINE k == Len(d.log)
<1>1. k \in 1 .. k /\ k \in Nat /\ (q \in d.log[k].yes \/ q \in d.log[k].no)
  BY OwedFacts, LogFacts
<1>2. q \in Answers(d.log[k])
  BY <1>1 DEF Answers
<1> HIDE DEF k
<1>3. d.conf[q] # "cancelled"
  BY <1>1 DEF RequestsRow, AsDecided, k
<1>4. ASSUME NEW i \in 1 .. k, q \in d.log[i].results PROVE FALSE
  <2>1. PICK j \in 1 .. k : j < i /\ q \in Answers(d.log[j])
    BY <1>3, <1>4 DEF RequestsRow, AsDecided, k
  <2>2. j = k
    BY <1>1, <1>2, <2>1 DEF RequestsRow, AnsweredAfter, k
  <2> QED
    BY <1>1, <2>1, <2>2
<1> QED
  BY <1>1, <1>2, <1>4 DEF k

LEMMA StatusGrows == ASSUME NEW d \in Sessions, NEW s \in Statuses PROVE Grows(d, WithStatus(d, s))
BY GrowsSame, WithStatusFacts

LEMMA CancelledGrows ==
    ASSUME NEW d \in Sessions
    PROVE  Grows(d, Cancelled(d)) /\ \A n : Grows(d, CancelledTo(d, n))
<1>1. \A r \in Requests : Cancelled(d).conf[r] = d.conf[r] \/ d.conf[r] = "pending"
  BY CancelledFacts
<1>2. Grows(d, Cancelled(d))
  BY <1>1, CancelledFacts, DecisionGrows
<1>3. ASSUME NEW n PROVE Grows(d, CancelledTo(d, n))
  <2>1. \A r \in Requests : CancelledTo(d, n).conf[r] = d.conf[r] \/ d.conf[r] = "pending"
    BY CancelledFacts
  <2>2. CancelledTo(d, n) \in Sessions /\ CancelledTo(d, n).log = d.log
    BY CancelledFacts
  <2> QED
    BY <2>1, <2>2, DecisionGrows
<1> QED
  BY <1>2, <1>3

LEMMA StopGrows ==
    ASSUME TypeInv
    PROVE  Grows(db, StopRow) /\ Grows(db, WithStatus(StopRow, "stopped"))
<1>1. db \in Sessions /\ Grows(db, db) /\ StopRow \in Sessions
  BY GrowsSame, StopRowFacts DEF TypeInv
<1>2. Cancelled(db) \in Sessions /\ Grows(db, Cancelled(db))
  BY <1>1, CancelledFacts, CancelledGrows
<1>3. Grows(Cancelled(db), WithAnswers(Cancelled(db)))
  BY <1>2, AnswersGrow
<1>4. Grows(db, WithAnswers(Cancelled(db)))
  BY <1>2, <1>3, GrowsThen
<1>5. Grows(db, StopRow)
  BY <1>1, <1>4 DEF StopRow
<1>6. Grows(StopRow, WithStatus(StopRow, "stopped"))
  BY <1>1, StatusGrows DEF Statuses
<1> QED
  BY <1>5, <1>6, GrowsThen

LEMMA StartGrows ==
    ASSUME TypeInv
    PROVE  Grows(db, Last(StartRows)) /\ \A i \in DOMAIN StartRows : Grows(db, StartRows[i])
<1>1. db \in Sessions /\ Grows(db, db)
  BY GrowsSame DEF TypeInv
<1>2. Grows(db, StopRow) /\ \A n : Grows(db, CancelledTo(db, n))
  BY <1>1, StopGrows, CancelledGrows
<1>3. Grows(db, WithAnswers(db)) /\ WithAnswers(db) \in Sessions
  BY <1>1, AnswersGrow, AnswerFacts
<1>4. Grows(db, WithStatus(db, "idle"))
  BY <1>1, StatusGrows DEF Statuses
<1>5. Grows(db, StartedRow)
  <2>1. ASSUME NEW s \in Statuses PROVE Grows(db, WithStatus(WithAnswers(db), s))
    BY <1>3, StatusGrows, GrowsThen
  <2> QED
    BY <2>1 DEF StartedRow, Statuses
<1>6. CASE db.status = "running"
  BY <1>1, <1>2, <1>6, StartRowsFacts
<1>7. CASE db.status # "running" /\ (db.status # "waiting" \/ Pending(db) # {})
  BY <1>1, <1>7, StartRowsFacts
<1>8. CASE db.status = "waiting" /\ Pending(db) = {} /\ Ready(db)
  BY <1>1, <1>3, <1>5, <1>8, StartRowsFacts
<1>9. CASE db.status = "waiting" /\ Pending(db) = {} /\ ~Ready(db)
  BY <1>1, <1>4, <1>9, StartRowsFacts
<1> QED
  BY <1>6, <1>7, <1>8, <1>9

\* One entry that is about no request.
LEMMA PlainOne ==
    ASSUME NEW d \in Sessions, NEW f \in Sessions, NEW e, f.conf = d.conf,
           Len(f.log) = Len(d.log) + 1, f.log[Len(d.log) + 1] = e,
           \A i \in 1 .. Len(d.log) : f.log[i] = d.log[i],
           e.asks = {}, e.yes = {}, e.no = {}, e.results = {}
    PROVE  Grows(d, f)
<1>1. Len(d.log) \in Nat
  BY LogFacts
<1>2. \A i \in 1 .. Len(d.log) + 1 : ~(i <= Len(d.log)) => i = Len(d.log) + 1
  BY <1>1
<1>3. Len(d.log) <= Len(f.log)
  BY <1>1
<1> QED
  BY <1>2, <1>3, PlainGrows

LEMMA TruncatedGrows ==
    ASSUME TypeInv, NEW text
    PROVE  Grows(db, Truncated(text))
<1>1. db \in Sessions /\ Assistant({}) \in Entries
  BY EntryTypes DEF TypeInv
<1> DEFINE e == Assistant({})
<1>2. e.asks = {} /\ e.yes = {} /\ e.no = {} /\ e.results = {} /\ e \in Entries
  BY <1>1, EntryFacts
<1>3. CASE Truncated(text) = db
  BY <1>1, <1>3, GrowsSame
<1>4. CASE Truncated(text) # db
  <2>1. Truncated(text) = Appended(db, e)
    BY <1>4, TruncatedFacts
  <2> HIDE DEF e
  <2>2. /\ Truncated(text) \in Sessions /\ Truncated(text).conf = db.conf
        /\ Len(Truncated(text).log) = Len(db.log) + 1 /\ Truncated(text).log[Len(db.log) + 1] = e
        /\ \A i \in 1 .. Len(db.log) : Truncated(text).log[i] = db.log[i]
    BY <1>1, <1>2, <1>4, <2>1, AppendedFacts
  <2> QED
    BY <1>1, <1>2, <2>2, PlainOne
<1> QED
  BY <1>3, <1>4

LEMMA SubmitGrows ==
    ASSUME TypeInv, SubmitUserMessage
    PROVE  Grows(db, SubmitRow) /\ Grows(db, HeardRow) /\ Grows(db, WithStatus(HeardRow, "running"))
<1>1. db \in Sessions
  BY DEF TypeInv
<1>2. /\ SubmitRow \in Sessions
      /\ HeardRow \in Sessions /\ HeardRow.conf = SubmitRow.conf /\ Len(HeardRow.log) = Len(SubmitRow.log) + 1
      /\ HeardRow.log[Len(SubmitRow.log) + 1] = User(said + 1)
      /\ \A i \in 1 .. Len(SubmitRow.log) : HeardRow.log[i] = SubmitRow.log[i]
  BY SubmitDoes
<1>3. Grows(db, SubmitRow)
  BY <1>1, AnswersGrow, GrowsSame DEF SubmitRow
<1> DEFINE e == User(said + 1)
<1>4. e.asks = {} /\ e.yes = {} /\ e.no = {} /\ e.results = {}
  BY EntryFacts
<1> HIDE DEF e
<1>5. HeardRow.log[Len(SubmitRow.log) + 1] = e
  BY <1>2 DEF e
<1>6. Grows(SubmitRow, HeardRow)
  BY <1>2, <1>4, <1>5, PlainOne
<1>7. Grows(HeardRow, WithStatus(HeardRow, "running"))
  BY <1>2, StatusGrows DEF Statuses
<1>8. Grows(db, HeardRow)
  BY <1>3, <1>6, GrowsThen
<1> QED
  BY <1>3, <1>7, <1>8, GrowsThen

LEMMA DrainedGrows ==
    ASSUME TypeInv, NEW n \in 0 .. Len(db.queue)
    PROVE  Grows(db, DrainedTo(n))
<1> DEFINE f == DrainedTo(n)
           k == Len(db.log)
<1>1. /\ db \in Sessions /\ f \in Sessions /\ f.conf = db.conf /\ Len(f.log) = k + n
      /\ \A i \in 1 .. k : f.log[i] = db.log[i]
      /\ \A i \in 1 .. n : f.log[k + i] = User(db.queue[i])
  BY DrainedFacts DEF TypeInv
<1>2. k \in Nat /\ n \in Nat
  BY <1>1, LogFacts
<1> HIDE DEF f, k
<1>3. ASSUME NEW i \in 1 .. k + n, ~(i <= k)
      PROVE  f.log[i].asks = {} /\ f.log[i].yes = {} /\ f.log[i].no = {} /\ f.log[i].results = {}
  <2>1. i - k \in 1 .. n /\ k + (i - k) = i
    BY <1>2, <1>3
  <2>2. f.log[i] = User(db.queue[i - k])
    BY <1>1, <2>1
  <2> QED
    BY <2>2, EntryFacts
<1>4. k <= k + n
  BY <1>2
<1> QED
  BY <1>1, <1>3, <1>4, PlainGrows DEF f, k

\* The rows of FinishWaitingConfirmation.
LEMMA AsksRow ==
    ASSUME TypeInv, RequestsInv, NEW n
    PROVE  RequestsRow(AsksTo(Run, n)) /\ RequestsRow(WithStatus(AsksTo(Run, n), "waiting"))
<1> DEFINE f == AsksTo(Run, n)
<1>1. /\ db \in Sessions /\ f \in Sessions /\ f.log = db.log
      /\ \A q \in Requests : f.conf[q] = IF q \in Run.asks /\ q <= n THEN "pending" ELSE db.conf[q]
  BY AsksToFacts DEF TypeInv
<1> HIDE DEF f
<1>2. \A q \in Run.asks : db.conf[q] = "none" /\ q \in AskedIn(db)
  BY DEF RequestsInv, RunRow
<1>3. \A q \in Requests : f.conf[q] = db.conf[q] \/ (db.conf[q] = "none" /\ q \in AskedIn(db))
  BY <1>1, <1>2
<1>4. RequestsRow(f)
  BY <1>1, <1>3, ConfGrows DEF RequestsInv
<1>5. RequestsRow(WithStatus(f, "waiting"))
  BY <1>1, <1>4, StatusGrows DEF Statuses, Grows
<1> QED
  BY <1>4, <1>5 DEF f

LEMMA IntervalCount ==
    ASSUME NEW k \in Nat
    PROVE  Cardinality(1 .. k) = k
<1>1. 1 \in Int /\ k \in Int
  OBVIOUS
<1>2. Cardinality(1 .. k) = IF 1 > k THEN 0 ELSE k - 1 + 1
  BY <1>1, FS_Interval
<1> QED
  BY <1>2

\* The requests of a step are the next numbers.
LEMMA FreshIs ==
    ASSUME TypeInv, RequestsRow(db), NEW n \in 0 .. MaxRequests - Cardinality(AskedBefore)
    PROVE  /\ \E m \in 0 .. MaxRequests : AskedIn(db) \cup Fresh(n) = 1 .. m
           /\ \A q \in Fresh(n) : q \notin AskedIn(db) /\ q \in Requests /\ db.conf[q] = "none"
<1>1. db \in Sessions /\ DOMAIN db.log = 1 .. Len(db.log)
  BY LogFacts DEF TypeInv
<1>2. AskedBefore = AskedIn(db)
  BY <1>1 DEF AskedBefore, AskedIn
<1>3. PICK k \in 0 .. MaxRequests : AskedIn(db) = 1 .. k
  BY DEF RequestsRow, AskedOnce
<1>4. MaxRequests \in Nat /\ k \in Nat
  BY <1>3, AgentAssumption
<1>5. Cardinality(AskedBefore) = k
  BY <1>2, <1>3, <1>4, IntervalCount
<1>6. Fresh(n) = k + 1 .. k + n /\ n \in 0 .. MaxRequests - k
  BY <1>5 DEF Fresh
<1>7. k + n \in 0 .. MaxRequests /\ \A q \in k + 1 .. k + n : q \notin 1 .. k
  BY <1>3, <1>4, <1>6
<1>8. \A q : (q \in 1 .. k \/ q \in k + 1 .. k + n) <=> q \in 1 .. k + n
  BY <1>4, <1>6
<1>9. (1 .. k) \cup (k + 1 .. k + n) = 1 .. k + n
  BY <1>8
<1>10. \A q \in Fresh(n) : q \in Requests
  BY FreshFacts
<1>11. \A q \in Requests : q \notin AskedIn(db) => db.conf[q] = "none"
  BY DEF RequestsRow, AskedOnce
<1>12. \A q \in Fresh(n) : q \notin AskedIn(db)
  BY <1>3, <1>6, <1>7
<1>13. AskedIn(db) \cup Fresh(n) = 1 .. k + n
  BY <1>3, <1>6, <1>9
<1> QED
  BY <1>7, <1>10, <1>11, <1>12, <1>13

\* The results of the calls that a step ran.
LEMMA RanKeeps ==
    ASSUME TypeInv, RequestsInv
    PROVE  RequestsRow(RanRow("active")) /\ AskedIn(RanRow("active")) = AskedIn(db)
<1> DEFINE f == RanRow("active")
           e == Tool({}, {}, Run.owes)
<1>1. "active" \in Places /\ Run = runs["active"] /\ db \in Sessions
  BY DEF Places, Run, TypeInv
<1>2. /\ f \in Sessions /\ f.conf = db.conf
      /\ \/ f = db
         \/ /\ Len(f.log) = Len(db.log) + 1 /\ f.log[Len(db.log) + 1] = e
            /\ \A i \in 1 .. Len(db.log) : f.log[i] = db.log[i]
  BY <1>1, RanFacts
<1>3. e.asks = {} /\ e.yes = {} /\ e.no = {} /\ e.results = Run.owes
  BY EntryFacts
<1>4. \A q \in Run.owes : /\ \E i \in 1 .. Len(db.log) : q \in Answers(db.log[i])
                          /\ \A i \in 1 .. Len(db.log) : q \notin db.log[i].results
  BY DEF RequestsInv, RunRow
<1> HIDE DEF e, f
<1>5. \A i \in 1 .. Len(db.log) : \A q \in Answers(db.log[i]) : q \in AskedIn(db)
  BY <1>1, AskedInFacts DEF RequestsInv, RequestsRow, AnsweredAfter
<1>6. CASE f = db
  BY <1>6 DEF f, RequestsInv
<1>7. CASE f # db
  <2>1. Answers(e) = {}
    BY <1>3 DEF Answers
  <2>2. /\ \E m \in 0 .. MaxRequests : AskedIn(db) \cup e.asks = 1 .. m
        /\ RequestsRow(db)
    BY <1>3 DEF RequestsInv, RequestsRow, AskedOnce
  <2>3. /\ \A q \in e.results : q \in AskedIn(db)
        /\ \A q \in e.results, i \in 1 .. Len(db.log) : q \notin db.log[i].results
        /\ \A q \in e.results : \E i \in 1 .. Len(db.log) : q \in Answers(db.log[i])
    BY <1>3, <1>4, <1>5
  <2>4. RequestsRow(f) /\ AskedIn(f) = AskedIn(db) \cup e.asks
    BY <1>1, <1>2, <1>3, <1>7, <2>1, <2>2, <2>3, EntryKeeps
  <2> QED
    BY <1>3, <2>4 DEF f
<1> QED
  BY <1>6, <1>7

\* The step's own entry, with its requests.
LEMMA StepKeeps ==
    ASSUME TypeInv, RequestsInv, NEW n \in 0 .. MaxRequests - Cardinality(AskedBefore)
    PROVE  RequestsRow(StepRow("active", n)) /\ RunRow(StepRow("active", n), StepRun("active", n))
<1> DEFINE d == RanRow("active")
           f == StepRow("active", n)
           e == Assistant(Fresh(n))
           r == StepRun("active", n)
<1>1. "active" \in Places
  BY DEF Places
<1>2. d \in Sessions /\ d.conf = db.conf /\ RequestsRow(d) /\ AskedIn(d) = AskedIn(db)
  BY <1>1, RanFacts, RanKeeps
<1>3. /\ f \in Sessions /\ f.conf = db.conf
      /\ \/ f = d /\ e = Assistant({})
         \/ /\ Len(f.log) = Len(d.log) + 1 /\ f.log[Len(d.log) + 1] = e
            /\ \A i \in 1 .. Len(d.log) : f.log[i] = d.log[i]
  BY <1>1, StepRowFacts
<1>4. e.asks = Fresh(n) /\ e.yes = {} /\ e.no = {} /\ e.results = {} /\ Assistant({}).asks = {}
  BY EntryFacts
<1>5. /\ \E m \in 0 .. MaxRequests : AskedIn(d) \cup e.asks = 1 .. m
      /\ \A q \in e.asks : q \notin AskedIn(d) /\ db.conf[q] = "none"
  BY <1>2, <1>4, FreshIs DEF RequestsInv
<1>6. r.asks = Fresh(n) /\ r.owes = {}
  <2>1. runs["active"] \in Runs
    BY <1>1, RunField
  <2> QED
    BY <2>1 DEF StepRun, Runs
<1> HIDE DEF d, e, f, r
<1>7. RequestsRow(f) /\ AskedIn(f) = AskedIn(d) \cup e.asks
  <2>1. CASE f = d /\ e = Assistant({})
    <3>1. e.asks = {}
      BY <1>4, <2>1
    <3> QED
      BY <1>2, <2>1, <3>1
  <2>2. CASE ~(f = d /\ e = Assistant({}))
    <3>1. Answers(e) = {}
      BY <1>4 DEF Answers
    <3>2. /\ f.conf = d.conf /\ Len(f.log) = Len(d.log) + 1 /\ f.log[Len(d.log) + 1] = e
          /\ \A i \in 1 .. Len(d.log) : f.log[i] = d.log[i]
      BY <1>2, <1>3, <2>2
    <3>3. /\ \A q \in e.asks : q \notin AskedIn(d)
          /\ \A q \in Answers(e) \cup e.results : q \in AskedIn(d)
          /\ \A q \in Answers(e), i \in 1 .. Len(d.log) : q \notin Answers(d.log[i])
          /\ \A q \in e.results, i \in 1 .. Len(d.log) : q \notin d.log[i].results
          /\ \A q \in e.yes : d.conf[q] = "approved"
          /\ \A q \in e.no : d.conf[q] = "denied"
          /\ \A q \in e.results : d.conf[q] = "cancelled" \/ \E i \in 1 .. Len(d.log) : q \in Answers(d.log[i])
      BY <1>4, <1>5, <3>1
    <3>4. f \in Sessions /\ d \in Sessions /\ RequestsRow(d) /\ \E m \in 0 .. MaxRequests : AskedIn(d) \cup e.asks = 1 .. m
      BY <1>2, <1>3, <1>5
    <3> QED
      BY <3>2, <3>3, <3>4, EntryKeeps, SMTT(30)
  <2> QED
    BY <2>1, <2>2
<1>8. RunRow(f, r)
  BY <1>3, <1>4, <1>5, <1>6, <1>7 DEF RunRow
<1> QED
  BY <1>7, <1>8 DEF f, r

-----------------------------------------------------------------------------
(* The invariant on requests is kept *)

LEMMA RequestsNext ==
    ASSUME RequestsRow(db'), RunRow(db', Run')
    PROVE  RequestsInv'
<1>1. RequestsRow(db)' = RequestsRow(db')
  BY DEF RequestsRow, AskedOnce, AnsweredAfter, AsDecided, AskedIn, Answers
<1>2. RunRow(db, Run)' = RunRow(db', Run')
  BY DEF RunRow, AskedIn, Answers
<1> QED
  BY <1>1, <1>2 DEF RequestsInv

LEMMA NothingRow == ASSUME NEW d, NEW r, r.owes = {}, r.asks = {} PROVE RunRow(d, r)
BY DEF RunRow

\* A process that is down has only rows.
LEMMA DownRequests ==
    ASSUME RequestsRow(db'), runs' = [w \in Places |-> NoRun]
    PROVE  RequestsInv'
<1>1. Run' = NoRun
  BY AllStopped DEF Run, Places
<1>2. RunRow(db', NoRun)
  BY NothingRow, RunTypes
<1> QED
  BY <1>1, <1>2, RequestsNext

LEMMA GoesRequests ==
    ASSUME TypeInv, RequestsInv, NEW w \in Places, NEW r \in Runs, NEW slip, Goes(w, r, slip), RequestsRow(db'),
           w = "active" => RunRow(db', r), w = "orphan" => Grows(db, db')
    PROVE  RequestsInv'
<1>1. "active" \in Places /\ "orphan" # "active" /\ Run \in Runs
  BY RunField DEF Places, Run
<1>2. runs'[w] = r /\ \A v \in Places : v # w => runs'[v] = runs[v]
  BY RunPut DEF Goes
<1>3. CASE w = "active"
  BY <1>2, <1>3, RequestsNext DEF Run
<1>4. CASE w = "orphan"
  <2>1. Run' = Run
    BY <1>1, <1>2, <1>4 DEF Run
  <2>2. RunRow(db', Run)
    BY <1>1, <1>4 DEF Grows, RequestsInv
  <2> QED
    BY <2>1, <2>2, RequestsNext
<1> QED
  BY <1>3, <1>4 DEF Places

LEMMA StepRequests ==
    ASSUME TypeInv, PlaceInv, RequestsInv, NEW w \in Places, RunStep(w) \/ Aborts(w)
    PROVE  RequestsInv'
<1>1. Quiet(w) \/ Fails(w) \/ GoesIdle(w) \/ Asks(w) \/ Hears(w) \/ StepEnds(w)
  BY StepCases
<1>2. db \in Sessions /\ "idle" \in Statuses /\ "waiting" \in Statuses /\ Grows(db, db) /\ RequestsRow(db)
  BY GrowsSame DEF TypeInv, Statuses, RequestsInv
<1>3. w = "orphan" => runs[w].stop # "none" \/ runs[w].at \in {"none", "titling", "ending"}
  BY DEF PlaceInv
<1>4. ASSUME NEW slip, Goes(w, Ending, slip) \/ Died(w), Grows(db, db') PROVE RequestsInv'
  <2>1. RequestsRow(db') /\ RunRow(db', Ending) /\ Ending \in Runs
    BY <1>2, <1>4, NothingRow, RunTypes DEF Grows
  <2>2. CASE Died(w)
    BY <2>1, <2>2, DownRequests DEF Died
  <2>3. CASE Goes(w, Ending, slip)
    BY <1>4, <2>1, <2>3, GoesRequests
  <2> QED
    BY <1>4, <2>2, <2>3
<1>5. CASE Quiet(w)
  <2>1. PICK r \in Runs, slip \in SUBSET {"cut"} :
         /\ Goes(w, r, slip)
         /\ \/ r = NoRun /\ runs[w].at = "ending"
            \/ /\ r.asks = {} \/ r.asks = runs[w].asks
               /\ r.owes = {} \/ r.owes = runs[w].owes \/ r.owes = Owed(db)
    BY <1>5 DEF Quiet
  <2>2. db' = db
    BY <1>5 DEF Quiet
  <2>3. r.asks = {} \/ r.asks = runs[w].asks
    BY <2>1, RunTypes
  <2>4. r.owes = {} \/ r.owes = runs[w].owes \/ r.owes = Owed(db)
    BY <2>1, RunTypes
  <2>5. ASSUME w = "active" PROVE RunRow(db, r)
    <3>1. RunRow(db, runs[w])
      BY <2>5 DEF RequestsInv, Run
    <3>2. \A q \in r.owes : /\ \E i \in 1 .. Len(db.log) : q \in Answers(db.log[i])
                            /\ \A i \in 1 .. Len(db.log) : q \notin db.log[i].results
      BY <1>2, <2>4, <3>1, OwedRow DEF RunRow
    <3>3. \A q \in r.asks : db.conf[q] = "none" /\ q \in AskedIn(db)
      BY <2>3, <3>1 DEF RunRow
    <3> QED
      BY <3>2, <3>3 DEF RunRow
  <2> QED
    BY <1>2, <2>1, <2>2, <2>5, GoesRequests
<1>6. CASE Fails(w)
  <2>1. PICK text \in BOOLEAN, status \in {"error", AbortedStatus(runs[w])} :
          /\ \/ Died(w) /\ db' \in {Truncated(text), WithStatus(Truncated(text), status)}
             \/ /\ Goes(w, Ending, TextBuries(text) \cup Dropped(runs[w]))
                /\ db' = WithStatus(Truncated(text), status)
          /\ WithStatus(Truncated(text), status) \in Sessions
          /\ WithStatus(Truncated(text), status).conf = db.conf
          /\ WithStatus(Truncated(text), status).log = Truncated(text).log
    BY <1>6, FailsDoes
  <2>2. Grows(db, Truncated(text)) /\ Truncated(text) \in Sessions /\ Truncated(text).conf = db.conf
    BY TruncatedGrows, TruncatedFacts
  <2>3. Grows(Truncated(text), WithStatus(Truncated(text), status))
    BY <2>1, <2>2, GrowsSame
  <2>4. Grows(db, WithStatus(Truncated(text), status))
    BY <2>2, <2>3, GrowsThen
  <2> DEFINE slip == TextBuries(text) \cup Dropped(runs[w])
  <2>5. Grows(db, db') /\ (Died(w) \/ Goes(w, Ending, slip))
    BY <2>1, <2>2, <2>4
  <2> HIDE DEF slip
  <2> QED
    BY <1>4, <2>5
<1>7. CASE GoesIdle(w)
  <2>1. db' = WithStatus(db, "idle") /\ (Died(w) \/ Goes(w, Ending, {}))
    BY <1>7, FinishIdleDoes DEF GoesIdle
  <2> QED
    BY <1>2, <1>4, <2>1, StatusGrows
<1>8. CASE Asks(w)
  <2>1. w = "active"
    BY <1>3, <1>8 DEF Asks, Places
  <2> DEFINE end == WithStatus(AsksTo(Run, MaxRequests), "waiting")
  <2>2. \/ Died(w) /\ (db' = end \/ \E n \in 0 .. MaxRequests : db' = AsksTo(Run, n))
        \/ Goes(w, Ending, {}) /\ db' = end
    BY <1>8, <2>1, FinishWaitingDoes DEF Asks, Run
  <2>3. RequestsRow(end) /\ \A n : RequestsRow(AsksTo(Run, n))
    BY AsksRow
  <2> HIDE DEF end
  <2>4. RequestsRow(db')
    BY <2>2, <2>3
  <2>5. CASE Died(w)
    BY <2>4, <2>5, DownRequests DEF Died
  <2>6. CASE Goes(w, Ending, {})
    BY <2>1, <2>4, <2>6, NothingRow, RunTypes, GoesRequests
  <2> QED
    BY <2>2, <2>5, <2>6
<1>9. CASE Hears(w)
  <2>1. w = "active"
    BY <1>3, <1>9 DEF Hears, Places
  <2> DEFINE end == DrainedTo(Len(db.queue))
             slip == Dropped(runs[w]) \cup (IF db.queue # <<>> THEN Buries(db) ELSE {})
             r == Called(end, NextRound(runs[w]))
  <2>2. \/ Died(w) /\ \E n \in 0 .. Len(db.queue) : db' = DrainedTo(n)
        \/ Goes(w, r, slip) /\ db' = end
    BY <1>9, DrainDoes DEF Hears
  <2>3. end \in Sessions /\ \E n \in 0 .. Len(db.queue) : end = DrainedTo(n)
    BY DrainsTo
  <2>4. r \in Runs /\ r.asks = {} /\ r.owes = Owed(end)
    BY <2>3, CalledTypes
  <2> HIDE DEF r, slip, end
  <2>5. RequestsRow(db') /\ (db' = end => RequestsRow(end))
    <3>1. PICK n \in 0 .. Len(db.queue) : db' = DrainedTo(n)
      BY <2>2, <2>3
    <3> QED
      BY <1>2, <3>1, DrainedGrows DEF Grows
  <2>6. CASE Died(w)
    BY <2>5, <2>6, DownRequests DEF Died
  <2>7. CASE Goes(w, r, slip) /\ db' = end
    <3>1. RunRow(end, r)
      BY <2>3, <2>4, <2>5, <2>7, OwedRow DEF RunRow
    <3> QED
      BY <2>1, <2>4, <2>5, <2>7, <3>1, GoesRequests
  <2> QED
    BY <2>2, <2>6, <2>7
<1>10. CASE StepEnds(w)
  <2>1. w = "active"
    <3>1. runs[w].at = "streaming" /\ runs[w].stop = "none"
      BY <1>10, StepEndsDoes
    <3> QED
      BY <1>3, <3>1 DEF Places
  <2>2. PICK n \in 0 .. MaxRequests - Cardinality(AskedBefore) :
          \/ Died(w) /\ db' \in {RanRow(w), StepRow(w, n)}
          \/ Goes(w, StepRun(w, n), {}) /\ db' = StepRow(w, n)
    BY <1>10, StepEndsDoes
  <2>3. /\ RequestsRow(RanRow(w)) /\ RequestsRow(StepRow(w, n)) /\ RunRow(StepRow(w, n), StepRun(w, n))
        /\ StepRun(w, n) \in Runs
    BY <2>1, RanKeeps, StepKeeps, StepRowFacts
  <2>4. CASE Died(w)
    BY <2>2, <2>3, <2>4, DownRequests DEF Died
  <2>5. CASE Goes(w, StepRun(w, n), {}) /\ db' = StepRow(w, n)
    BY <2>1, <2>3, <2>5, GoesRequests
  <2> QED
    BY <2>2, <2>4, <2>5
<1> QED
  BY <1>1, <1>5, <1>6, <1>7, <1>8, <1>9, <1>10

\* The user and the process.
LEMMA RequestsKept == ASSUME TypeInv, PlaceInv, RequestsInv, [Next]_vars PROVE RequestsInv'
<1>1. db \in Sessions /\ Run \in Runs /\ "active" \in Places /\ RequestsRow(db) /\ RunRow(db, Run) /\ Grows(db, db)
  BY RunField, GrowsSame DEF TypeInv, Run, Places, RequestsInv
\* What the rows allow the run that was there, they allow one with other flags.
<1>2. ASSUME Grows(db, db'), Run'.owes = Run.owes, Run'.asks = Run.asks PROVE RequestsInv'
  <2>1. RequestsRow(db') /\ RunRow(db', Run)
    BY <1>1, <1>2 DEF Grows
  <2>2. RunRow(db', Run')
    BY <1>2, <2>1 DEF RunRow
  <2> QED
    BY <2>1, <2>2, RequestsNext
<1>3. ASSUME NEW r \in Runs, runs' = [runs EXCEPT !["active"] = r] PROVE Run' = r
  BY <1>1, <1>3, RunPut DEF Run
<1>4. ASSUME NEW r \in {NoRun, Started}, NEW slip, Goes("active", r, slip) \/ Died("active"), Grows(db, db')
      PROVE  RequestsInv'
  <2>1. RequestsRow(db') /\ RunRow(db', r) /\ r \in Runs
    BY <1>1, <1>4, NothingRow, RunTypes DEF Grows
  <2>2. CASE Died("active")
    BY <2>1, <2>2, DownRequests DEF Died
  <2>3. CASE Goes("active", r, slip)
    BY <1>1, <2>1, <2>3, GoesRequests
  <2> QED
    BY <1>4, <2>2, <2>3
<1>5. ASSUME NEW w \in Places, RunStep(w) \/ Aborts(w) PROVE RequestsInv'
  BY <1>5, StepRequests
<1>6. ASSUME NEW steer \in BOOLEAN, Enqueue(steer) PROVE RequestsInv'
  <2>1. /\ db' \in Sessions /\ db'.conf = db.conf /\ db'.log = db.log
        /\ \/ runs' = runs
           \/ runs' = [runs EXCEPT !["active"] = [Run EXCEPT !.steer = TRUE, !.aborted = TRUE]]
    BY <1>6, EnqueueDoes
  <2>2. Grows(db, db')
    BY <1>1, <2>1, GrowsSame
  <2>3. CASE runs' = runs
    BY <1>2, <2>2, <2>3 DEF Run
  <2>4. CASE runs' = [runs EXCEPT !["active"] = [Run EXCEPT !.steer = TRUE, !.aborted = TRUE]]
    <3> DEFINE r == [Run EXCEPT !.steer = TRUE, !.aborted = TRUE]
    <3>1. r \in Runs /\ r.owes = Run.owes /\ r.asks = Run.asks
      BY <1>1 DEF Runs
    <3>2. runs' = [runs EXCEPT !["active"] = r]
      BY <2>4
    <3> HIDE DEF r
    <3> QED
      BY <1>2, <1>3, <2>2, <3>1, <3>2
  <2> QED
    BY <2>1, <2>3, <2>4
<1>7. CASE SubmitUserMessage
  <2>1. Grows(db, db')
    BY <1>7, SubmitDoes, SubmitGrows
  <2>2. Died("active") \/ Goes("active", Started, Buries(SubmitRow))
    BY <1>7, SubmitDoes
  <2> QED
    BY <1>4, <2>1, <2>2
<1>8. ASSUME NEW n \in Messages, WithdrawQueuedMessage(n) PROVE RequestsInv'
  <2>1. runs' = runs /\ db' \in Sessions /\ db'.conf = db.conf /\ db'.log = db.log
    BY <1>8, WithdrawDoes
  <2>2. Grows(db, db') /\ Run' = Run
    BY <1>1, <2>1, GrowsSame DEF Run
  <2> QED
    BY <1>2, <2>2
<1>9. ASSUME NEW why \in {"manual", "shutdown"}, RequestStop(why), db' = db PROVE RequestsInv'
  <2>1. CASE runs' = runs
    BY <1>1, <1>2, <1>9, <2>1 DEF Run
  <2>2. CASE runs' = [runs EXCEPT !["active"] = [Run EXCEPT !.stop = why]]
    <3> DEFINE r == [Run EXCEPT !.stop = why]
    <3>1. r \in Runs /\ r.owes = Run.owes /\ r.asks = Run.asks
      BY <1>1 DEF Runs
    <3>2. runs' = [runs EXCEPT !["active"] = r]
      BY <2>2
    <3> HIDE DEF r
    <3> QED
      BY <1>1, <1>2, <1>3, <1>9, <3>1, <3>2
  <2> QED
    BY <1>9, <2>1, <2>2, RequestStopDoes
<1>10. CASE StopActive \/ Shutdown
  BY <1>9, <1>10 DEF StopActive, Shutdown
<1>11. CASE StopSession
  <2>1. Grows(db, db')
    BY <1>1, <1>11, StopDoes, StopGrows, CancelledGrows
  <2>2. Died("active") \/ Goes("active", NoRun, {})
    BY <1>11, StopDoes
  <2> QED
    BY <1>4, <2>1, <2>2
<1>12. ASSUME NEW r \in Requests, NEW yes \in BOOLEAN, ResolveConfirmation(r, yes) PROVE RequestsInv'
  <2> DEFINE d == DecidedRow(r, yes)
             e == WithAnswers(d)
             f == WithStatus(e, "running")
             slip == IF Active THEN {"early"} ELSE {}
  <2>1. /\ db.conf[r] = "pending" /\ d \in Sessions /\ d.log = db.log
        /\ \A q \in Requests : q # r => d.conf[q] = db.conf[q]
        /\ e \in Sessions
        /\ \/ /\ db' \in {d, e, f}
              /\ Died("active") \/ Goes("active", Started, {})
           \/ /\ db' = d
              /\ Goes("active", Run, slip) \/ Died("active")
    BY <1>12, ResolveDoes
  <2>2. Grows(db, d)
    BY <1>1, <2>1, DecisionGrows
  <2>3. Grows(d, e)
    BY <2>1, AnswersGrow
  <2> HIDE DEF d, e
  <2>4. Grows(e, f)
    BY <2>1, StatusGrows DEF Statuses
  <2> HIDE DEF f, slip
  <2>5. Grows(db, e) /\ Grows(db, f)
    BY <2>2, <2>3, <2>4, GrowsThen
  <2>6. Grows(db, db')
    BY <2>1, <2>2, <2>5
  <2>7. CASE Died("active") \/ Goes("active", Started, {})
    BY <1>4, <2>6, <2>7
  <2>8. CASE Goes("active", Run, slip)
    <3>1. RequestsRow(db') /\ RunRow(db', Run)
      BY <1>1, <2>6 DEF Grows
    <3> QED
      BY <1>1, <2>8, <3>1, GoesRequests
  <2> QED
    BY <2>1, <2>7, <2>8
<1>13. ASSUME runs'["active"] = NoRun, db' = db PROVE RequestsInv'
  BY <1>1, <1>13, NothingRow, RunTypes, RequestsNext DEF Run
<1>14. CASE StopTimesOut
  BY <1>1, <1>13, <1>14 DEF StopTimesOut, TypeInv
<1>15. CASE Crash
  BY <1>1, <1>13, <1>15 DEF Crash, TypeInv
<1>16. CASE Start
  <2>1. Grows(db, db')
    BY <1>16, StartGrows DEF Start
  <2>2. CASE runs' = runs
    BY <1>2, <2>1, <2>2 DEF Run
  <2>3. CASE runs' = [runs EXCEPT !["active"] = Started]
    <3>1. Run' = Started
      BY <1>3, <2>3, RunTypes
    <3>2. RequestsRow(db') /\ RunRow(db', Started)
      BY <1>1, <2>1, NothingRow, RunTypes DEF Grows
    <3> QED
      BY <3>1, <3>2, RequestsNext
  <2> QED
    BY <1>16, <2>2, <2>3 DEF Start
<1>17. CASE StartDies
  <2>1. runs' = [w \in Places |-> NoRun] /\ Grows(db, db')
    BY <1>17, StartGrows, DomainRuns DEF StartDies
  <2>2. RequestsRow(db')
    BY <1>1, <2>1 DEF Grows
  <2> QED
    BY <2>1, <2>2, DownRequests
<1>18. CASE UNCHANGED vars
  BY <1>1, <1>2, <1>18 DEF vars, Run
<1> QED
  BY <1>5, <1>6, <1>7, <1>8, <1>10, <1>11, <1>12, <1>14, <1>15, <1>16, <1>17, <1>18, DomainRuns DEF Next

LEMMA RequestsStart == Init => RequestsInv
<1> SUFFICES ASSUME Init PROVE RequestsInv
  OBVIOUS
<1>1. /\ db.log = << >> /\ Len(db.log) = 0 /\ Run = NoRun /\ \A r \in Requests : db.conf[r] = "none"
  BY DEF Init, Run
<1>2. AskedIn(db) = {}
  BY <1>1 DEF AskedIn
<1>3. 0 \in 0 .. MaxRequests /\ 1 .. 0 = {}
  BY AgentAssumption
<1>4. AskedOnce(db) /\ AnsweredAfter(db) /\ AsDecided(db)
  BY <1>1, <1>2, <1>3 DEF AskedOnce, AnsweredAfter, AsDecided
<1> QED
  BY <1>1, <1>4, NothingRow, RunTypes DEF RequestsInv, RequestsRow

LEMMA AnswersCount == TypeInv /\ RequestsInv => AnsweredOnce
<1> SUFFICES ASSUME TypeInv, RequestsInv, NEW r \in Requests
             PROVE  LET answers == {i \in DOMAIN db.log : r \in db.log[i].yes \cup db.log[i].no}
                        results == {i \in DOMAIN db.log : r \in db.log[i].results}
                    IN /\ Cardinality(answers) <= 1 /\ Cardinality(results) <= 1
                       /\ \A i \in answers : db.conf[r] = IF r \in db.log[i].yes THEN "approved" ELSE "denied"
                       /\ results # {} => answers # {} \/ db.conf[r] = "cancelled"
  BY DEF AnsweredOnce
<1> DEFINE answers == {i \in DOMAIN db.log : r \in db.log[i].yes \cup db.log[i].no}
           results == {i \in DOMAIN db.log : r \in db.log[i].results}
<1>1. DOMAIN db.log = 1 .. Len(db.log)
  BY LogFacts DEF TypeInv
<1>2. AnsweredAfter(db) /\ AsDecided(db)
  BY DEF RequestsInv, RequestsRow
<1>3. \A i, j \in answers : i = j
  BY <1>1, <1>2 DEF AnsweredAfter, Answers
<1>4. \A i, j \in results : i = j
  BY <1>1, <1>2 DEF AnsweredAfter
<1>5. \A i \in answers : db.conf[r] = IF r \in db.log[i].yes THEN "approved" ELSE "denied"
  BY <1>1, <1>2 DEF AsDecided
<1>6. results # {} => answers # {} \/ db.conf[r] = "cancelled"
  BY <1>1, <1>2 DEF AsDecided, Answers
<1> HIDE DEF answers, results
<1>7. Cardinality(answers) \in {0, 1} /\ Cardinality(results) \in {0, 1}
  BY <1>3, <1>4, FewCount
<1>8. Cardinality(answers) <= 1 /\ Cardinality(results) <= 1
  BY <1>7
<1> QED
  BY <1>5, <1>6, <1>8 DEF answers, results

-----------------------------------------------------------------------------
(* Requests that have no result yet *)

ResultsIn(d) == UNION {d.log[i].results : i \in 1 .. Len(d.log)}
Open(d)      == AskedIn(d) \ ResultsIn(d)

\* Each has an answer that a call made now takes up; or it is one that the last
\* message of the assistant waits for.
Settled(d)   == Open(d) \subseteq Owed(d)
Unsettled(d) == Waits(d) /\ Open(d) \subseteq Missing(d)
Calm(d)      == Settled(d) \/ (Unsettled(d) /\ d.status = "waiting")

\* A crash may leave a session that waits and does not say so.
RestRow(d, p) ==
    \/ Calm(d)
    \/ p = "down" /\ Unsettled(d) /\ d.status = "running" /\ Pending(d) # {}

AnswerInv ==
    /\ Run.asks # {} => Open(db) \subseteq Missing(db)
    /\ Run.asks = {} => RestRow(db, proc)
    /\ Run.asks = {} /\ Run.at \notin {"none", "ending"} => Settled(db)
    /\ Run.asks = {} /\ Run.at \in {"preparing", "streaming"} => Run.owes = Owed(db)

AnswerKept == slips \cap {"cut", "early", "outlived"} = {} => AnswerInv

LEMMA SameOpen ==
    ASSUME NEW d, NEW f, f.log = d.log
    PROVE  /\ Open(f) = Open(d) /\ Owed(f) = Owed(d) /\ LastAsked(f) = LastAsked(d)
           /\ Missing(f) = Missing(d) /\ Settled(f) = Settled(d)
<1>1. Open(f) = Open(d) /\ Owed(f) = Owed(d) /\ LastAsked(f) = LastAsked(d)
  BY DEF Open, AskedIn, ResultsIn, Owed, LastAsked
<1>2. Missing(f) = Missing(d)
  BY <1>1 DEF Missing
<1> QED
  BY <1>1, <1>2 DEF Settled

\* More entries leave open what was open, or make requests.
LEMMA OpenMore ==
    ASSUME NEW d \in Sessions, NEW f \in Sessions, NEW A, Len(d.log) <= Len(f.log),
           \A i \in 1 .. Len(d.log) : f.log[i] = d.log[i],
           \A i \in 1 .. Len(f.log) : ~(i <= Len(d.log)) => f.log[i].asks \subseteq A
    PROVE  /\ Open(f) \subseteq Open(d) \cup A
           /\ \A i \in 1 .. Len(f.log) : \A r \in f.log[i].results : r \notin Open(f)
<1> DEFINE k == Len(d.log)
           m == Len(f.log)
<1>1. k \in Nat /\ m \in Nat /\ k <= m
  BY LogFacts
<1>2. \A i \in 1 .. m : (i \in 1 .. k /\ f.log[i] = d.log[i]) \/ f.log[i].asks \subseteq A
  BY <1>1
<1>3. \A i \in 1 .. k : i \in 1 .. m /\ f.log[i] = d.log[i]
  BY <1>1
<1>4. \A r : r \in AskedIn(f) <=> \E i \in 1 .. m : r \in f.log[i].asks
  BY DEF AskedIn
<1>5. \A r : r \in AskedIn(d) <=> \E i \in 1 .. k : r \in d.log[i].asks
  BY DEF AskedIn
<1>6. \A r : r \in ResultsIn(f) <=> \E i \in 1 .. m : r \in f.log[i].results
  BY DEF ResultsIn
<1>7. \A r : r \in ResultsIn(d) <=> \E i \in 1 .. k : r \in d.log[i].results
  BY DEF ResultsIn
<1> HIDE DEF k, m
<1>8. ASSUME NEW r \in Open(f) PROVE r \in Open(d) \cup A
  <2>1. PICK i \in 1 .. m : r \in f.log[i].asks
    BY <1>4 DEF Open
  <2>2. r \notin ResultsIn(d)
    BY <1>3, <1>6, <1>7 DEF Open
  <2> QED
    BY <1>2, <1>5, <2>1, <2>2 DEF Open
<1>9. \A i \in 1 .. m : \A r \in f.log[i].results : r \notin Open(f)
  BY <1>6 DEF Open
<1> QED
  BY <1>8, <1>9 DEF m

LEMMA OpenEntry ==
    ASSUME NEW d \in Sessions, NEW f \in Sessions, NEW e,
           Len(f.log) = Len(d.log) + 1, f.log[Len(d.log) + 1] = e,
           \A i \in 1 .. Len(d.log) : f.log[i] = d.log[i]
    PROVE  Open(f) \subseteq (Open(d) \cup e.asks) \ e.results /\ Owed(f) = e.yes \cup e.no
<1>1. Len(d.log) \in Nat
  BY LogFacts
<1>2. \A i \in 1 .. Len(d.log) + 1 : ~(i <= Len(d.log)) => i = Len(d.log) + 1
  BY <1>1
<1>3. Len(d.log) <= Len(f.log) /\ Len(d.log) + 1 \in 1 .. Len(f.log) /\ Len(f.log) # 0
  BY <1>1
<1>4. /\ Open(f) \subseteq Open(d) \cup e.asks
      /\ \A i \in 1 .. Len(f.log) : \A r \in f.log[i].results : r \notin Open(f)
  <2>1. \A i \in 1 .. Len(f.log) : ~(i <= Len(d.log)) => f.log[i].asks \subseteq e.asks
    BY <1>2
  <2> QED
    BY <1>3, <2>1, OpenMore
<1>5. \A r \in e.results : r \notin Open(f)
  BY <1>3, <1>4
<1>6. Owed(f) = e.yes \cup e.no
  <2>1. f.log # << >>
    BY <1>3, LogFacts
  <2> QED
    BY <2>1, OwedFacts
<1> QED
  BY <1>4, <1>5, <1>6

\* appendApprovalResponsesIfReady settles what waits for nobody any more.
LEMMA AnswersSettle ==
    ASSUME NEW d \in Sessions, RequestsRow(d), Settled(d) \/ Unsettled(d)
    PROVE  LET f == WithAnswers(d) IN
           /\ Settled(d) \/ Pending(d) = {} => Settled(f)
           /\ Calm(d) => Calm(f)
<1> DEFINE f == WithAnswers(d)
<1>1. CASE ~Ready(d)
  <2>1. f = d
    BY <1>1 DEF WithAnswers
  <2>2. Pending(d) = {} => Settled(d)
    BY <1>1, WaitsReady DEF Unsettled
  <2> QED
    BY <2>1, <2>2
<1>2. CASE Missing(d) = {}
  <2>1. f = d
    BY <1>2 DEF WithAnswers
  <2>2. Settled(d)
    BY <1>2 DEF Unsettled, Settled
  <2> QED
    BY <2>1, <2>2
<1>3. CASE Ready(d) /\ Missing(d) # {}
  <2>1. LastAsked(d) # 0 /\ \A r \in Missing(d) : d.conf[r] \notin {"none", "pending"}
    BY <1>3 DEF Ready
  <2>2. ~Settled(d)
    <3>1. PICK r \in Missing(d) : TRUE
      BY <1>3
    <3>2. r \in AskedIn(d) /\ \A i \in 1 .. Len(d.log) : r \notin Answers(d.log[i]) /\ r \notin d.log[i].results
      BY <2>1, <3>1, Unanswered
    <3>3. r \in Open(d)
      BY <3>2 DEF Open, ResultsIn
    <3>4. r \notin Owed(d)
      BY <3>2, OwedFacts DEF Answers
    <3> QED
      BY <3>3, <3>4 DEF Settled
  <2>3. Open(d) \subseteq Missing(d)
    BY <2>2 DEF Unsettled
  <2>4. \A r \in Missing(d) : d.conf[r] \in {"approved", "denied", "cancelled"}
    <3>1. Missing(d) \subseteq Requests
      BY <2>1, MissingFacts
    <3> QED
      BY <2>1, <3>1 DEF Sessions, Decisions
  <2> DEFINE e == Answer(d)
  <2>5. /\ e.asks = {} /\ e.yes = {r \in Missing(d) : d.conf[r] = "approved"}
        /\ e.no = {r \in Missing(d) : d.conf[r] = "denied"}
        /\ e.results = {r \in Missing(d) : d.conf[r] = "cancelled"}
    BY EntryFacts DEF Answer
  <2>6. /\ f \in Sessions /\ Len(f.log) = Len(d.log) + 1 /\ f.log[Len(d.log) + 1] = e
        /\ \A i \in 1 .. Len(d.log) : f.log[i] = d.log[i]
    <3>1. f = Appended(d, e)
      BY <1>3 DEF WithAnswers, Answer
    <3>2. Missing(d) \subseteq Requests
      BY <2>1, MissingFacts
    <3>3. e \in Entries
      BY <3>2, EntryTypes DEF Answer
    <3>4. e # Assistant({})
      <4>1. e.by = "tool" /\ Assistant({}).by = "assistant"
        BY EntryFacts DEF Answer
      <4> QED
        BY <4>1
    <3> HIDE DEF e, f
    <3> QED
      BY <3>1, <3>3, <3>4, AppendedAlways
  <2> HIDE DEF e, f
  <2>7. Open(f) \subseteq (Open(d) \cup e.asks) \ e.results /\ Owed(f) = e.yes \cup e.no
    BY <2>6, OpenEntry
  <2>8. Settled(f)
    BY <2>3, <2>4, <2>5, <2>7 DEF Settled
  <2> QED
    BY <2>8 DEF Calm, f
<1> QED
  BY <1>1, <1>2, <1>3

\* Cancellations and decisions leave a calm session calm.
LEMMA MilderCalm ==
    ASSUME NEW d, NEW f, Milder(d, f), f.log = d.log
    PROVE  (Calm(d) => Calm(f)) /\ (Settled(d) => Settled(f)) /\ (Unsettled(d) => Unsettled(f))
BY SameOpen DEF Milder, Calm, Unsettled

\* What a model's entry leaves has no answer in it.
LEMMA AssistantOwes ==
    ASSUME NEW d \in Sessions, NEW A \in SUBSET Requests
    PROVE  Owed(Appended(d, Assistant(A))) = {}
<1> DEFINE e == Assistant(A)
           f == Appended(d, e)
<1>1. e \in Entries /\ e.yes = {} /\ e.no = {}
  BY EntryTypes, EntryFacts
<1>2. CASE e = Assistant({}) /\ d.log # << >> /\ Last(d.log) = e
  <2>1. f = d
    BY <1>2 DEF Appended
  <2>2. Owed(d) = Last(d.log).yes \cup Last(d.log).no
    BY <1>2 DEF Owed
  <2> QED
    BY <1>1, <1>2, <2>1, <2>2
<1>3. CASE ~(e = Assistant({}) /\ d.log # << >> /\ Last(d.log) = e)
  <2> DEFINE s == Append(d.log, e)
  <2>1. s \in Seq(Entries) /\ Len(s) = Len(d.log) + 1 /\ s[Len(d.log) + 1] = e /\ Len(d.log) \in Nat
    BY <1>1, LogFacts, AppendProperties
  <2>2. f = [d EXCEPT !.log = s]
    BY <1>3 DEF Appended
  <2> HIDE DEF s, e
  <2>3. f.log = s
    BY <2>2 DEF Sessions
  <2>4. s # << >> /\ Last(s) = e
    <3>1. Len(s) # 0
      BY <2>1
    <3> QED
      BY <2>1, <3>1, EmptySeq DEF Last
  <2>5. Owed(f) = e.yes \cup e.no
    BY <2>3, <2>4 DEF Owed
  <2> QED
    BY <1>1, <2>5 DEF e
<1> QED
  BY <1>2, <1>3

LEMMA AnswerNext ==
    ASSUME Run'.asks # {} => Open(db') \subseteq Missing(db'),
           Run'.asks = {} => RestRow(db', proc'),
           Run'.asks = {} /\ Run'.at \notin {"none", "ending"} => Settled(db'),
           Run'.asks = {} /\ Run'.at \in {"preparing", "streaming"} => Run'.owes = Owed(db')
    PROVE  AnswerInv'
<1>1. Open(db)' = Open(db') /\ Owed(db)' = Owed(db') /\ Missing(db)' = Missing(db') /\ Settled(db)' = Settled(db')
  BY DEF Open, AskedIn, ResultsIn, Owed, Missing, LastAsked, Settled
<1>2. RestRow(db, proc)' = RestRow(db', proc')
  BY DEF RestRow, Calm, Settled, Unsettled, Waits, Open, AskedIn, ResultsIn, Owed, Missing, LastAsked, Pending
<1> QED
  BY <1>1, <1>2 DEF AnswerInv

LEMMA DownAnswers ==
    ASSUME RestRow(db', "down"), proc' = "down", runs' = [w \in Places |-> NoRun]
    PROVE  AnswerInv'
<1>1. Run' = NoRun
  BY AllStopped DEF Run, Places
<1> QED
  BY <1>1, RunTypes, AnswerNext

LEMMA GoesAnswers ==
    ASSUME TypeInv, NEW r \in Runs, NEW slip, Goes("active", r, slip),
           r.asks # {} => Open(db') \subseteq Missing(db'),
           r.asks = {} => Calm(db'),
           r.asks = {} /\ r.at \notin {"none", "ending"} => Settled(db'),
           r.asks = {} /\ r.at \in {"preparing", "streaming"} => r.owes = Owed(db')
    PROVE  AnswerInv'
<1>1. "active" \in Places
  BY DEF Places
<1>2. Run' = r
  BY <1>1, RunPut DEF Goes, Run
<1>3. r.asks = {} => RestRow(db', proc')
  BY DEF RestRow
<1> QED
  BY <1>2, <1>3, AnswerNext

\* What a drained queue leaves open.
LEMMA DrainedSettled ==
    ASSUME TypeInv, Settled(db), NEW n \in 0 .. Len(db.queue), n = 0 \/ Owed(db) = {}
    PROVE  Settled(DrainedTo(n))
<1> DEFINE f == DrainedTo(n)
           k == Len(db.log)
<1>1. /\ db \in Sessions /\ f \in Sessions /\ Len(f.log) = k + n
      /\ \A i \in 1 .. k : f.log[i] = db.log[i]
      /\ \A i \in 1 .. n : f.log[k + i] = User(db.queue[i])
  BY DrainedFacts DEF TypeInv
<1>2. k \in Nat /\ n \in Nat
  BY <1>1, LogFacts
<1> HIDE DEF f
<1>3. Open(f) \subseteq Open(db) \cup {}
  <2>1. ASSUME NEW i \in 1 .. k + n, ~(i <= k) PROVE f.log[i].asks \subseteq {}
    <3>1. i - k \in 1 .. n /\ k + (i - k) = i
      BY <1>2, <2>1
    <3>2. f.log[i] = User(db.queue[i - k])
      BY <1>1, <3>1
    <3> QED
      BY <3>2, EntryFacts
  <2>2. k <= k + n
    BY <1>2
  <2>3. \A i \in 1 .. Len(f.log) : ~(i <= Len(db.log)) => f.log[i].asks \subseteq {}
    BY <1>1, <2>1
  <2>4. Len(db.log) <= Len(f.log)
    BY <1>1, <2>2
  <2> QED
    BY <1>1, <2>3, <2>4, OpenMore
<1>4. CASE Owed(db) = {}
  BY <1>3, <1>4 DEF Settled, f
<1>5. CASE n = 0
  <2>1. Len(f.log) = k
    BY <1>1, <1>2, <1>5
  <2>2. Owed(f) = Owed(db)
    <3>1. CASE k = 0
      <4>1. f.log = << >> /\ db.log = << >>
        BY <1>1, <2>1, <3>1, LogFacts
      <4> QED
        BY <4>1 DEF Owed
    <3>2. CASE k # 0
      <4>1. f.log # << >> /\ db.log # << >> /\ k \in 1 .. k
        BY <1>1, <1>2, <2>1, <3>2, LogFacts
      <4>2. f.log[k] = db.log[k]
        BY <1>1, <4>1
      <4> QED
        BY <1>1, <2>1, <4>1, <4>2, OwedFacts
    <3> QED
      BY <3>1, <3>2
  <2> QED
    BY <1>3, <2>2 DEF Settled, f
<1> QED
  BY <1>4, <1>5

\* An entry of the user or of the assistant put behind.
LEMMA PlainSettled ==
    ASSUME NEW d \in Sessions, NEW f \in Sessions, NEW e, Settled(d), Owed(d) = {},
           Len(f.log) = Len(d.log) + 1, f.log[Len(d.log) + 1] = e,
           \A i \in 1 .. Len(d.log) : f.log[i] = d.log[i], e.asks = {}
    PROVE  Settled(f)
<1>1. Open(f) \subseteq (Open(d) \cup e.asks) \ e.results
  BY OpenEntry
<1> QED
  BY <1>1 DEF Settled

\* A death after an entry like that is one that the history shows.
LEMMA DeathBuries ==
    ASSUME NEW w, NEW d \in Sessions, db \in Sessions, "cut" \notin Damage(w, d),
           Len(d.log) # Len(db.log), Len(d.log) \in Nat \ {0}, d.log[Len(d.log)].by # "tool"
    PROVE  Owed(db) = {}
<1>1. d.log # db.log /\ Last(d.log).by # "tool"
  BY DEF Last
<1>2. "cut" \notin Buries(db)
  BY <1>1 DEF Damage
<1> QED
  BY <1>2 DEF Buries

\* The rows of a step's end, with nothing left open but its own requests.
LEMMA StepOpen ==
    ASSUME TypeInv, Settled(db), Run.owes = Owed(db), NEW n \in 0 .. MaxRequests - Cardinality(AskedBefore)
    PROVE  LET f == StepRow("active", n) IN
           /\ Settled(RanRow("active"))
           /\ Fresh(n) = {} => Settled(f) /\ Owed(f) = {}
           /\ Fresh(n) # {} => Open(f) \subseteq Missing(f)
<1> DEFINE d == RanRow("active")
           f == StepRow("active", n)
           e == Tool({}, {}, Run.owes)
           g == Assistant(Fresh(n))
<1>1. "active" \in Places /\ Run = runs["active"] /\ db \in Sessions /\ Fresh(n) \in SUBSET Requests
  BY FreshFacts DEF Places, Run, TypeInv
<1>2. /\ d \in Sessions
      /\ \/ d = db /\ Run.owes = {}
         \/ /\ Len(d.log) = Len(db.log) + 1 /\ d.log[Len(db.log) + 1] = e
            /\ \A i \in 1 .. Len(db.log) : d.log[i] = db.log[i]
  BY <1>1, RanFacts
<1>3. e.asks = {} /\ e.results = Run.owes /\ g.asks = Fresh(n) /\ g.by = "assistant" /\ Assistant({}).asks = {}
  BY EntryFacts
<1>4. /\ f \in Sessions
      /\ \/ f = d /\ g = Assistant({})
         \/ /\ Len(f.log) = Len(d.log) + 1 /\ f.log[Len(d.log) + 1] = g
            /\ \A i \in 1 .. Len(d.log) : f.log[i] = d.log[i]
  BY <1>1, StepRowFacts
<1>5. Owed(f) = {}
  BY <1>1, <1>2, AssistantOwes DEF StepRow
<1> HIDE DEF d, e, f, g
<1>6. Open(d) = {}
  <2>1. CASE d = db /\ Run.owes = {}
    BY <2>1 DEF Settled
  <2>2. CASE ~(d = db /\ Run.owes = {})
    <3>1. Open(d) \subseteq (Open(db) \cup e.asks) \ e.results
      BY <1>1, <1>2, <2>2, OpenEntry
    <3> QED
      BY <1>3, <3>1 DEF Settled
  <2> QED
    BY <2>1, <2>2
<1>7. Open(f) \subseteq Fresh(n)
  <2>1. CASE f = d /\ g = Assistant({})
    BY <1>6, <2>1
  <2>2. CASE ~(f = d /\ g = Assistant({}))
    <3>1. Open(f) \subseteq (Open(d) \cup g.asks) \ g.results
      BY <1>2, <1>4, <2>2, OpenEntry
    <3> QED
      BY <1>3, <1>6, <3>1
  <2> QED
    BY <2>1, <2>2
<1>8. ASSUME Fresh(n) # {} PROVE Open(f) \subseteq Missing(f)
  <2> DEFINE k == Len(d.log)
  <2>1. g # Assistant({})
    BY <1>3, <1>8
  <2>2. Len(f.log) = k + 1 /\ f.log[k + 1] = g /\ k \in Nat
    BY <1>2, <1>4, <2>1, LogFacts
  <2> HIDE DEF k
  <2>3. k + 1 \in 1 .. Len(f.log) /\ \A i \in k + 1 + 1 .. Len(f.log) : FALSE
    BY <2>2
  <2>4. f.log[k + 1].by = "assistant"
    BY <1>3, <2>2
  <2>5. LastAsked(f) = k + 1 /\ LastAsked(f) # 0
    BY <1>4, <2>2, <2>3, <2>4, LastAskedIs
  <2>6. \A r \in f.log[k + 1].asks : r \in Missing(f)
    BY <1>4, <2>3, <2>5, MissingFacts
  <2> QED
    BY <1>3, <1>7, <2>2, <2>6
<1>9. Settled(d)
  BY <1>6 DEF Settled
<1>10. Fresh(n) = {} => Settled(f)
  BY <1>7 DEF Settled
<1> QED
  BY <1>5, <1>8, <1>9, <1>10 DEF d, f

\* The steps of the active run, one kind after the other.
LEMMA QuietAnswers ==
    ASSUME TypeInv, PlaceInv, AnswerInv, Quiet("active"), proc # "down", "cut" \notin slips'
    PROVE  AnswerInv'
<1>1. PICK r \in Runs, slip \in SUBSET {"cut"} :
        /\ Goes("active", r, slip)
        /\ \/ r = NoRun /\ runs["active"].at = "ending"
           \/ /\ runs["active"].at \in {"acquiring", "preparing", "streaming", "retrying"}
              /\ r.at \in {"preparing", "streaming", "retrying", "titling"}
              /\ r.asks # {} => r.at = "streaming" /\ r.asks = runs["active"].asks
              /\ r.at \in {"preparing", "streaming"} =>
                   \/ r.at = "preparing" /\ r.owes = Owed(db)
                   \/ runs["active"].at \in {"preparing", "streaming"} /\ r.owes = runs["active"].owes
              /\ runs["active"].at = "streaming" /\ runs["active"].asks # {} => r.asks = runs["active"].asks \/ "cut" \in slip
  BY DEF Quiet
<1>2. db' = db /\ Run = runs["active"] /\ "cut" \notin slip
  BY <1>1 DEF Quiet, Run, Goes
<1>3. Run.asks # {} => Run.at = "streaming"
  BY DEF PlaceInv, Run, Places
<1>4. CASE r = NoRun /\ Run.at = "ending"
  <2>1. Run.asks = {}
    BY <1>3, <1>4
  <2>2. Calm(db)
    BY <2>1 DEF AnswerInv, RestRow
  <2>3. r.asks = {} /\ r.at = "none" /\ r.owes = {}
    BY <1>4 DEF NoRun
  <2> QED
    BY <1>1, <1>2, <2>2, <2>3, GoesAnswers
<1>5. CASE ~(r = NoRun /\ Run.at = "ending")
  <2>1. CASE Run.asks # {}
    <3>1. r.asks = Run.asks /\ Open(db) \subseteq Missing(db)
      BY <1>1, <1>2, <1>3, <1>5, <2>1 DEF AnswerInv
    <3> QED
      BY <1>1, <1>2, <2>1, <3>1, GoesAnswers
  <2>2. CASE Run.asks = {}
    <3>1. r.asks = {} /\ Settled(db)
      BY <1>1, <1>2, <1>5, <2>2 DEF AnswerInv
    <3>2. r.at \in {"preparing", "streaming"} => r.owes = Owed(db)
      BY <1>1, <1>2, <1>5, <2>2 DEF AnswerInv
    <3> QED
      BY <1>1, <1>2, <3>1, <3>2, GoesAnswers DEF Calm
  <2> QED
    BY <2>1, <2>2
<1> QED
  BY <1>4, <1>5

\* What a run leaves that ends without a cut, with its rows settled.
LEMMA SettledEnds ==
    ASSUME TypeInv, NEW r \in Runs, NEW slip, Goes("active", r, slip) \/ Died("active"), Settled(db'), r.asks = {},
           r.at \in {"preparing", "streaming"} => r.owes = Owed(db')
    PROVE  AnswerInv'
<1>1. Calm(db')
  BY DEF Calm
<1>2. CASE Died("active")
  <2>1. RestRow(db', "down") /\ proc' = "down" /\ runs' = [w \in Places |-> NoRun]
    BY <1>1, <1>2 DEF Died, RestRow
  <2> QED
    BY <2>1, DownAnswers
<1>3. CASE Goes("active", r, slip)
  BY <1>1, <1>3, GoesAnswers
<1> QED
  BY <1>2, <1>3

\* A run that ends otherwise than by its requests, without a cut, has none.
LEMMA NoneDropped ==
    ASSUME TypeInv, RequestsInv, NEW r, NEW slip, "cut" \notin slips', db'.conf = db.conf,
           Died("active") \/ Goes("active", r, slip \cup Dropped(Run)) \/ Goes("active", r, Dropped(Run) \cup slip)
    PROVE  Run.asks = {}
<1> SUFFICES ASSUME Run.asks # {} PROVE FALSE
  OBVIOUS
<1>1. "cut" \in Dropped(Run)
  BY DEF Dropped
<1>2. CASE Died("active")
  <2>1. "cut" \notin Damage("active", db') /\ Run = runs["active"]
    BY <1>2 DEF Died, Run
  <2>2. ~ \E q \in Run.asks : db'.conf[q] = "none"
    BY <2>1 DEF Damage
  <2>3. \A q \in Run.asks : db.conf[q] = "none"
    BY DEF RequestsInv, RunRow
  <2> QED
    BY <2>2, <2>3
<1>3. CASE ~Died("active")
  BY <1>1, <1>3 DEF Goes
<1> QED
  BY <1>2, <1>3

LEMMA FailsAnswers ==
    ASSUME TypeInv, RequestsInv, AnswerInv, Fails("active"), "cut" \notin slips'
    PROVE  AnswerInv'
<1>0. "active" \in Places /\ Run = runs["active"] /\ db \in Sessions
  BY DEF Places, Run, TypeInv
<1>1. PICK text \in BOOLEAN, status \in {"error", AbortedStatus(runs["active"])} :
        /\ \/ Died("active") /\ db' \in {Truncated(text), WithStatus(Truncated(text), status)}
           \/ /\ Goes("active", Ending, TextBuries(text) \cup Dropped(runs["active"]))
              /\ db' = WithStatus(Truncated(text), status)
        /\ WithStatus(Truncated(text), status).log = Truncated(text).log
        /\ WithStatus(Truncated(text), status).conf = db.conf
  BY <1>0, FailsDoes
<1> DEFINE f == Truncated(text)
           e == Assistant({})
<1>2. e \in Entries /\ e.asks = {} /\ e.by = "assistant"
  BY EntryTypes, EntryFacts
<1>3. /\ f \in Sessions /\ f.conf = db.conf
      /\ \/ f = db
         \/ /\ text /\ Len(f.log) = Len(db.log) + 1 /\ f.log[Len(db.log) + 1] = e
            /\ \A i \in 1 .. Len(db.log) : f.log[i] = db.log[i]
  BY <1>0, <1>2, AppendedFacts DEF Truncated
<1> HIDE DEF f, e
<1>4. db'.conf = db.conf /\ db'.log = f.log /\ db' \in Sessions
  <2>1. db' \in Sessions
    BY <1>0, FailsDoes, <1>1, <1>3, StatusTypes, WithStatusFacts DEF f
  <2> QED
    BY <1>1, <1>3, <2>1 DEF f
<1>5. Run.asks = {}
  BY <1>0, <1>1, <1>4, NoneDropped
<1>6. Settled(db)
  BY <1>0, <1>5 DEF Fails, AnswerInv
<1>7. Settled(f)
  <2>1. CASE f = db
    BY <1>6, <2>1
  <2>2. CASE f # db
    <3>1. Len(db'.log) = Len(db.log) + 1 /\ Len(db.log) \in Nat /\ db'.log[Len(db'.log)] = e
      BY <1>0, <1>3, <1>4, <2>2, LogFacts
    <3>2. Len(db'.log) # Len(db.log) /\ Len(db'.log) \in Nat \ {0}
      BY <3>1
    <3>3. Owed(db) = {}
      <4>1. CASE Died("active")
        <5>1. "cut" \notin Damage("active", db')
          BY <4>1 DEF Died
        <5>2. db'.log[Len(db'.log)].by # "tool"
          BY <1>2, <3>1
        <5> QED
          BY <1>0, <1>4, <3>2, <5>1, <5>2, DeathBuries
      <4>2. CASE ~Died("active")
        <5>1. "cut" \notin TextBuries(text)
          BY <1>1, <4>2 DEF Goes
        <5> QED
          BY <1>3, <2>2, <5>1 DEF TextBuries, Buries
      <4> QED
        BY <4>1, <4>2
    <3> QED
      BY <1>0, <1>2, <1>3, <1>6, <2>2, <3>3, PlainSettled
  <2> QED
    BY <2>1, <2>2
<1>8. Settled(db')
  BY <1>4, <1>7, SameOpen
<1>9. Ending \in Runs /\ Ending.asks = {} /\ Ending.at = "ending"
  BY RunTypes DEF Ending, NoRun
<1> QED
  BY <1>1, <1>8, <1>9, SettledEnds

LEMMA IdleAnswers ==
    ASSUME TypeInv, PlaceInv, AnswerInv, GoesIdle("active")
    PROVE  AnswerInv'
<1>1. db' = WithStatus(db, "idle") /\ (Goes("active", Ending, {}) \/ Died("active"))
  BY FinishIdleDoes DEF GoesIdle
<1>2. Run.asks = {} /\ Run.at \in {"titling", "streaming"}
  BY DEF GoesIdle, PlaceInv, Run, Places
<1>3. Settled(db)
  BY <1>2 DEF AnswerInv
<1>4. db'.log = db.log
  BY <1>1, WithStatusFacts DEF TypeInv, Statuses
<1>5. Settled(db')
  BY <1>3, <1>4, SameOpen
<1>6. Ending \in Runs /\ Ending.asks = {} /\ Ending.at = "ending"
  BY RunTypes DEF Ending, NoRun
<1> QED
  BY <1>1, <1>5, <1>6, SettledEnds

LEMMA AsksAnswers ==
    ASSUME TypeInv, PlaceInv, StatusInv, StatusInv', RequestsInv, AnswerInv, Asks("active"), "cut" \notin slips'
    PROVE  AnswerInv'
<1>0. "active" \in Places /\ Run = runs["active"] /\ db \in Sessions
  BY DEF Places, Run, TypeInv
<1> DEFINE end == WithStatus(AsksTo(Run, MaxRequests), "waiting")
<1>1. \/ Died("active") /\ (db' = end \/ \E n \in 0 .. MaxRequests : db' = AsksTo(Run, n))
      \/ Goes("active", Ending, {}) /\ db' = end
  BY <1>0, FinishWaitingDoes DEF Asks
<1>2. end.log = db.log /\ end.status = "waiting"
  BY AsksToFacts, WithStatusFacts DEF Statuses
<1>3. Run.asks # {} /\ Run.at = "streaming" /\ Open(db) \subseteq Missing(db)
  BY <1>0 DEF Asks, AnswerInv
<1> HIDE DEF end
<1>4. CASE db' = end
  <2>1. Waits(db')
    <3>1. StatusRow(db)' /\ Waits(db)' = Waits(db')
      BY DEF StatusInv, Waits, LastAsked, Missing
    <3> QED
      BY <1>2, <1>4, <3>1 DEF StatusRow
  <2>2. Open(db') \subseteq Missing(db')
    BY <1>2, <1>3, <1>4, SameOpen
  <2>3. Calm(db')
    BY <1>2, <1>4, <2>1, <2>2 DEF Calm, Unsettled
  <2>4. Ending \in Runs /\ Ending.asks = {} /\ Ending.at = "ending"
    BY RunTypes DEF Ending, NoRun
  <2>5. CASE Died("active")
    BY <2>3, <2>5, DownAnswers DEF Died, RestRow
  <2>6. CASE Goes("active", Ending, {})
    BY <2>3, <2>4, <2>6, GoesAnswers
  <2> QED
    BY <1>1, <2>5, <2>6
<1>5. CASE db' # end
  <2>1. PICK n \in 0 .. MaxRequests : db' = AsksTo(Run, n)
    BY <1>1, <1>5
  <2>2. /\ db' \in Sessions /\ db'.status = db.status /\ db'.log = db.log
        /\ \A q \in Requests : db'.conf[q] = IF q \in Run.asks /\ q <= n THEN "pending" ELSE db.conf[q]
    BY <2>1, AsksToFacts
  <2>3. Died("active")
    BY <1>1, <1>5
  <2>4. \A q \in Run.asks : db'.conf[q] # "none"
    BY <1>0, <2>3 DEF Died, Damage
  <2>5. Run.asks \subseteq Requests /\ \A q \in Run.asks : db.conf[q] = "none"
    BY <1>0, RunField DEF RequestsInv, RunRow
  <2>6. Pending(db') # {}
    <3>1. PICK q \in Run.asks : TRUE
      BY <1>3
    <3>2. db'.conf[q] = "pending" /\ q \in Requests
      BY <2>2, <2>4, <2>5, <3>1
    <3> QED
      BY <3>2 DEF Pending
  <2>7. LastAsked(db) # 0 /\ db.log[LastAsked(db)].asks = Run.asks
    BY <1>3 DEF StatusInv
  <2>8. /\ LastAsked(db') # 0 /\ db'.log[LastAsked(db')].asks = Run.asks
        /\ Open(db') \subseteq Missing(db')
    BY <1>3, <2>2, <2>7, SameOpen
  <2>9. Waits(db')
    <3>1. Missing(db') \subseteq Run.asks
      BY <2>2, <2>8, MissingFacts
    <3> QED
      BY <1>3, <2>4, <2>8, <3>1 DEF Waits
  <2>10. db'.status = "running"
    <3>1. Active /\ Run.at # "ending"
      BY <1>3 DEF Active, NoRun
    <3> QED
      BY <2>2, <3>1 DEF StatusInv
  <2>11. RestRow(db', "down")
    BY <2>6, <2>8, <2>9, <2>10 DEF RestRow, Unsettled
  <2> QED
    BY <2>3, <2>11, DownAnswers DEF Died
<1> QED
  BY <1>4, <1>5

LEMMA HearsAnswers ==
    ASSUME TypeInv, RequestsInv, AnswerInv, Hears("active"), "cut" \notin slips'
    PROVE  AnswerInv'
<1>0. "active" \in Places /\ Run = runs["active"] /\ db \in Sessions /\ Run.at = "streaming"
  BY DEF Places, Run, TypeInv, Hears
<1> DEFINE k == Len(db.queue)
           r == Called(DrainedTo(k), NextRound(runs["active"]))
           slip == IF db.queue # <<>> THEN Buries(db) ELSE {}
<1>1. \/ Died("active") /\ \E n \in 0 .. k : db' = DrainedTo(n)
      \/ Goes("active", r, Dropped(Run) \cup slip) /\ db' = DrainedTo(k)
  BY <1>0, DrainDoes DEF Hears
<1>2. k \in 0 .. k /\ k \in Nat /\ Len(db.log) \in Nat /\ (db.queue = << >> => k = 0)
  BY <1>0, LogFacts
<1>3. r \in Runs /\ r.asks = {} /\ r.owes = Owed(DrainedTo(k))
  BY <1>0, <1>2, CalledTypes, DrainedFacts
<1> HIDE DEF k, r, slip
<1>4. PICK n \in 0 .. k : db' = DrainedTo(n) /\ (~Died("active") => n = k)
  BY <1>1, <1>2
<1>5. /\ db' \in Sessions /\ db'.conf = db.conf /\ Len(db'.log) = Len(db.log) + n
      /\ \A i \in 1 .. n : db'.log[Len(db.log) + i] = User(db.queue[i])
  BY <1>4, DrainedFacts DEF k
<1>6. Run.asks = {}
  BY <1>0, <1>1, <1>5, NoneDropped
<1>7. Settled(db)
  BY <1>0, <1>6 DEF AnswerInv
<1>8. n = 0 \/ Owed(db) = {}
  <2>1. CASE Died("active") /\ n # 0
    <3>1. n \in 1 .. n /\ Len(db.log) + n # Len(db.log) /\ Len(db.log) + n \in Nat \ {0}
      BY <1>2, <2>1
    <3>2. db'.log[Len(db'.log)] = User(db.queue[n]) /\ Len(db'.log) # Len(db.log) /\ Len(db'.log) \in Nat \ {0}
      BY <1>5, <3>1
    <3>3. db'.log[Len(db'.log)].by # "tool" /\ "cut" \notin Damage("active", db')
      BY <2>1, <3>2, EntryFacts DEF Died
    <3> QED
      BY <1>0, <1>5, <3>2, <3>3, DeathBuries
  <2>2. CASE ~Died("active")
    BY <1>1, <1>2, <1>4, <2>2 DEF Goes, slip, Buries
  <2> QED
    BY <2>1, <2>2
<1>9. Settled(db')
  BY <1>4, <1>7, <1>8, DrainedSettled DEF k
<1>10. ~Died("active") => r.owes = Owed(db') /\ Goes("active", r, Dropped(Run) \cup slip)
  BY <1>1, <1>3
<1>11. CASE Died("active")
  <2>1. NoRun \in Runs /\ NoRun.asks = {} /\ NoRun.at = "none"
    BY RunTypes DEF NoRun
  <2> QED
    BY <1>9, <1>11, <2>1, SettledEnds
<1>12. CASE ~Died("active")
  BY <1>3, <1>9, <1>10, <1>12, SettledEnds
<1> QED
  BY <1>11, <1>12

LEMMA EndsAnswers ==
    ASSUME TypeInv, AnswerInv, StepEnds("active")
    PROVE  AnswerInv'
<1>0. "active" \in Places /\ Run = runs["active"]
  BY DEF Places, Run
<1>1. Run.at = "streaming" /\ Run.asks = {}
  BY <1>0, StepEndsDoes
<1>2. PICK n \in 0 .. MaxRequests - Cardinality(AskedBefore) :
        \/ Died("active") /\ db' \in {RanRow("active"), StepRow("active", n)} /\ db' # StepRow("active", n)
        \/ Goes("active", StepRun("active", n), {}) /\ db' = StepRow("active", n)
  BY <1>0, StepEndsDoes
<1>3. Settled(db) /\ Run.owes = Owed(db)
  BY <1>1 DEF AnswerInv
<1> DEFINE f == StepRow("active", n)
           r == StepRun("active", n)
<1>4. /\ Settled(RanRow("active")) /\ (Fresh(n) = {} => Settled(f) /\ Owed(f) = {})
      /\ Fresh(n) # {} => Open(f) \subseteq Missing(f)
  BY <1>3, StepOpen
<1>5. r \in Runs
  BY <1>0, StepRowFacts
<1>6. r.asks = Fresh(n) /\ r.owes = {}
  <2>1. runs["active"] \in Runs
    BY <1>0, RunField
  <2> QED
    BY <2>1 DEF StepRun, Runs
<1> HIDE DEF f, r
<1>7. CASE Died("active") /\ db' = RanRow("active")
  <2>1. RestRow(db', "down") /\ proc' = "down" /\ runs' = [w \in Places |-> NoRun]
    BY <1>4, <1>7 DEF RestRow, Calm, Died
  <2> QED
    BY <2>1, DownAnswers
<1>8. CASE Goes("active", r, {}) /\ db' = f
  BY <1>4, <1>5, <1>6, <1>8, GoesAnswers DEF Calm
<1> QED
  BY <1>2, <1>7, <1>8 DEF f, r

LEMMA StepAnswers ==
    ASSUME TypeInv, PlaceInv, StatusInv, StatusInv', RequestsInv, AnswerInv, NEW w \in Places,
           RunStep(w) \/ Aborts(w), "outlived" \notin slips, "cut" \notin slips'
    PROVE  AnswerInv'
<1>1. proc # "down" /\ runs[w] # NoRun
  BY StepPlace
<1>2. w = "active"
  BY <1>1 DEF PlaceInv, Places
<1>3. Quiet(w) \/ Fails(w) \/ GoesIdle(w) \/ Asks(w) \/ Hears(w) \/ StepEnds(w)
  BY StepCases
<1> QED
  BY <1>1, <1>2, <1>3, QuietAnswers, FailsAnswers, IdleAnswers, AsksAnswers, HearsAnswers, EndsAnswers
\* The user and the process.
LEMMA SameRest ==
    ASSUME NEW d, NEW f, f.log = d.log, f.conf = d.conf, f.status = d.status
    PROVE  /\ Calm(f) = Calm(d) /\ Unsettled(f) = Unsettled(d)
           /\ \A p : RestRow(f, p) = RestRow(d, p)
<1>1. /\ LastAsked(f) = LastAsked(d) /\ Missing(f) = Missing(d) /\ Open(f) = Open(d) /\ Settled(f) = Settled(d)
  BY SameOpen
<1>2. Waits(f) = Waits(d) /\ Pending(f) = Pending(d)
  BY <1>1 DEF Waits, Pending
<1>3. Unsettled(f) = Unsettled(d)
  BY <1>1, <1>2 DEF Unsettled
<1>4. Calm(f) = Calm(d)
  BY <1>1, <1>3 DEF Calm
<1> QED
  BY <1>2, <1>3, <1>4 DEF RestRow

LEMMA SameAnswers ==
    ASSUME AnswerInv, db'.log = db.log, db'.conf = db.conf, db'.status = db.status,
           Run'.at = Run.at, Run'.asks = Run.asks, Run'.owes = Run.owes, proc = "down" => proc' = "down"
    PROVE  AnswerInv'
<1>1. Open(db') = Open(db) /\ Owed(db') = Owed(db) /\ Missing(db') = Missing(db) /\ Settled(db') = Settled(db)
  BY SameOpen
<1>2. RestRow(db', proc') = RestRow(db, proc')
  BY SameRest
<1>3. RestRow(db, proc) => RestRow(db, proc')
  BY DEF RestRow
<1>4. /\ Run'.asks # {} => Open(db') \subseteq Missing(db')
      /\ Run'.asks = {} => RestRow(db', proc')
      /\ Run'.asks = {} /\ Run'.at \notin {"none", "ending"} => Settled(db')
      /\ Run'.asks = {} /\ Run'.at \in {"preparing", "streaming"} => Run'.owes = Owed(db')
  BY <1>1, <1>2, <1>3 DEF AnswerInv
<1> QED
  BY <1>4, AnswerNext

\* A session that no run is active in.
LEMMA RestsCalm ==
    ASSUME AnswerInv, ~Active
    PROVE  RestRow(db, proc) /\ (proc # "down" => Calm(db))
<1>1. Run.asks = {}
  BY RunTypes DEF Active
<1> QED
  BY <1>1 DEF AnswerInv, RestRow

LEMMA StartedFacts == Started \in Runs /\ Started.asks = {} /\ Started.at = "acquiring"
BY RunTypes DEF Started, NoRun

LEMMA SubmitAnswers ==
    ASSUME TypeInv, StatusInv, AnswerInv, SubmitUserMessage, slips \cap {"early"} = {}, "cut" \notin slips'
    PROVE  AnswerInv'
<1> DEFINE end == WithStatus(HeardRow, "running")
<1>1. /\ Served /\ ~Active /\ MaySubmit /\ HeardRow \in Sessions /\ SubmitRow \in Sessions
      /\ Len(HeardRow.log) = Len(SubmitRow.log) + 1 /\ HeardRow.log[Len(SubmitRow.log) + 1] = User(said + 1)
      /\ \A i \in 1 .. Len(SubmitRow.log) : HeardRow.log[i] = SubmitRow.log[i]
      /\ \/ Died("active") /\ db' \in {SubmitRow, HeardRow, end}
         \/ Goes("active", Started, Buries(SubmitRow)) /\ db' = end
  BY SubmitDoes
<1>2. end \in Sessions /\ end.log = HeardRow.log
  BY <1>1, WithStatusFacts DEF Statuses
<1> HIDE DEF end
<1>3. db.status # "waiting"
  BY <1>1 DEF Served, MaySubmit, StatusInv
<1>4. SubmitRow = db
  BY <1>3 DEF SubmitRow
<1>5. Settled(db)
  BY <1>1, <1>3, RestsCalm DEF Calm, Served
<1>6. ASSUME db' \in {HeardRow, end} PROVE Owed(db) = {}
  <2>1. /\ db' \in Sessions /\ Len(db'.log) = Len(db.log) + 1 /\ db'.log[Len(db'.log)] = User(said + 1)
        /\ Len(db.log) \in Nat /\ db \in Sessions
    BY <1>1, <1>2, <1>4, <1>6, LogFacts
  <2>2. Len(db'.log) # Len(db.log) /\ Len(db'.log) \in Nat \ {0} /\ db'.log[Len(db'.log)].by # "tool"
    BY <2>1, EntryFacts
  <2>3. CASE Died("active")
    <3>1. "cut" \notin Damage("active", db')
      BY <2>3 DEF Died
    <3> QED
      BY <2>1, <2>2, <3>1, DeathBuries
  <2>4. CASE ~Died("active")
    <3>1. "cut" \notin Buries(db)
      BY <1>1, <1>4, <2>4 DEF Goes
    <3> QED
      BY <3>1 DEF Buries
  <2> QED
    BY <2>3, <2>4
<1>7. Settled(db')
  <2>1. CASE db' = SubmitRow
    BY <1>4, <1>5, <2>1
  <2>2. CASE db' \in {HeardRow, end}
    <3>1. User(said + 1).asks = {}
      BY EntryFacts
    <3>2. Settled(HeardRow)
      BY <1>1, <1>4, <1>5, <1>6, <2>2, <3>1, PlainSettled
    <3>3. db'.log = HeardRow.log
      BY <1>2, <2>2
    <3> QED
      BY <3>2, <3>3, SameOpen
  <2> QED
    BY <1>1, <2>1, <2>2
<1> QED
  BY <1>1, <1>7, StartedFacts, SettledEnds

\* Once everything that waits has been cancelled and answered, nothing is open.
LEMMA StopSettled ==
    ASSUME TypeInv, RequestsInv, Settled(db) \/ (Unsettled(db) /\ Pending(db) # {})
    PROVE  Settled(StopRow)
<1>1. db \in Sessions
  BY DEF TypeInv
<1>2. CASE Pending(db) = {}
  BY <1>2 DEF StopRow
<1>3. CASE Pending(db) # {}
  <2> DEFINE d == Cancelled(db)
  <2>1. d \in Sessions /\ d.log = db.log /\ Milder(db, d) /\ Grows(db, d)
    BY <1>1, CancelledFacts, CancelledMilder, CancelledGrows
  <2>2. Pending(d) = {}
    <3>1. \A r \in Requests : d.conf[r] = IF db.conf[r] = "pending" THEN "cancelled" ELSE db.conf[r]
      BY <1>1, CancelledFacts
    <3> QED
      BY <3>1 DEF Pending
  <2>3. RequestsRow(d)
    BY <2>1 DEF Grows, RequestsInv
  <2>4. StopRow = WithAnswers(d)
    BY <1>3 DEF StopRow
  <2> HIDE DEF d
  <2>5. Settled(d) \/ Unsettled(d)
    BY <2>1, MilderCalm
  <2> QED
    BY <2>1, <2>2, <2>3, <2>4, <2>5, AnswersSettle
<1> QED
  BY <1>2, <1>3

LEMMA StopSessionAnswers ==
    ASSUME TypeInv, StatusInv, RequestsInv, AnswerInv, StopSession, slips \cap {"early"} = {}
    PROVE  AnswerInv'
<1> DEFINE end == WithStatus(StopRow, "stopped")
<1>1. /\ Served /\ ~Active
      /\ \/ /\ Died("active")
            /\ db' \in {StopRow, end} \/ \E n \in 1 .. MaxRequests : db' = CancelledTo(db, n)
         \/ Goes("active", NoRun, {}) /\ db' = end
  BY StopDoes
<1>2. Calm(db) /\ db \in Sessions
  BY <1>1, RestsCalm DEF Served, TypeInv
<1>3. Settled(StopRow)
  <2>1. db.status = "waiting" => Pending(db) # {}
    BY <1>1 DEF Served, StatusInv
  <2>2. Settled(db) \/ (Unsettled(db) /\ Pending(db) # {})
    BY <1>2, <2>1 DEF Calm
  <2> QED
    BY <2>2, StopSettled
<1>4. Settled(end)
  <2>1. end.log = StopRow.log
    BY StopRowFacts, WithStatusFacts DEF Statuses
  <2> HIDE DEF end
  <2> QED
    BY <1>3, <2>1, SameOpen
<1> HIDE DEF end
<1>5. \A n : Calm(CancelledTo(db, n))
  <2> SUFFICES ASSUME NEW n PROVE Calm(CancelledTo(db, n))
    OBVIOUS
  <2>1. Milder(db, CancelledTo(db, n)) /\ CancelledTo(db, n).log = db.log
    BY <1>2, CancelledMilder, CancelledFacts
  <2> QED
    BY <1>2, <2>1, MilderCalm
<1>6. Calm(db')
  BY <1>1, <1>3, <1>4, <1>5 DEF Calm
<1>7. CASE Died("active")
  BY <1>6, <1>7, DownAnswers DEF Died, RestRow
<1>8. CASE Goes("active", NoRun, {})
  BY <1>6, <1>8, RunTypes, GoesAnswers
<1> QED
  BY <1>1, <1>7, <1>8

LEMMA ResolveAnswers ==
    ASSUME TypeInv, PlaceInv, StatusInv, RequestsInv, AnswerInv, NEW r \in Requests, NEW yes \in BOOLEAN,
           ResolveConfirmation(r, yes), "early" \notin slips'
    PROVE  AnswerInv'
<1> DEFINE d == DecidedRow(r, yes)
           e == WithAnswers(d)
           f == WithStatus(e, "running")
           slip == IF Active THEN {"early"} ELSE {}
<1>1. /\ Served /\ db.conf[r] = "pending"
      /\ d \in Sessions /\ d.status = db.status /\ d.queue = db.queue /\ d.log = db.log
      /\ d.conf[r] \notin {"none", "pending"}
      /\ \A q \in Requests : q # r => d.conf[q] = db.conf[q]
      /\ e \in Sessions /\ e.status = db.status /\ e.queue = db.queue /\ e.conf = d.conf
  BY ResolveDoes
<1>2. \/ /\ ~Active /\ Pending(d) = {} /\ Ready(d)
         /\ \/ Died("active") /\ db' \in {d, e, f}
            \/ Goes("active", Started, {}) /\ db' = f
      \/ /\ ~Resumes(d) /\ db' = d
         /\ Goes("active", Run, slip) \/ Died("active")
  BY ResolveDoes
<1>3. f.log = e.log
  BY <1>1, WithStatusFacts DEF Statuses
<1> HIDE DEF d, f
<1>4. db \in Sessions /\ Run \in Runs
  BY RunField DEF TypeInv, Run, Places
<1>5. Milder(db, d)
  <2>1. \A q \in Requests : db.conf[q] # "none" => d.conf[q] # "none"
    BY <1>1
  <2>2. Pending(d) \subseteq Pending(db)
    BY <1>1 DEF Pending
  <2>3. Waits(db) => Waits(d)
    BY <1>1, <1>4, <2>1, WaitsMore
  <2> QED
    BY <1>1, <2>2, <2>3 DEF Milder
<1>6. RequestsRow(d)
  <2>1. \A q \in Requests : d.conf[q] = db.conf[q] \/ db.conf[q] = "pending"
    BY <1>1
  <2>2. Grows(db, d)
    BY <1>1, <1>4, <2>1, DecisionGrows
  <2> QED
    BY <2>2 DEF Grows, RequestsInv
<1>7. proc # "down" /\ db.status = "waiting"
  BY <1>1 DEF Served, StatusInv, Pending
<1>8. Run.asks = {}
  <2>1. Run.asks # {} => Active /\ Run.at # "ending"
    BY RunTypes DEF PlaceInv, Active, Run, Places
  <2> QED
    BY <1>7, <2>1 DEF StatusInv
<1>9. Calm(d)
  <2>1. Calm(db)
    BY <1>7, <1>8 DEF AnswerInv, RestRow
  <2> QED
    BY <1>1, <1>5, <2>1, MilderCalm
<1>10. Pending(d) = {} => Settled(e) /\ Settled(f)
  <2>1. Pending(d) = {} => Settled(e)
    BY <1>1, <1>6, <1>9, AnswersSettle DEF Calm
  <2> HIDE DEF e
  <2> QED
    BY <1>3, <2>1, SameOpen
<1> HIDE DEF e
<1>11. CASE Died("active")
  <2>1. Calm(db')
    BY <1>2, <1>9, <1>10 DEF Calm
  <2> QED
    BY <1>11, <2>1, DownAnswers DEF Died, RestRow
<1>12. CASE Pending(d) = {} /\ Goes("active", Started, {}) /\ db' = f
  BY <1>10, <1>12, StartedFacts, SettledEnds
<1>13. CASE db' = d /\ Goes("active", Run, slip)
  <2>1. ~Active
    BY <1>13 DEF Goes
  <2>2. Run = NoRun
    BY <2>1 DEF Active
  <2> QED
    BY <1>4, <1>9, <1>13, <2>2, RunTypes, GoesAnswers
<1> QED
  BY <1>2, <1>11, <1>12, <1>13
LEMMA StartAnswers ==
    ASSUME TypeInv, PlaceInv, StatusInv, RequestsInv, AnswerInv, Start, slips \cap {"early"} = {}
    PROVE  AnswerInv'
<1>1. /\ proc \in {"stopped", "down"} /\ proc' = "up" /\ db' = Last(StartRows)
      /\ runs' = IF StartsRun THEN [runs EXCEPT !["active"] = Started] ELSE runs
  BY DEF Start
<1>2. db \in Sessions /\ "active" \in Places
  BY DEF TypeInv, Places
<1>3. Run' = IF StartsRun THEN Started ELSE Run
  BY <1>1, <1>2, RunPut, RunTypes DEF Run
<1>4. CASE Active
  <2>1. proc = "stopped" /\ ~StartsRun
    BY <1>1, <1>4 DEF PlaceInv, Active, Run, Places, StartsRun
  <2>2. /\ db.status = "running" => Pending(db) = {}
        /\ db.status = "waiting" => Pending(db) # {}
    BY <2>1 DEF StatusInv
  <2>3. db' = db
    <3>1. CASE db.status = "running"
      BY <1>1, <2>2, <3>1, StartRowsFacts, StopMilder
    <3>2. CASE db.status # "running"
      BY <1>1, <2>2, <3>2, StartRowsFacts
    <3> QED
      BY <3>1, <3>2
  <2>4. Run' = Run /\ (proc = "down" => proc' = "down")
    BY <1>3, <2>1
  <2> QED
    BY <2>3, <2>4, SameAnswers
<1>5. CASE ~Active
  <2>1. RestRow(db, proc) /\ Run = NoRun
    BY <1>5, RestsCalm DEF Active
  <2>2. CASE db.status = "running"
    <3>1. db' = StopRow /\ Run' = Started
      BY <1>1, <1>3, <1>5, <2>2, StartRowsFacts DEF StartsRun
    <3>2. Settled(db')
      BY <2>1, <2>2, <3>1, StopSettled DEF RestRow, Calm
    <3> QED
      BY <3>1, <3>2, StartedFacts, AnswerNext DEF RestRow, Calm
  <2>3. CASE db.status # "running" /\ (db.status # "waiting" \/ Pending(db) # {})
    <3>1. db' = db /\ Run' = NoRun
      BY <1>1, <1>3, <2>1, <2>3, StartRowsFacts DEF StartsRun
    <3>2. RestRow(db', proc')
      BY <2>1, <2>3, <3>1 DEF RestRow
    <3> QED
      BY <3>1, <3>2, RunTypes, AnswerNext
  <2>4. CASE db.status = "waiting" /\ Pending(db) = {}
    <3>1. Waits(db)
      BY <2>4 DEF StatusInv, StatusRow
    <3>2. Ready(db)
      BY <1>2, <2>4, <3>1, WaitsReady
    <3> DEFINE e == WithAnswers(db)
    <3>3. db' = WithStatus(e, "running") /\ Run' = Started
      BY <1>1, <1>3, <1>5, <2>4, <3>2, StartRowsFacts DEF StartedRow, StartsRun
    <3>4. Settled(e)
      <4>1. Settled(db) \/ Unsettled(db)
        BY <2>1 DEF RestRow, Calm
      <4> QED
        BY <1>2, <2>4, <4>1, AnswersSettle DEF RequestsInv
    <3>5. e \in Sessions
      BY <1>2, AnswerFacts
    <3> HIDE DEF e
    <3>6. db'.log = e.log
      BY <3>3, <3>5, WithStatusFacts DEF Statuses
    <3>7. Settled(db')
      BY <3>4, <3>6, SameOpen
    <3> QED
      BY <3>3, <3>7, StartedFacts, AnswerNext DEF RestRow, Calm
  <2> QED
    BY <2>2, <2>3, <2>4
<1> QED
  BY <1>4, <1>5

LEMMA StartDiesAnswers ==
    ASSUME TypeInv, PlaceInv, StatusInv, RequestsInv, AnswerInv, StartDies, "cut" \notin slips'
    PROVE  AnswerInv'
<1>1. PICK i \in DOMAIN StartRows : db' = StartRows[i] /\ slips' = slips \cup Interrupted(StartRows[i]) \cup Dropped(Run)
  BY DEF StartDies
<1>2. proc' = "down" /\ runs' = [w \in Places |-> NoRun] /\ db \in Sessions
  BY DomainRuns DEF StartDies, TypeInv
<1>3. db'.conf = db.conf /\ Run.asks = {}
  BY <1>1 DEF Interrupted, Dropped
<1>4. RestRow(db, "down")
  BY <1>3 DEF AnswerInv, RestRow
<1>5. RestRow(db', "down")
  <2>1. CASE db.status = "running"
    <3>1. CASE db' \in {db, StopRow}
      <4>1. db' = StopRow => Pending(db) = {}
        <5>1. \A r \in Requests : StopRow.conf[r] = IF db.conf[r] = "pending" THEN "cancelled" ELSE db.conf[r]
          BY StopRowFacts
        <5> QED
          BY <1>3, <5>1 DEF Pending
      <4>2. db' = db
        BY <3>1, <4>1, StopMilder
      <4> QED
        BY <1>4, <4>2
    <3>2. ASSUME NEW n, db' = CancelledTo(db, n) PROVE RestRow(db', "down")
      <4>1. db'.log = db.log /\ db'.status = db.status
        BY <1>2, <3>2, CancelledFacts
      <4> QED
        BY <1>3, <1>4, <4>1, SameRest
    <3> QED
      BY <1>1, <2>1, <3>1, <3>2, StartRowsFacts
  <2>2. CASE db.status # "running" /\ (db.status # "waiting" \/ Pending(db) # {})
    BY <1>1, <1>4, <2>2, StartRowsFacts
  <2>3. CASE db.status = "waiting" /\ Pending(db) = {}
    <3>1. Waits(db)
      BY <2>3 DEF StatusInv, StatusRow
    <3>2. Ready(db)
      BY <1>2, <2>3, <3>1, WaitsReady
    <3> DEFINE e == WithAnswers(db)
    <3>3. db' \in {db, e, StartedRow}
      BY <1>1, <2>3, <3>2, StartRowsFacts
    <3>4. Settled(e)
      <4>1. Settled(db) \/ Unsettled(db)
        BY <1>4 DEF RestRow, Calm
      <4> QED
        BY <1>2, <2>3, <4>1, AnswersSettle DEF RequestsInv
    <3>5. StartedRow.log = e.log
      <4>1. e \in Sessions
        BY <1>2, AnswerFacts
      <4> HIDE DEF e
      <4>2. \A s \in Statuses : WithStatus(e, s).log = e.log
        BY <4>1, WithStatusFacts
      <4> QED
        BY <4>2 DEF StartedRow, Statuses, e
    <3> HIDE DEF e
    <3>6. Settled(StartedRow)
      BY <3>4, <3>5, SameOpen
    <3> QED
      BY <1>4, <3>3, <3>4, <3>6 DEF RestRow, Calm
  <2> QED
    BY <2>1, <2>2, <2>3
<1> QED
  BY <1>2, <1>5, DownAnswers

LEMMA AnswersStay ==
    ASSUME TypeInv, PlaceInv, StatusKept, RequestsInv, AnswerKept, [Next]_vars, StatusKept'
    PROVE  AnswerKept'
<1> SUFFICES ASSUME slips' \cap {"cut", "early", "outlived"} = {} PROVE AnswerInv'
  BY DEF AnswerKept
<1>1. slips \subseteq slips' /\ slips \cap {"early"} = {} /\ "outlived" \notin slips
  BY SlipsStay
<1>2. StatusInv /\ StatusInv' /\ AnswerInv
  BY <1>1 DEF StatusKept, AnswerKept
<1>3. "active" \in Places /\ db \in Sessions /\ Run \in Runs
  BY RunField DEF Places, TypeInv, Run
<1>4. ASSUME NEW w \in Places, RunStep(w) \/ Aborts(w) PROVE AnswerInv'
  BY <1>1, <1>2, <1>4, StepAnswers
\* The active run changes its flags, or is asked to stop.
<1>5. ASSUME NEW r \in Runs, runs' = [runs EXCEPT !["active"] = r], r.at = Run.at, r.asks = Run.asks, r.owes = Run.owes
      PROVE  Run'.at = Run.at /\ Run'.asks = Run.asks /\ Run'.owes = Run.owes
  BY <1>3, <1>5, RunPut DEF Run
<1>6. ASSUME NEW steer \in BOOLEAN, Enqueue(steer) PROVE AnswerInv'
  <2>1. /\ db'.log = db.log /\ db'.conf = db.conf /\ db'.status = db.status /\ proc' = proc
        /\ runs' = runs \/ runs' = [runs EXCEPT !["active"] = [Run EXCEPT !.steer = TRUE, !.aborted = TRUE]]
    BY <1>6, EnqueueDoes
  <2>2. Run'.at = Run.at /\ Run'.asks = Run.asks /\ Run'.owes = Run.owes
    <3>1. CASE runs' = runs
      BY <3>1 DEF Run
    <3>2. CASE runs' # runs
      <4> DEFINE r == [Run EXCEPT !.steer = TRUE, !.aborted = TRUE]
      <4>1. r \in Runs /\ r.at = Run.at /\ r.asks = Run.asks /\ r.owes = Run.owes
        BY <1>3 DEF Runs
      <4>2. runs' = [runs EXCEPT !["active"] = r]
        BY <2>1, <3>2
      <4> HIDE DEF r
      <4> QED
        BY <1>5, <4>1, <4>2
    <3> QED
      BY <3>1, <3>2
  <2> QED
    BY <1>2, <2>1, <2>2, SameAnswers
<1>7. CASE SubmitUserMessage
  BY <1>1, <1>2, <1>7, SubmitAnswers
<1>8. ASSUME NEW n \in Messages, WithdrawQueuedMessage(n) PROVE AnswerInv'
  <2>1. db'.log = db.log /\ db'.conf = db.conf /\ db'.status = db.status /\ proc' = proc /\ runs' = runs
    BY <1>8, WithdrawDoes
  <2> QED
    BY <1>2, <2>1, SameAnswers DEF Run
<1>9. ASSUME NEW why \in {"manual", "shutdown"}, RequestStop(why)
      PROVE  Run'.at = Run.at /\ Run'.asks = Run.asks /\ Run'.owes = Run.owes
  <2>1. runs' = runs \/ runs' = [runs EXCEPT !["active"] = [Run EXCEPT !.stop = why]]
    BY <1>9, RequestStopDoes
  <2>2. CASE runs' = runs
    BY <2>2 DEF Run
  <2>3. CASE runs' # runs
    <3> DEFINE r == [Run EXCEPT !.stop = why]
    <3>1. r \in Runs /\ r.at = Run.at /\ r.asks = Run.asks /\ r.owes = Run.owes
      BY <1>3 DEF Runs
    <3>2. runs' = [runs EXCEPT !["active"] = r]
      BY <2>1, <2>3
    <3> HIDE DEF r
    <3> QED
      BY <1>5, <3>1, <3>2
  <2> QED
    BY <2>2, <2>3
<1>10. CASE StopActive
  <2>1. db' = db /\ proc' = proc /\ RequestStop("manual")
    BY <1>10 DEF StopActive
  <2> QED
    BY <1>2, <1>9, <2>1, SameAnswers
<1>11. CASE Shutdown
  <2>1. db' = db /\ proc = "up" /\ RequestStop("shutdown")
    BY <1>11 DEF Shutdown
  <2> QED
    BY <1>2, <1>9, <2>1, SameAnswers
<1>12. CASE StopSession
  BY <1>1, <1>2, <1>12, StopSessionAnswers
<1>13. ASSUME NEW r \in Requests, NEW yes \in BOOLEAN, ResolveConfirmation(r, yes) PROVE AnswerInv'
  BY <1>2, <1>13, ResolveAnswers
<1>14. CASE StopTimesOut
  BY <1>14 DEF StopTimesOut
<1>15. CASE Crash
  <2>1. /\ proc # "down" /\ proc' = "down" /\ runs' = [w \in Places |-> NoRun] /\ db' = db
        /\ slips' = slips \cup UNION {Dropped(runs[w]) : w \in Places}
    BY <1>15, DomainRuns DEF Crash
  <2>2. "cut" \notin Dropped(Run)
    BY <1>3, <2>1 DEF Run
  <2>3. Run.asks = {}
    BY <2>2 DEF Dropped
  <2>4. RestRow(db', "down")
    BY <1>2, <2>1, <2>3 DEF AnswerInv, RestRow
  <2> QED
    BY <2>1, <2>4, DownAnswers
<1>16. CASE Start
  BY <1>1, <1>2, <1>16, StartAnswers
<1>17. CASE StartDies
  BY <1>2, <1>17, StartDiesAnswers
<1>18. CASE UNCHANGED vars
  <2>1. db' = db /\ proc' = proc /\ runs' = runs
    BY <1>18 DEF vars
  <2> QED
    BY <1>2, <2>1, SameAnswers DEF Run
<1> QED
  BY <1>4, <1>6, <1>7, <1>8, <1>10, <1>11, <1>12, <1>13, <1>14, <1>15, <1>16, <1>17, <1>18, DomainRuns DEF Next

LEMMA AnswersStart == Init => AnswerKept
<1> SUFFICES ASSUME Init PROVE AnswerInv
  BY DEF AnswerKept
<1>1. db.log = << >> /\ Len(db.log) = 0 /\ Run = NoRun
  BY DEF Init, Run
<1>2. Open(db) = {}
  BY <1>1 DEF Open, AskedIn
<1>3. Settled(db)
  BY <1>2 DEF Settled
<1>4. NoRun.asks = {} /\ NoRun.at = "none"
  BY DEF NoRun
<1> QED
  BY <1>1, <1>3, <1>4 DEF AnswerInv, RestRow, Calm

LEMMA SettledAnswers == TypeInv /\ PlaceInv /\ AnswerKept => Answerable
<1> SUFFICES ASSUME TypeInv, PlaceInv, AnswerInv, Run.at = "preparing"
             PROVE  AskedBefore \subseteq Results \cup Owed(db)
  BY DEF AnswerKept, Answerable
<1>1. DOMAIN db.log = 1 .. Len(db.log)
  BY LogFacts DEF TypeInv
<1>2. AskedBefore = AskedIn(db) /\ Results = ResultsIn(db)
  BY <1>1 DEF AskedBefore, AskedIn, Results, ResultsIn
<1>3. Run.asks = {}
  BY DEF PlaceInv, Run, Places
<1>4. Open(db) \subseteq Owed(db)
  BY <1>3 DEF AnswerInv, Settled
<1> QED
  BY <1>2, <1>4 DEF Open

-----------------------------------------------------------------------------
(* The theorems *)

SessionInv == TypeInv /\ PlaceInv /\ MessagesInv /\ StatusKept /\ RequestsInv /\ AnswerKept

LEMMA SessionInvariant == Spec => []SessionInv
<1>1. Init => SessionInv
  BY TypesStart, PlaceStart, MessagesStart, RequestsStart, AnswersStart DEF SessionInv
<1>2. SessionInv /\ [Next]_vars => SessionInv'
  BY TypesKept, PlaceKept, MessagesKept, StatusStays, RequestsKept, AnswersStay DEF SessionInv
<1> QED
  BY <1>1, <1>2, PTL DEF Spec

\* The types, and where runs are: a process that is down runs nothing, and one that
\* shuts down still waits for the run it found, whatever steps a run, the user and
\* the process take (AgentSupervisor's activeRuns, start and stop).
THEOREM SessionTypes == Spec => []AgentTypeOK
<1>1. TypeInv /\ PlaceInv => AgentTypeOK
  <2> SUFFICES ASSUME TypeInv, PlaceInv PROVE AgentTypeOK
    OBVIOUS
  <2>1. /\ db.status \in {"idle", "running", "waiting", "stopped", "error"} /\ db.queue \in Seq(Messages)
        /\ db.conf \in [Requests -> {"none", "pending", "approved", "denied", "cancelled"}]
    BY DEF TypeInv, Sessions, Statuses, Decisions
  <2>2. \A i \in DOMAIN db.log : db.log[i].by \in {"user", "assistant", "tool"}
    BY LogFacts DEF TypeInv
  <2>3. DOMAIN runs = Places
    BY DomainRuns
  <2> QED
    BY <2>1, <2>2, <2>3 DEF TypeInv, PlaceInv, AgentTypeOK, Places
<1>2. SessionInv => AgentTypeOK
  BY <1>1 DEF SessionInv
<1> QED
  BY <1>2, SessionInvariant, PTL

\* No message of the user is lost or said twice: enqueue, submit, drain, withdraw,
\* stops, crashes between two writes and restarts leave it in the conversation or in
\* the queue, in one place; only a crash in the middle of drainQueuedMessages, which
\* empties the queue first, may lose one.
THEOREM MessagesAreKept == Spec => []NothingLost
<1>1. SessionInv => NothingLost
  BY MessagesCount DEF SessionInv
<1> QED
  BY <1>1, SessionInvariant, PTL

\* The status in the database is true of a session at rest: once a run has left
\* activeRuns and after start's recovery, the row does not say that it runs, a pending
\* confirmation is waited for, and who waits has a confirmation that is pending.
THEOREM StatusAtRest == Spec => []RestingStatus
<1>1. SessionInv => RestingStatus
  BY DEF SessionInv, StatusKept, StatusInv, RestingStatus
<1> QED
  BY <1>1, SessionInvariant, PTL

\* A session that has come to rest as idle has heard every message that was queued
\* before its run looked at the queue for the last time (run.ts, hasQueuedMessages at
\* the end of the stream): what is still in the queue was queued later, while the
\* title was made or the runtime given back.  Of a session of which a run has outlived
\* a shutdown nothing is said.
THEOREM HeardBeforeIdle == Spec => []IdleHasHeardAll
<1>1. SessionInv => IdleHasHeardAll
  BY DEF SessionInv, StatusKept, StatusInv, Heard, Only, IdleHasHeardAll
<1> QED
  BY <1>1, SessionInvariant, PTL

\* A request is answered once, an answer is what the user decided, and a tool call has
\* one result, which comes of an answer or of a cancellation: whatever stops, restarts,
\* crashes and late decisions do between appendApprovalResponsesIfReady, the recovery of
\* a start and the step that runs the approved calls.
THEOREM RequestsAnsweredOnce == Spec => []AnsweredOnce
<1>1. SessionInv => AnsweredOnce
  BY AnswersCount DEF SessionInv
<1> QED
  BY <1>1, SessionInvariant, PTL

\* Every call of the model finds each tool call that asked for an approval answered
\* or with its result: stops, steering, retries, decisions and restarts leave nothing
\* open, but for the slips that the history names (a request or an answer that was cut
\* off by an end of the run, a decision that came while the run was ending, a run that
\* had outlived a shutdown).
THEOREM CallsAreAnswerable == Spec => []Answerable
<1>1. SessionInv => Answerable
  BY SettledAnswers DEF SessionInv
<1> QED
  BY <1>1, SessionInvariant, PTL

================================================================================

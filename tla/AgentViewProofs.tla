---------------------------- MODULE AgentViewProofs ----------------------------
(***************************************************************************)
(* Theorems about AgentView, for every number of messages, pieces of text, *)
(* frames, requests and losses: how the news of each message stays on its  *)
(* way to the screen, and each piece of text is there once, whatever is    *)
(* lost or overtaken.                                                      *)
(***************************************************************************)
EXTENDS AgentView, FiniteSetTheorems, SequenceTheorems, WellFoundedInduction, TLAPS

-----------------------------------------------------------------------------
(* The highest seq                                                         *)

LEMMA LeastIs ==
    ASSUME NEW T, T \subseteq Nat, T # {}
    PROVE  \E x \in T : \A y \in T : x <= y
<1> DEFINE R == {p \in Nat \X Nat : p[1] < p[2]}
<1>1. IsWellFoundedOn(R, Nat)
  <2>1. R = OpToRel(<, Nat)
    BY DEF OpToRel
  <2> QED
    BY <2>1, NatLessThanWellFounded
<1>2. PICK x \in T : \A y \in T : ~ (<<y, x>> \in R)
  <2> HIDE DEF R
  <2> QED
    BY <1>1, WFMin
<1>3. ASSUME NEW y \in T PROVE x <= y
  <2>1. <<y, x>> \notin R /\ y \in Nat /\ x \in Nat
    BY <1>2
  <2>2. ~(y < x)
    BY <2>1
  <2> QED
    BY <2>1, <2>2
<1> QED
  BY <1>3

\* The least bound of numbers is one of them.
LEMMA MaxSeqIs ==
    ASSUME NEW n \in Nat, NEW S \in SUBSET (1 .. n)
    PROVE  /\ MaxSeq(S) \in 0 .. n
           /\ S = {} => MaxSeq(S) = 0
           /\ S # {} => MaxSeq(S) \in S
           /\ \A i \in S : i <= MaxSeq(S)
<1>1. CASE S = {}
  BY <1>1 DEF MaxSeq
<1>2. CASE S # {}
  <2> DEFINE U == {u \in Nat : \A i \in S : i <= u}
  <2>1. U \subseteq Nat /\ n \in U
    OBVIOUS
  <2>2. PICK u \in U : \A v \in U : u <= v
    <3> HIDE DEF U
    <3> QED
      BY <2>1, LeastIs
  <2>3. u \in S
    <3> SUFFICES ASSUME u \notin S PROVE FALSE
      OBVIOUS
    <3>1. u \in Nat /\ \A i \in S : i \in Nat /\ i >= 1 /\ i <= u /\ i # u
      OBVIOUS
    <3>2. PICK i \in S : i \in Nat /\ i >= 1 /\ i <= u
      BY <1>2, <3>1
    <3>3. u - 1 \in Nat /\ \A j \in S : j <= u - 1
      BY <3>1, <3>2
    <3>4. u <= u - 1
      BY <2>2, <3>3
    <3> QED
      BY <3>1, <3>4
  <2>4. \E m \in S : \A i \in S : i <= m
    BY <2>3
  <2>5. MaxSeq(S) = CHOOSE m \in S : \A i \in S : i <= m
    BY <1>2 DEF MaxSeq
  <2>6. MaxSeq(S) \in S /\ \A i \in S : i <= MaxSeq(S)
    BY <2>4, <2>5
  <2>7. MaxSeq(S) \in 1 .. n
    BY <2>6
  <2> QED
    BY <1>2, <2>6, <2>7
<1> QED
  BY <1>1, <1>2

-----------------------------------------------------------------------------
(* The invariant                                                           *)

Frames ==
    [k : {"delta"}, id : Nat, text : (SUBSET Pieces) \ {{}}]
    \cup [k : {"persisted"}, role : {"user", "assistant"}]
    \cup [k : {"finished"}, last : Nat]
    \cup [k : {"sync"}, text : SUBSET Pieces, last : Nat]

GatewayOK ==
    /\ msgs \in Seq(SUBSET Pieces) /\ queued \in Nat /\ said \in 0 .. MaxPieces
    /\ run \in [on : BOOLEAN, step : Nat, text : SUBSET Pieces, pending : SUBSET Pieces]
    /\ Len(msgs) + queued <= MaxMessages
    /\ run.pending \subseteq run.text /\ (run.text # {} => run.on)

SocketOK ==
    /\ down \in Seq(Frames) /\ Len(down) <= MaxFrames
    /\ up \in Seq({"sub", "unsub"})

ScreenOK ==
    /\ shown \in SUBSET (1 .. Len(msgs)) /\ loaded \in BOOLEAN
    /\ \A id \in DOMAIN live : live[id] \in SegmentType
    /\ \A id \in DOMAIN buffer : buffer[id] \in (SUBSET Pieces) \ {{}}

\* A fetch that does not start over starts at a message that is shown.
FetchOK ==
    /\ fetch \in [at : {"none", "asked", "answered"}, after : Nat, upTo : 0 .. Len(msgs)]
    /\ fetch.after # 0 => loaded /\ fetch.after \in shown
    /\ again => fetch.at # "none"

PostOK ==
    /\ post \in [at : {"none", "asked", "queued", "message"}, seq : 0 .. Len(msgs)]
    /\ post.at = "message" => post.seq # 0

\* Text marked stale has a fetch ahead that drops it.
StaleOK == (\E id \in DOMAIN live : live[id].stale) => timer \/ fetch.at # "none" \/ unfetched

TypeInv == GatewayOK /\ SocketOK /\ ScreenOK /\ FetchOK /\ PostOK /\ StaleOK

\* What lies before a message that is shown is shown, or has been jumped over.
Gapless == loaded => \A s \in shown : \A m \in 1 .. s : m \in shown \cup skipped

\* The subscription to a session that is looked at is served, or asked for last.
Subscribed ==
    active => /\ up # << >> => up[Len(up)] = "sub"
              /\ up = << >> => subs \/ ~ready

Tells(f, m) == f.k = "persisted" \/ (f.k = "sync" /\ m <= f.last)
News(q, m)  == \E i \in 1 .. Len(q) : Tells(q[i], m)

Brings(m) == \/ fetch.at = "asked" /\ fetch.after < m
             \/ fetch.at = "answered" /\ fetch.after < m /\ m <= fetch.upTo

\* A message is shown, or will be: news of it is on its way, or the fetch under way
\* brings it, or one is to come that asks for all there is.
Due(m) == \/ m \in shown \/ m \in skipped
          \/ Brings(m) \/ again \/ timer \/ up # << >> \/ News(down, m)

\* A failed fetch has lost what it would have brought, until another starts.
NoneForgotten ==
    active /\ ready /\ (fetch.at # "none" \/ ~unfetched) =>
        \A m \in 1 .. Len(msgs) : Due(m)

ViewInv == TypeInv /\ Gapless /\ Subscribed /\ NoneForgotten

-----------------------------------------------------------------------------
(* Frames                                                                  *)

LEMMA NewsOfAll ==
    ASSUME NEW q \in Seq(Frames), NEW p \in Seq(Frames)
    PROVE  /\ q \o p \in Seq(Frames) /\ Len(q \o p) = Len(q) + Len(p)
           /\ \A m : News(q, m) \/ News(p, m) => News(q \o p, m)
<1>1. /\ q \o p \in Seq(Frames) /\ Len(q \o p) = Len(q) + Len(p)
      /\ \A i \in 1 .. Len(q) + Len(p) : (q \o p)[i] = IF i <= Len(q) THEN q[i] ELSE p[i - Len(q)]
  BY ConcatProperties
<1>2. Len(q) \in Nat /\ Len(p) \in Nat
  OBVIOUS
<1>3. ASSUME NEW m, News(q, m) PROVE News(q \o p, m)
  <2>1. PICK i \in 1 .. Len(q) : Tells(q[i], m)
    BY <1>3 DEF News
  <2>2. i \in 1 .. Len(q \o p) /\ (q \o p)[i] = q[i]
    BY <1>1, <1>2
  <2> QED
    BY <2>1, <2>2 DEF News
<1>4. ASSUME NEW m, News(p, m) PROVE News(q \o p, m)
  <2>1. PICK i \in 1 .. Len(p) : Tells(p[i], m)
    BY <1>4 DEF News
  <2>2. i + Len(q) \in 1 .. Len(q \o p) /\ (q \o p)[i + Len(q)] = p[i]
    BY <1>1, <1>2
  <2> QED
    BY <2>1, <2>2 DEF News
<1> QED
  BY <1>1, <1>3, <1>4

LEMMA NewsAreRead ==
    ASSUME NEW q \in Seq(Frames), q # << >>
    PROVE  /\ Head(q) \in Frames /\ Tail(q) \in Seq(Frames) /\ Len(Tail(q)) = Len(q) - 1
           /\ \A m : News(q, m) => Tells(Head(q), m) \/ News(Tail(q), m)
<1>1. /\ Head(q) \in Frames /\ Tail(q) \in Seq(Frames) /\ Len(Tail(q)) = Len(q) - 1
      /\ \A i \in 1 .. Len(Tail(q)) : Tail(q)[i] = q[i + 1]
      /\ Head(q) = q[1] /\ Len(q) \in Nat
  BY HeadTailProperties
<1>2. ASSUME NEW m, News(q, m) PROVE Tells(Head(q), m) \/ News(Tail(q), m)
  <2>1. PICK i \in 1 .. Len(q) : Tells(q[i], m)
    BY <1>2 DEF News
  <2>2. CASE i = 1
    BY <1>1, <2>1, <2>2
  <2>3. CASE i # 1
    <3>1. i - 1 \in 1 .. Len(Tail(q)) /\ q[i] = Tail(q)[i - 1]
      BY <1>1, <2>3
    <3> QED
      BY <2>1, <3>1 DEF News
  <2> QED
    BY <2>2, <2>3
<1> QED
  BY <1>1, <1>2

LEMMA FramesAre ==
    /\ Persisted("user") \in Frames /\ Persisted("assistant") \in Frames
    /\ \A n \in Nat : Finished(n) \in Frames
    /\ \A n \in Nat : \A t \in SUBSET Pieces : [k |-> "sync", text |-> t, last |-> n] \in Frames
    /\ Persisted("user").k = "persisted" /\ Persisted("assistant").k = "persisted"
BY DEF Persisted, Finished, Frames

LEMMA FlushIs ==
    ASSUME GatewayOK
    PROVE  Flush(run) \in Seq(Frames)
<1>1. run.step \in Nat /\ run.pending \in SUBSET Pieces
  BY DEF GatewayOK
<1>2. CASE run.pending = {}
  BY <1>2 DEF Flush
<1>3. CASE run.pending # {}
  <2>1. Delta(run.step, run.pending) \in Frames
    BY <1>1, <1>3 DEF Delta, Frames
  <2> QED
    BY <1>3, <2>1 DEF Flush
<1> QED
  BY <1>2, <1>3

LEMMA SpeaksOfAll ==
    ASSUME NEW q \in Seq(Frames), NEW i \in 1 .. Len(q), q[i].k = "persisted", NEW m
    PROVE  News(q, m)
BY DEF News, Tells

-----------------------------------------------------------------------------
(* The gateway                                                             *)

\* What follows of a broadcast, whoever listens: old news stays, and whoever is
\* subscribed has news of what was persisted.
LEMMA BroadcastIs ==
    ASSUME SocketOK, NEW q \in Seq(Frames), Broadcast(q)
    PROVE  /\ down' \in Seq(Frames) /\ Len(down') <= MaxFrames
           /\ \A m : News(down, m) => News(down', m)
           /\ \A m : subs /\ News(q, m) => News(down', m)
<1>1. /\ down \o q \in Seq(Frames) /\ Len(down \o q) = Len(down) + Len(q)
      /\ \A m : News(down, m) \/ News(q, m) => News(down \o q, m)
  BY NewsOfAll DEF SocketOK
<1>2. Len(down) + Len(q) <= MaxFrames /\ (subs => down' = down \o q) /\ (~subs => down' = down)
  BY DEF Broadcast
<1>3. CASE subs
  BY <1>1, <1>2, <1>3
<1>4. CASE ~subs
  BY <1>2, <1>4 DEF SocketOK
<1> QED
  BY <1>3, <1>4

\* Messages are added, and said to be, when there is a listener.
LEMMA GatewayKeeps ==
    ASSUME ViewInv, NEW q \in Seq(Frames), Broadcast(q), GatewayOK', Len(msgs) <= Len(msgs'),
           msgs' = msgs \/ \E i \in 1 .. Len(q) : q[i].k = "persisted",
           UNCHANGED <<subs, up, ready, active, screen, timer, fetch, again, skipped, unfetched>>,
           PostOK'
    PROVE  ViewInv'
<1>0. /\ TypeInv /\ Gapless /\ Subscribed /\ NoneForgotten
      /\ Len(msgs) \in Nat /\ Len(msgs') \in Nat
  BY DEF ViewInv, TypeInv, GatewayOK
<1>1. /\ down' \in Seq(Frames) /\ Len(down') <= MaxFrames
      /\ \A m : News(down, m) => News(down', m)
      /\ \A m : subs /\ News(q, m) => News(down', m)
  BY <1>0, BroadcastIs DEF TypeInv
<1>2. SocketOK'
  BY <1>0, <1>1 DEF TypeInv, SocketOK
<1>3. ScreenOK'
  <2>1. shown \in SUBSET (1 .. Len(msgs'))
    BY <1>0 DEF TypeInv, ScreenOK
  <2> QED
    BY <1>0, <2>1 DEF TypeInv, ScreenOK, screen
<1>4. FetchOK'
  <2>1. fetch \in [at : {"none", "asked", "answered"}, after : Nat, upTo : 0 .. Len(msgs')]
    BY <1>0 DEF TypeInv, FetchOK
  <2> QED
    BY <1>0, <2>1 DEF TypeInv, FetchOK, screen
<1>5. StaleOK' /\ Gapless' /\ Subscribed'
  BY <1>0 DEF TypeInv, StaleOK, Gapless, Subscribed, screen
<1>6. NoneForgotten'
  <2> SUFFICES ASSUME active, ready, fetch.at # "none" \/ ~unfetched, NEW m \in 1 .. Len(msgs')
               PROVE  Due(m)'
    BY DEF NoneForgotten
  <2>1. CASE msgs' # msgs
    <3>1. PICK i \in 1 .. Len(q) : q[i].k = "persisted"
      BY <2>1
    <3>2. News(q, m)
      BY <3>1, SpeaksOfAll
    <3>3. up # << >> \/ subs
      BY <1>0 DEF Subscribed
    <3> QED
      BY <1>1, <3>2, <3>3 DEF Due
  <2>2. CASE msgs' = msgs
    <3>1. Due(m)
      BY <1>0, <2>2 DEF NoneForgotten
    <3> QED
      BY <1>1, <3>1 DEF Due, Brings, screen
  <2> QED
    BY <2>1, <2>2
<1> QED
  BY <1>2, <1>3, <1>4, <1>5, <1>6 DEF ViewInv, TypeInv

\* A user's message: behind a run, or a message of its own.
LEMMA SubmittingIs ==
    ASSUME ViewInv, Submit, UNCHANGED said
    PROVE  \E q \in Seq(Frames) :
              /\ Broadcast(q) /\ GatewayOK' /\ Len(msgs) <= Len(msgs')
              /\ msgs' = msgs \/ \E i \in 1 .. Len(q) : q[i].k = "persisted"
              /\ run.on \/ (Len(msgs') = Len(msgs) + 1)
<1>0. GatewayOK /\ SocketOK /\ Len(msgs) \in Nat /\ queued \in Nat /\ MaxMessages \in Nat
  BY ViewAssumption DEF ViewInv, TypeInv, GatewayOK
<1>1. CASE run.on
  <2>1. queued' = queued + 1 /\ UNCHANGED <<msgs, run, down>> /\ Len(msgs) + queued < MaxMessages
    BY <1>1 DEF Submit
  <2>2. GatewayOK'
    BY <1>0, <2>1 DEF GatewayOK
  <2>3. << >> \in Seq(Frames) /\ Broadcast(<< >>)
    <3>1. down \o << >> = down /\ Len(down) + Len(<< >>) <= MaxFrames
      BY <1>0, ConcatEmptySeq DEF SocketOK
    <3> QED
      BY <2>1, <3>1 DEF Broadcast
  <2>4. msgs' = msgs /\ Len(msgs) <= Len(msgs')
    BY <1>0, <2>1
  <2> QED
    BY <1>1, <2>2, <2>3, <2>4
<1>2. CASE ~run.on
  <2>1. /\ msgs' = Append(msgs, {}) /\ run' = [run EXCEPT !.on = TRUE, !.step = @ + 1]
        /\ Broadcast(<<Persisted("user")>>) /\ queued' = queued /\ Len(msgs) + queued < MaxMessages
    BY <1>2 DEF Submit
  <2>2. msgs' \in Seq(SUBSET Pieces) /\ Len(msgs') = Len(msgs) + 1
    BY <1>0, <2>1 DEF GatewayOK
  <2>3. GatewayOK'
    <3>1. /\ run' \in [on : BOOLEAN, step : Nat, text : SUBSET Pieces, pending : SUBSET Pieces]
          /\ run'.on /\ run'.text = run.text /\ run'.pending = run.pending
      <4>1. PICK n \in Nat : n = run.step + 1
        BY <1>0 DEF GatewayOK
      <4>2. run' = [run EXCEPT !.on = TRUE, !.step = n]
        BY <2>1, <4>1
      <4> QED
        BY <1>0, <4>2 DEF GatewayOK
    <3>2. Len(msgs') + queued' <= MaxMessages /\ queued' \in Nat
      BY <1>0, <2>1, <2>2
    <3> QED
      BY <1>0, <2>2, <3>1, <3>2 DEF GatewayOK
  <2>4. <<Persisted("user")>> \in Seq(Frames) /\ <<Persisted("user")>>[1].k = "persisted"
        /\ 1 \in 1 .. Len(<<Persisted("user")>>)
    BY FramesAre
  <2>5. Len(msgs) <= Len(msgs') /\ \E i \in 1 .. Len(<<Persisted("user")>>) : <<Persisted("user")>>[i].k = "persisted"
    BY <1>0, <2>2, <2>4
  <2> HIDE DEF GatewayOK
  <2> QED
    BY <2>1, <2>2, <2>3, <2>4, <2>5
<1> QED
  BY <1>1, <1>2

\* The request under way knows of no message that is not there.
LEMMA PostStays ==
    ASSUME TypeInv, GatewayOK', Len(msgs) <= Len(msgs'), post' = post
    PROVE  PostOK'
<1>1. Len(msgs) \in Nat /\ Len(msgs') \in Nat /\ PostOK
  BY DEF TypeInv, GatewayOK
<1>2. 0 .. Len(msgs) \subseteq 0 .. Len(msgs')
  BY <1>1
<1>3. post \in [at : {"none", "asked", "queued", "message"}, seq : 0 .. Len(msgs')]
  BY <1>1, <1>2 DEF PostOK
<1> QED
  BY <1>1, <1>3 DEF PostOK

LEMMA OtherSubmitsKeeps == ASSUME ViewInv, OtherSubmits PROVE ViewInv'
<1>1. /\ Submit /\ UNCHANGED said
      /\ UNCHANGED <<subs, up, ready, active, screen, timer, fetch, again, post, skipped, unfetched>>
  BY DEF OtherSubmits, http, slips
<1>2. PICK q \in Seq(Frames) :
         /\ Broadcast(q) /\ GatewayOK' /\ Len(msgs) <= Len(msgs')
         /\ msgs' = msgs \/ \E i \in 1 .. Len(q) : q[i].k = "persisted"
  BY <1>1, SubmittingIs
<1>3. PostOK'
  BY <1>1, <1>2, PostStays DEF ViewInv
<1> QED
  BY <1>1, <1>2, <1>3, GatewayKeeps

\* A step of the gateway with its frames.
LEMMA GatewayStep ==
    ASSUME ViewInv, NEW q \in Seq(Frames), Broadcast(q), GatewayOK', Len(msgs) <= Len(msgs'),
           msgs' = msgs \/ \E i \in 1 .. Len(q) : q[i].k = "persisted",
           UNCHANGED <<subs, up, ready, active, screen, http, skipped, unfetched>>
    PROVE  ViewInv'
<1>1. PostOK'
  BY PostStays DEF ViewInv, http
<1> QED
  BY <1>1, GatewayKeeps DEF http

\* Steps of the run keep its type, and the room for messages.
LEMMA RunIs ==
    ASSUME GatewayOK
    PROVE  /\ run.on \in BOOLEAN /\ run.step \in Nat /\ run.text \in SUBSET Pieces
           /\ run.pending \in SUBSET Pieces
           /\ Len(msgs) \in Nat /\ queued \in Nat /\ MaxMessages \in Nat
           /\ Append(msgs, run.text) \in Seq(SUBSET Pieces)
           /\ Len(Append(msgs, run.text)) = Len(msgs) + 1
<1>1. run.text \in SUBSET Pieces /\ msgs \in Seq(SUBSET Pieces)
  BY DEF GatewayOK
<1>2. Append(msgs, run.text) \in Seq(SUBSET Pieces) /\ Len(Append(msgs, run.text)) = Len(msgs) + 1
  BY <1>1, AppendProperties
<1> QED
  BY <1>1, <1>2, ViewAssumption DEF GatewayOK

LEMMA ModelSpeaksKeeps == ASSUME ViewInv, ModelSpeaks PROVE ViewInv'
<1>0. GatewayOK /\ SocketOK
  BY DEF ViewInv, TypeInv
<1>1. /\ said < MaxPieces /\ said' = said + 1 /\ run.on
      /\ run' = [run EXCEPT !.text = @ \cup {said'}, !.pending = @ \cup {said'}]
      /\ UNCHANGED <<msgs, queued, subs, socket, active, screen, http, slips>>
  BY DEF ModelSpeaks
<1>2. said' \in Pieces /\ said' \in 0 .. MaxPieces
  BY <1>0, <1>1, ViewAssumption DEF GatewayOK, Pieces
<1>3. GatewayOK'
  <2>1. /\ run' \in [on : BOOLEAN, step : Nat, text : SUBSET Pieces, pending : SUBSET Pieces]
        /\ run'.on /\ run'.text = run.text \cup {said'} /\ run'.pending = run.pending \cup {said'}
    BY <1>0, <1>1, <1>2 DEF GatewayOK
  <2> QED
    BY <1>0, <1>1, <1>2, <2>1 DEF GatewayOK
<1>4. << >> \in Seq(Frames) /\ Broadcast(<< >>)
  <2>1. down \o << >> = down /\ Len(down) + Len(<< >>) <= MaxFrames
    BY <1>0, ConcatEmptySeq DEF SocketOK
  <2> QED
    BY <1>1, <2>1 DEF Broadcast, socket
<1>5. msgs' = msgs /\ Len(msgs) <= Len(msgs')
  BY <1>0, <1>1, RunIs
<1> QED
  BY <1>1, <1>3, <1>4, <1>5, GatewayStep DEF socket, slips

LEMMA FlushDeltasKeeps == ASSUME ViewInv, FlushDeltas PROVE ViewInv'
<1>0. GatewayOK
  BY DEF ViewInv, TypeInv
<1>1. /\ Broadcast(Flush(run)) /\ run' = [run EXCEPT !.pending = {}]
      /\ UNCHANGED <<msgs, queued, said, subs, up, ready, upsets, active, screen, http, slips>>
  BY DEF FlushDeltas
<1>2. GatewayOK'
  BY <1>0, <1>1 DEF GatewayOK
<1>3. Flush(run) \in Seq(Frames)
  BY <1>0, FlushIs
<1>4. msgs' = msgs /\ Len(msgs) <= Len(msgs')
  BY <1>0, <1>1, RunIs
<1> QED
  BY <1>1, <1>2, <1>3, <1>4, GatewayStep DEF slips

LEMMA StepFinishesKeeps == ASSUME ViewInv, StepFinishes PROVE ViewInv'
<1>0. GatewayOK
  BY DEF ViewInv, TypeInv
<1> DEFINE p == <<Persisted("assistant")>>
<1>1. /\ msgs' = Append(msgs, run.text) /\ Len(msgs) + queued < MaxMessages
      /\ Broadcast(p \o Flush(run))
      /\ run' = [run EXCEPT !.text = {}, !.pending = {}, !.step = @ + 1]
      /\ UNCHANGED <<queued, said, subs, up, ready, upsets, active, screen, http, skipped, unfetched>>
  BY DEF StepFinishes
<1>2. msgs' \in Seq(SUBSET Pieces) /\ Len(msgs') = Len(msgs) + 1
  BY <1>0, <1>1, RunIs
<1>3. GatewayOK' /\ Len(msgs) <= Len(msgs')
  <2>1. /\ run' \in [on : BOOLEAN, step : Nat, text : SUBSET Pieces, pending : SUBSET Pieces]
        /\ run'.text = {} /\ run'.pending = {}
    <3>1. PICK n \in Nat : n = run.step + 1
      BY <1>0, RunIs
    <3>2. run' = [run EXCEPT !.text = {}, !.pending = {}, !.step = n]
      BY <1>1, <3>1
    <3> QED
      BY <1>0, <3>2 DEF GatewayOK
  <2>2. Len(msgs') + queued' <= MaxMessages /\ Len(msgs) <= Len(msgs')
    BY <1>0, <1>1, <1>2, RunIs
  <2> QED
    BY <1>0, <1>1, <1>2, <2>1, <2>2 DEF GatewayOK
<1>4. p \in Seq(Frames) /\ Len(p) = 1 /\ p[1].k = "persisted"
  BY FramesAre
<1> HIDE DEF p
<1>5. /\ p \o Flush(run) \in Seq(Frames) /\ 1 \in 1 .. Len(p \o Flush(run))
      /\ (p \o Flush(run))[1].k = "persisted"
  <2>1. Flush(run) \in Seq(Frames) /\ Len(Flush(run)) \in Nat
    BY <1>0, FlushIs
  <2>2. /\ p \o Flush(run) \in Seq(Frames) /\ Len(p \o Flush(run)) = Len(p) + Len(Flush(run))
        /\ \A i \in 1 .. Len(p) + Len(Flush(run)) :
              (p \o Flush(run))[i] = IF i <= Len(p) THEN p[i] ELSE Flush(run)[i - Len(p)]
    BY <1>4, <2>1, ConcatProperties
  <2> QED
    BY <1>4, <2>1, <2>2
<1> QED
  BY <1>1, <1>3, <1>5, GatewayStep

LEMMA DrainsQueueKeeps == ASSUME ViewInv, DrainsQueue PROVE ViewInv'
<1>0. GatewayOK
  BY DEF ViewInv, TypeInv
<1> DEFINE e == [i \in 1 .. queued |-> {}]
           p == [i \in 1 .. queued |-> Persisted("user")]
<1>1. /\ queued > 0 /\ msgs' = msgs \o e /\ queued' = 0
      /\ Broadcast(Flush(run) \o p)
      /\ run' = [run EXCEPT !.text = {}, !.pending = {}, !.step = @ + 1]
      /\ UNCHANGED <<said, subs, up, ready, upsets, active, screen, http, skipped, unfetched>>
  BY DEF DrainsQueue
<1>2. /\ queued \in Nat
      /\ e \in Seq(SUBSET Pieces) /\ Len(e) = queued
      /\ p \in Seq(Frames) /\ Len(p) = queued /\ \A i \in 1 .. queued : p[i] = Persisted("user")
  <2>1. queued \in Nat /\ Persisted("user") \in Frames /\ {} \in SUBSET Pieces
    BY <1>0, RunIs, FramesAre
  <2> QED
    BY <2>1
<1> HIDE DEF e, p
<1>3. msgs' \in Seq(SUBSET Pieces) /\ Len(msgs') = Len(msgs) + queued
  <2>1. msgs \in Seq(SUBSET Pieces)
    BY <1>0 DEF GatewayOK
  <2> QED
    BY <1>1, <1>2, <2>1, ConcatProperties
<1>4. GatewayOK' /\ Len(msgs) <= Len(msgs')
  <2>1. /\ run' \in [on : BOOLEAN, step : Nat, text : SUBSET Pieces, pending : SUBSET Pieces]
        /\ run'.text = {} /\ run'.pending = {}
    <3>1. PICK n \in Nat : n = run.step + 1
      BY <1>0, RunIs
    <3>2. run' = [run EXCEPT !.text = {}, !.pending = {}, !.step = n]
      BY <1>1, <3>1
    <3> QED
      BY <1>0, <3>2 DEF GatewayOK
  <2>2. Len(msgs) + queued <= MaxMessages /\ Len(msgs) \in Nat
    BY <1>0 DEF GatewayOK
  <2>3. Len(msgs') + queued' <= MaxMessages /\ Len(msgs) <= Len(msgs')
    BY <1>1, <1>2, <1>3, <2>2
  <2> QED
    BY <1>0, <1>1, <1>3, <2>1, <2>3 DEF GatewayOK
<1>5. Flush(run) \in Seq(Frames) /\ Len(Flush(run)) \in Nat
  BY <1>0, FlushIs
<1>6. /\ Flush(run) \o p \in Seq(Frames)
      /\ \E i \in 1 .. Len(Flush(run) \o p) : (Flush(run) \o p)[i].k = "persisted"
  <2>1. /\ Flush(run) \o p \in Seq(Frames) /\ Len(Flush(run) \o p) = Len(Flush(run)) + Len(p)
        /\ \A i \in 1 .. Len(Flush(run)) + Len(p) :
              (Flush(run) \o p)[i] = IF i <= Len(Flush(run)) THEN Flush(run)[i] ELSE p[i - Len(Flush(run))]
    BY <1>2, <1>5, ConcatProperties
  <2>2. /\ Len(Flush(run)) + 1 \in 1 .. Len(Flush(run)) + Len(p) /\ ~(Len(Flush(run)) + 1 <= Len(Flush(run)))
        /\ (Len(Flush(run)) + 1) - Len(Flush(run)) = 1 /\ 1 \in 1 .. queued
    BY <1>1, <1>2, <1>5
  <2>3. (Flush(run) \o p)[Len(Flush(run)) + 1] = Persisted("user")
    BY <1>2, <2>1, <2>2
  <2> QED
    BY <2>1, <2>2, <2>3, FramesAre
<1> QED
  BY <1>1, <1>4, <1>6, GatewayStep

\* What is broadcast at the end of a run.
LEMMA EndIs ==
    ASSUME NEW q \in Seq(Frames), NEW failed \in BOOLEAN, EndsWith(q, failed), Len(msgs') \in Nat, GatewayOK
    PROVE  /\ \E f \in Seq(Frames) :
                 /\ Broadcast(f)
                 /\ (\E i \in 1 .. Len(q) : q[i].k = "persisted") => \E i \in 1 .. Len(f) : f[i].k = "persisted"
           /\ run' \in [on : BOOLEAN, step : Nat, text : SUBSET Pieces, pending : SUBSET Pieces]
           /\ run'.text = {} /\ run'.pending = {}
<1> DEFINE t == IF failed THEN << >> ELSE <<Finished(Len(msgs'))>>
           f == q \o t
<1>1. Broadcast(f) /\ run' = [NoRun EXCEPT !.step = run.step]
  BY DEF EndsWith
<1>2. t \in Seq(Frames) /\ Len(t) \in Nat
  <2>1. Finished(Len(msgs')) \in Frames
    BY FramesAre
  <2>2. CASE failed
    BY <2>2
  <2>3. CASE ~failed
    BY <2>1, <2>3
  <2> QED
    BY <2>2, <2>3
<1> HIDE DEF t
<1>3. /\ f \in Seq(Frames) /\ Len(f) = Len(q) + Len(t) /\ Len(q) \in Nat
      /\ \A i \in 1 .. Len(q) + Len(t) : f[i] = IF i <= Len(q) THEN q[i] ELSE t[i - Len(q)]
  BY <1>2, ConcatProperties
<1> HIDE DEF f
<1>4. ASSUME NEW i \in 1 .. Len(q), q[i].k = "persisted" PROVE \E j \in 1 .. Len(f) : f[j].k = "persisted"
  <2>1. i \in 1 .. Len(q) + Len(t) /\ i <= Len(q)
    BY <1>2, <1>3
  <2>2. f[i] = q[i]
    BY <1>3, <2>1
  <2> QED
    BY <1>3, <1>4, <2>1, <2>2
<1>5. /\ run' \in [on : BOOLEAN, step : Nat, text : SUBSET Pieces, pending : SUBSET Pieces]
      /\ run'.text = {} /\ run'.pending = {}
  BY <1>1, RunIs DEF NoRun
<1> QED
  BY <1>1, <1>3, <1>4, <1>5

LEMMA FinishIdleKeeps == ASSUME ViewInv, FinishIdle PROVE ViewInv'
<1>0. GatewayOK /\ Len(msgs) \in Nat
  BY RunIs DEF ViewInv, TypeInv
<1>1. /\ msgs' = msgs /\ EndsWith(<< >>, FALSE)
      /\ UNCHANGED <<queued, said, subs, up, ready, upsets, active, screen, http, slips>>
  BY DEF FinishIdle
<1>2. << >> \in Seq(Frames)
  OBVIOUS
<1>3. Len(msgs') \in Nat /\ Len(msgs) <= Len(msgs')
  BY <1>0, <1>1
<1>4. /\ \E f \in Seq(Frames) : Broadcast(f)
      /\ run' \in [on : BOOLEAN, step : Nat, text : SUBSET Pieces, pending : SUBSET Pieces]
      /\ run'.text = {} /\ run'.pending = {}
  <2>1. FALSE \in BOOLEAN
    OBVIOUS
  <2> QED
    BY <1>0, <1>1, <1>2, <1>3, <2>1, EndIs
<1>5. GatewayOK'
  BY <1>0, <1>1, <1>4 DEF GatewayOK
<1> QED
  BY <1>1, <1>3, <1>4, <1>5, GatewayStep DEF slips

LEMMA FinishCutKeeps == ASSUME ViewInv, FinishCut PROVE ViewInv'
<1>0. GatewayOK
  BY DEF ViewInv, TypeInv
<1>1. PICK failed \in BOOLEAN, flushed \in BOOLEAN :
          EndsWith((IF flushed THEN Flush(run) ELSE << >>)
                      \o IF run.text = {} THEN << >> ELSE <<Persisted("assistant")>>, failed)
  BY DEF FinishCut
<1>2. /\ msgs' = IF run.text = {} THEN msgs ELSE Append(msgs, run.text)
      /\ Len(msgs') + queued <= MaxMessages
      /\ UNCHANGED <<queued, said, subs, up, ready, upsets, active, screen, http, slips>>
  BY DEF FinishCut
<1> DEFINE a == IF flushed THEN Flush(run) ELSE << >>
           b == IF run.text = {} THEN << >> ELSE <<Persisted("assistant")>>
           q == a \o b
<1>3. a \in Seq(Frames) /\ Len(a) \in Nat
  <2>1. Flush(run) \in Seq(Frames)
    BY <1>0, FlushIs
  <2>2. CASE flushed
    BY <2>1, <2>2
  <2>3. CASE ~flushed
    BY <2>3
  <2> QED
    BY <2>2, <2>3
<1>4. /\ b \in Seq(Frames) /\ Len(b) \in Nat
      /\ run.text # {} => Len(b) = 1 /\ b[1].k = "persisted"
  <2>1. CASE run.text = {}
    BY <2>1
  <2>2. CASE run.text # {}
    BY <2>2, FramesAre
  <2> QED
    BY <2>1, <2>2
<1>5. /\ msgs' \in Seq(SUBSET Pieces) /\ Len(msgs') \in Nat /\ Len(msgs) <= Len(msgs')
      /\ run.text = {} => msgs' = msgs
  <2>1. msgs \in Seq(SUBSET Pieces) /\ Len(msgs) \in Nat
    BY <1>0 DEF GatewayOK
  <2> QED
    BY <1>0, <1>2, <2>1, RunIs
<1>6. EndsWith(q, failed)
  BY <1>1
<1> HIDE DEF a, b
<1>7. /\ q \in Seq(Frames)
      /\ run.text # {} => \E i \in 1 .. Len(q) : q[i].k = "persisted"
  <2>1. /\ a \o b \in Seq(Frames) /\ Len(a \o b) = Len(a) + Len(b)
        /\ \A i \in 1 .. Len(a) + Len(b) : (a \o b)[i] = IF i <= Len(a) THEN a[i] ELSE b[i - Len(a)]
    BY <1>3, <1>4, ConcatProperties
  <2>2. ASSUME run.text # {} PROVE \E i \in 1 .. Len(a \o b) : (a \o b)[i].k = "persisted"
    <3>1. /\ Len(a) + 1 \in 1 .. Len(a) + Len(b) /\ ~(Len(a) + 1 <= Len(a)) /\ (Len(a) + 1) - Len(a) = 1
      BY <1>3, <1>4, <2>2
    <3>2. (a \o b)[Len(a) + 1] = b[1]
      BY <2>1, <3>1
    <3> QED
      BY <1>4, <2>1, <2>2, <3>1, <3>2
  <2> QED
    BY <2>1, <2>2
<1> HIDE DEF q
<1>8. /\ \E f \in Seq(Frames) :
            /\ Broadcast(f)
            /\ (\E i \in 1 .. Len(q) : q[i].k = "persisted") => \E i \in 1 .. Len(f) : f[i].k = "persisted"
      /\ run' \in [on : BOOLEAN, step : Nat, text : SUBSET Pieces, pending : SUBSET Pieces]
      /\ run'.text = {} /\ run'.pending = {}
  BY <1>0, <1>5, <1>6, <1>7, EndIs
<1>9. GatewayOK'
  <2>1. queued \in Nat
    BY <1>0 DEF GatewayOK
  <2> QED
    BY <1>0, <1>2, <1>5, <1>8, <2>1 DEF GatewayOK
<1>10. PICK f \in Seq(Frames) : /\ Broadcast(f)
                                /\ msgs' = msgs \/ \E i \in 1 .. Len(f) : f[i].k = "persisted"
  BY <1>5, <1>7, <1>8
<1> QED
  BY <1>2, <1>5, <1>9, <1>10, GatewayStep DEF slips

-----------------------------------------------------------------------------
(* The hub                                                                 *)

LEMMA LastOf ==
    ASSUME NEW q \in Seq({"sub", "unsub"}), q # << >>
    PROVE  /\ Tail(q) \in Seq({"sub", "unsub"})
           /\ Tail(q) # << >> => Tail(q)[Len(Tail(q))] = q[Len(q)]
           /\ Tail(q) = << >> => Head(q) = q[Len(q)]
<1>1. /\ Tail(q) \in Seq({"sub", "unsub"}) /\ Len(Tail(q)) = Len(q) - 1
      /\ \A i \in 1 .. Len(Tail(q)) : Tail(q)[i] = q[i + 1]
      /\ Head(q) = q[1] /\ Len(q) \in Nat /\ Len(q) # 0
  BY HeadTailProperties, EmptySeq
<1>2. ASSUME Tail(q) # << >> PROVE Tail(q)[Len(Tail(q))] = q[Len(q)]
  <2>1. Len(Tail(q)) # 0
    BY <1>1, <1>2, EmptySeq
  <2>2. Len(Tail(q)) \in 1 .. Len(Tail(q)) /\ Len(Tail(q)) + 1 = Len(q)
    BY <1>1, <2>1
  <2> QED
    BY <1>1, <2>2
<1>3. ASSUME Tail(q) = << >> PROVE Head(q) = q[Len(q)]
  <2>1. Len(Tail(q)) = 0
    BY <1>1, <1>3, EmptySeq
  <2>2. Len(q) = 1
    <3>1. Len(q) - 1 = 0 /\ Len(q) \in Nat
      BY <1>1, <2>1
    <3> QED
      BY <3>1
  <2> QED
    BY <1>1, <2>2
<1> QED
  BY <1>1, <1>2, <1>3

\* Steps that leave what was said and what is shown alone.
LEMMA TypesStay ==
    ASSUME TypeInv, UNCHANGED <<msgs, run, queued, said, screen, http, unfetched>>
    PROVE  GatewayOK' /\ ScreenOK' /\ FetchOK' /\ PostOK' /\ StaleOK'
<1>1. GatewayOK'
  BY DEF TypeInv, GatewayOK
<1>2. ScreenOK'
  BY DEF TypeInv, ScreenOK, screen
<1>3. FetchOK' /\ PostOK'
  BY DEF TypeInv, FetchOK, PostOK, http, screen
<1>4. StaleOK'
  BY DEF TypeInv, StaleOK, http, screen
<1> QED
  BY <1>1, <1>2, <1>3, <1>4

LEMMA ServeSubscribeKeeps == ASSUME ViewInv, ServeSubscribe PROVE ViewInv'
<1> DEFINE f == [k |-> "sync", text |-> run.text, last |-> Len(msgs)]
<1>0. /\ TypeInv /\ Gapless /\ Subscribed /\ SocketOK /\ Len(msgs) \in Nat
      /\ MaxFrames \in Nat /\ run.text \in SUBSET Pieces
  BY RunIs, ViewAssumption DEF ViewInv, TypeInv
<1>1. /\ up # << >> /\ Len(down) < MaxFrames /\ down' = Append(down, f) /\ subs' /\ up' = Tail(up)
      /\ UNCHANGED <<msgs, run, queued, said, ready, active, screen, http, skipped, unfetched>>
  BY DEF ServeSubscribe
<1>2. f \in Frames
  BY <1>0, FramesAre
<1>3. f.k = "sync" /\ f.last = Len(msgs)
  OBVIOUS
<1> HIDE DEF f
<1>4. /\ down' \in Seq(Frames) /\ Len(down') = Len(down) + 1 /\ Len(down) \in Nat
      /\ down'[Len(down) + 1] = f
  BY <1>0, <1>1, <1>2, AppendProperties DEF SocketOK
<1>5. /\ Tail(up) \in Seq({"sub", "unsub"})
      /\ Tail(up) # << >> => Tail(up)[Len(Tail(up))] = up[Len(up)]
  BY <1>0, <1>1, LastOf DEF SocketOK
<1>6. SocketOK'
  <2>1. Len(down') <= MaxFrames
    BY <1>0, <1>1, <1>4
  <2> QED
    BY <1>1, <1>4, <1>5, <2>1 DEF SocketOK
<1>7. TypeInv'
  BY <1>0, <1>1, <1>6, TypesStay DEF TypeInv
<1>8. Gapless' /\ Subscribed'
  BY <1>0, <1>1, <1>5 DEF Gapless, Subscribed, screen
<1>9. ASSUME NEW m \in 1 .. Len(msgs) PROVE Due(m)'
  <2>1. m <= f.last /\ Len(down) + 1 \in 1 .. Len(down')
    BY <1>0, <1>3, <1>4
  <2>2. News(down', m)
    BY <1>3, <1>4, <2>1 DEF News, Tells
  <2> QED
    BY <2>2 DEF Due
<1>10. NoneForgotten'
  BY <1>1, <1>9 DEF NoneForgotten
<1> QED
  BY <1>7, <1>8, <1>10 DEF ViewInv

LEMMA ServeUnsubscribeKeeps == ASSUME ViewInv, ServeUnsubscribe PROVE ViewInv'
<1>0. TypeInv /\ Gapless /\ Subscribed /\ SocketOK
  BY DEF ViewInv, TypeInv
<1>1. /\ up # << >> /\ Head(up) = "unsub" /\ up' = Tail(up)
      /\ UNCHANGED <<msgs, run, queued, said, down, ready, active, screen, http, skipped, unfetched>>
  BY DEF ServeUnsubscribe, slips
<1>2. /\ Tail(up) \in Seq({"sub", "unsub"})
      /\ Tail(up) # << >> => Tail(up)[Len(Tail(up))] = up[Len(up)]
      /\ Tail(up) = << >> => Head(up) = up[Len(up)]
  BY <1>0, <1>1, LastOf DEF SocketOK
<1>3. active => up' # << >> /\ up'[Len(up')] = "sub"
  BY <1>0, <1>1, <1>2 DEF Subscribed
<1>4. SocketOK'
  BY <1>0, <1>1, <1>2 DEF SocketOK
<1>5. TypeInv'
  BY <1>0, <1>1, <1>4, TypesStay DEF TypeInv
<1>6. Gapless' /\ Subscribed'
  BY <1>0, <1>1, <1>3 DEF Gapless, Subscribed, screen
<1>7. NoneForgotten'
  BY <1>1, <1>3 DEF NoneForgotten, Due
<1> QED
  BY <1>5, <1>6, <1>7 DEF ViewInv

-----------------------------------------------------------------------------
(* Fetches                                                                 *)

\* A fetch after the last message shown brings all there is, but what lies
\* before it.
LEMMA FetchAfterIs ==
    ASSUME NEW n \in Nat, NEW S \in SUBSET (1 .. n), NEW whole \in BOOLEAN, NEW J,
           whole => \A s \in S : \A m \in 1 .. s : m \in S \cup J
    PROVE  /\ FetchAfter(S, whole) \in [at : {"none", "asked", "answered"}, after : Nat, upTo : 0 .. n]
           /\ FetchAfter(S, whole).at = "asked"
           /\ FetchAfter(S, whole).after # 0 => whole /\ FetchAfter(S, whole).after \in S
           /\ \A m \in 1 .. n : m \in S \cup J \/ FetchAfter(S, whole).after < m
<1> DEFINE a == IF whole THEN MaxSeq(S) ELSE 0
<1>1. /\ MaxSeq(S) \in 0 .. n
      /\ S = {} => MaxSeq(S) = 0
      /\ S # {} => MaxSeq(S) \in S
  BY MaxSeqIs
<1>2. a \in 0 .. n /\ (a # 0 => whole /\ a \in S)
  BY <1>1
<1>3. FetchAfter(S, whole) = [at |-> "asked", after |-> a, upTo |-> 0]
  BY DEF FetchAfter
<1> HIDE DEF a
<1>4. ASSUME NEW m \in 1 .. n, ~(a < m) PROVE m \in S \cup J
  <2>1. a # 0 /\ m \in 1 .. a
    BY <1>2, <1>4
  <2> QED
    BY <1>2, <2>1
<1>5. a \in Nat /\ 0 \in 0 .. n
  BY <1>2
<1>6. /\ FetchAfter(S, whole) \in [at : {"none", "asked", "answered"}, after : Nat, upTo : 0 .. n]
      /\ FetchAfter(S, whole).at = "asked" /\ FetchAfter(S, whole).after = a
  BY <1>3, <1>5
<1> QED
  BY <1>2, <1>4, <1>6

LEMMA LoadingIs ==
    ASSUME TypeInv, Gapless, LoadHistory(shown, loaded), UNCHANGED <<msgs, shown, loaded, skipped>>
    PROVE  /\ FetchOK' /\ fetch'.at # "none"
           /\ \A m \in 1 .. Len(msgs') : Due(m)'
<1>0. /\ Len(msgs) \in Nat /\ FetchOK /\ shown \in SUBSET (1 .. Len(msgs)) /\ loaded \in BOOLEAN
  BY DEF TypeInv, GatewayOK, ScreenOK
<1> DEFINE g == FetchAfter(shown, loaded)
<1>1. /\ g \in [at : {"none", "asked", "answered"}, after : Nat, upTo : 0 .. Len(msgs)]
      /\ g.at = "asked" /\ (g.after # 0 => loaded /\ g.after \in shown)
      /\ \A m \in 1 .. Len(msgs) : m \in shown \cup skipped \/ g.after < m
  <2>1. loaded => \A s \in shown : \A m \in 1 .. s : m \in shown \cup skipped
    BY DEF Gapless
  <2> QED
    BY <1>0, <2>1, FetchAfterIs
<1>2. CASE fetch.at = "none"
  <2>1. fetch' = g /\ again' = again /\ ~again
    BY <1>0, <1>2 DEF LoadHistory, FetchOK
  <2> HIDE DEF g
  <2>2. FetchOK' /\ fetch'.at # "none"
    BY <1>1, <2>1 DEF FetchOK
  <2>3. ASSUME NEW m \in 1 .. Len(msgs') PROVE Due(m)'
    BY <1>1, <2>1 DEF Due, Brings
  <2> QED
    BY <2>2, <2>3
<1>3. CASE fetch.at # "none"
  <2>1. again' /\ fetch' = fetch
    BY <1>3 DEF LoadHistory
  <2> QED
    BY <1>0, <1>3, <2>1 DEF FetchOK, Due
<1> QED
  BY <1>2, <1>3

-----------------------------------------------------------------------------
(* The socket's frames are read                                            *)

Segments(l) == \A id \in DOMAIN l : l[id] \in SegmentType

LEMMA FlushedIs ==
    ASSUME ScreenOK
    PROVE  /\ Segments(Flushed) /\ Segments(Stale(Flushed))
           /\ \A id \in DOMAIN Flushed : Flushed[id].stale => id \in DOMAIN live /\ live[id].stale
<1>1. ASSUME NEW id \in DOMAIN Flushed
      PROVE  /\ Flushed[id] \in SegmentType
             /\ Flushed[id].stale => id \in DOMAIN live /\ live[id].stale
  <2>0. /\ id \in DOMAIN live \cup DOMAIN buffer
        /\ id \in DOMAIN live => live[id] \in SegmentType
        /\ id \in DOMAIN buffer => buffer[id] \in SUBSET Pieces
    BY DEF Flushed, ScreenOK
  <2>1. CASE id \notin DOMAIN buffer
    BY <2>0, <2>1 DEF Flushed
  <2>2. CASE id \in DOMAIN buffer /\ id \notin DOMAIN live
    <3>1. Flushed[id] = [text |-> buffer[id], stale |-> FALSE]
      BY <2>0, <2>2 DEF Flushed
    <3> QED
      BY <2>0, <2>2, <3>1 DEF SegmentType
  <2>3. CASE id \in DOMAIN buffer /\ id \in DOMAIN live
    <3>1. Flushed[id] = [live[id] EXCEPT !.text = @ \cup buffer[id]]
      BY <2>0, <2>3 DEF Flushed
    <3> QED
      BY <2>0, <2>3, <3>1 DEF SegmentType
  <2> QED
    BY <2>1, <2>2, <2>3
<1>2. ASSUME NEW id \in DOMAIN Stale(Flushed) PROVE Stale(Flushed)[id] \in SegmentType
  <2>1. id \in DOMAIN Flushed /\ Stale(Flushed)[id] = [Flushed[id] EXCEPT !.stale = TRUE]
    BY DEF Stale
  <2>2. Flushed[id] \in SegmentType
    BY <1>1, <2>1
  <2> QED
    BY <2>1, <2>2 DEF SegmentType
<1> QED
  BY <1>1, <1>2 DEF Segments

\* The frame is read; if there is no other word of what it told, that is due.
LEMMA FrameIsRead ==
    ASSUME ViewInv, down # << >>, down' = Tail(down),
           UNCHANGED <<gateway, up, ready, active, shown, loaded, post, skipped, unfetched>>,
           Segments(live'), \A id \in DOMAIN buffer' : buffer'[id] \in (SUBSET Pieces) \ {{}},
           FetchOK', StaleOK',
           \/ \A m \in 1 .. Len(msgs) : Due(m)'
           \/ /\ fetch' = fetch /\ again' = again /\ (timer => timer')
              /\ \A m \in 1 .. Len(msgs) : Tells(Head(down), m) => Due(m)'
    PROVE  ViewInv'
<1>0. TypeInv /\ Gapless /\ Subscribed /\ NoneForgotten /\ SocketOK
  BY DEF ViewInv, TypeInv
<1>1. /\ Tail(down) \in Seq(Frames) /\ Len(Tail(down)) = Len(down) - 1
      /\ \A m : News(down, m) => Tells(Head(down), m) \/ News(Tail(down), m)
  BY <1>0, NewsAreRead DEF SocketOK
<1>2. SocketOK'
  <2>1. Len(down) \in Nat /\ Len(down) <= MaxFrames /\ MaxFrames \in Nat
    BY <1>0, ViewAssumption DEF SocketOK
  <2>2. Len(down') <= MaxFrames
    BY <1>1, <2>1
  <2> QED
    BY <1>0, <1>1, <2>2 DEF SocketOK
<1>3. GatewayOK' /\ ScreenOK' /\ PostOK'
  BY <1>0 DEF TypeInv, GatewayOK, ScreenOK, PostOK, gateway, Segments
<1>4. Gapless' /\ Subscribed'
  BY <1>0 DEF Gapless, Subscribed, gateway
<1>5. NoneForgotten'
  <2> SUFFICES ASSUME active, ready, fetch'.at # "none" \/ ~unfetched, NEW m \in 1 .. Len(msgs)
               PROVE  Due(m)'
    BY DEF NoneForgotten, gateway
  <2>1. CASE \A i \in 1 .. Len(msgs) : Due(i)'
    BY <2>1
  <2>2. CASE /\ fetch' = fetch /\ again' = again /\ (timer => timer')
             /\ \A i \in 1 .. Len(msgs) : Tells(Head(down), i) => Due(i)'
    <3>1. Due(m)
      BY <1>0, <2>2 DEF NoneForgotten
    <3>2. CASE News(down, m)
      BY <1>1, <2>2, <3>2 DEF Due
    <3>3. CASE ~News(down, m)
      BY <2>2, <3>1, <3>3 DEF Due, Brings
    <3> QED
      BY <3>2, <3>3
  <2> QED
    BY <2>1, <2>2
<1> QED
  BY <1>2, <1>3, <1>4, <1>5 DEF ViewInv, TypeInv

LEMMA ReadKeeps == ASSUME ViewInv, Read PROVE ViewInv'
<1> DEFINE f == Head(down)
<1>0. /\ TypeInv /\ Gapless /\ ScreenOK /\ FetchOK /\ StaleOK /\ SocketOK
      /\ Len(msgs) \in Nat
  BY RunIs DEF ViewInv, TypeInv
<1>1. /\ down # << >> /\ down' = Tail(down)
      /\ ReadSync(f) \/ ReadDelta(f) \/ ReadPersisted(f) \/ ReadFinished(f)
      /\ UNCHANGED <<gateway, up, ready, active, post, skipped, unfetched>>
  BY DEF Read
<1>2. f \in Frames
  BY <1>0, <1>1, NewsAreRead DEF SocketOK
<1> HIDE DEF f
<1>3. Segments(live) /\ Segments(NoText) /\ \A id \in DOMAIN NoText : ~NoText[id].stale
  BY <1>0 DEF ScreenOK, Segments, NoText
<1>4. \A id \in DOMAIN NoText : NoText[id] \in (SUBSET Pieces) \ {{}}
  BY DEF NoText
<1>5. CASE ReadSync(f)
  <2>1. /\ f.k = "sync" /\ buffer' = NoText /\ UNCHANGED <<shown, loaded, timer>>
        /\ live' = IF f.text = {} THEN NoText
                    ELSE [id \in {0} |-> [text |-> f.text, stale |-> FALSE]]
        /\ IF f.last > MaxSeq(shown) \/ ~loaded THEN LoadHistory(shown, loaded)
           ELSE UNCHANGED <<fetch, again>>
    BY <1>5 DEF ReadSync, Unbuffered
  <2>2. f.text \in SUBSET Pieces /\ f.last \in Nat
    BY <1>2, <2>1 DEF Frames
  <2>3. Segments(live') /\ \A id \in DOMAIN live' : ~live'[id].stale
    <3>1. CASE f.text = {}
      BY <1>3, <2>1, <3>1
    <3>2. CASE f.text # {}
      <4>1. live' = [id \in {0} |-> [text |-> f.text, stale |-> FALSE]]
        BY <2>1, <3>2
      <4>2. [text |-> f.text, stale |-> FALSE] \in SegmentType
        BY <2>2 DEF SegmentType
      <4> QED
        BY <4>1, <4>2 DEF Segments
    <3> QED
      BY <3>1, <3>2
  <2>4. StaleOK'
    BY <2>3 DEF StaleOK
  <2>5. CASE f.last > MaxSeq(shown) \/ ~loaded
    <3>1. LoadHistory(shown, loaded) /\ UNCHANGED <<msgs, shown, loaded, skipped>>
      BY <1>1, <2>1, <2>5 DEF gateway
    <3>2. FetchOK' /\ \A m \in 1 .. Len(msgs) : Due(m)'
      BY <1>0, <3>1, LoadingIs
    <3> QED
      BY <1>1, <1>4, <2>1, <2>3, <2>4, <3>2, FrameIsRead
  <2>6. CASE ~(f.last > MaxSeq(shown)) /\ loaded
    <3>1. fetch' = fetch /\ again' = again
      BY <2>1, <2>6
    <3>2. FetchOK'
      BY <1>0, <1>1, <2>1, <3>1 DEF FetchOK, gateway
    <3>3. ASSUME NEW m \in 1 .. Len(msgs), Tells(f, m) PROVE Due(m)'
      <4>1. m <= f.last
        BY <2>1, <3>3 DEF Tells
      <4>2. /\ MaxSeq(shown) \in 0 .. Len(msgs) /\ (shown = {} => MaxSeq(shown) = 0)
            /\ shown # {} => MaxSeq(shown) \in shown
        BY <1>0, MaxSeqIs DEF ScreenOK
      <4>3. MaxSeq(shown) \in shown /\ m \in 1 .. MaxSeq(shown)
        BY <1>0, <2>2, <2>6, <4>1, <4>2
      <4>4. m \in shown \cup skipped
        BY <1>0, <2>6, <4>3 DEF Gapless
      <4> QED
        BY <1>1, <2>1, <4>4 DEF Due
    <3> QED
      BY <1>1, <1>4, <2>1, <2>3, <2>4, <3>1, <3>2, <3>3, FrameIsRead DEF f
  <2> QED
    BY <2>5, <2>6
<1>6. CASE ReadDelta(f)
  <2>1. /\ f.k = "delta" /\ UNCHANGED <<shown, loaded, live, timer, fetch, again>>
        /\ buffer' = [id \in DOMAIN buffer \cup {f.id} |->
                        (IF id \in DOMAIN buffer THEN buffer[id] ELSE {})
                           \cup IF id = f.id THEN f.text ELSE {}]
    BY <1>6 DEF ReadDelta
  <2>2. f.text \in (SUBSET Pieces) \ {{}}
    BY <1>2, <2>1 DEF Frames
  <2>3. ASSUME NEW id \in DOMAIN buffer' PROVE buffer'[id] \in (SUBSET Pieces) \ {{}}
    <3>1. /\ id \in DOMAIN buffer \/ id = f.id
          /\ buffer'[id] = (IF id \in DOMAIN buffer THEN buffer[id] ELSE {})
                              \cup IF id = f.id THEN f.text ELSE {}
      BY <2>1
    <3>2. id \in DOMAIN buffer => buffer[id] \in (SUBSET Pieces) \ {{}}
      BY <1>0 DEF ScreenOK
    <3>3. CASE id \in DOMAIN buffer
      BY <2>2, <3>1, <3>2, <3>3
    <3>4. CASE id \notin DOMAIN buffer
      BY <2>2, <3>1, <3>4
    <3> QED
      BY <3>3, <3>4
  <2>4. FetchOK' /\ StaleOK'
    BY <1>0, <1>1, <2>1 DEF FetchOK, StaleOK, gateway
  <2>5. \A m \in 1 .. Len(msgs) : ~Tells(f, m)
    BY <2>1 DEF Tells
  <2> QED
    BY <1>1, <1>3, <2>1, <2>3, <2>4, <2>5, FrameIsRead DEF f
<1>7. CASE ReadPersisted(f)
  <2>1. /\ live' = (IF f.role = "assistant" THEN Stale(Flushed) ELSE Flushed)
        /\ buffer' = NoText /\ timer' = TRUE /\ UNCHANGED <<shown, loaded, fetch, again>>
    BY <1>7 DEF ReadPersisted
  <2>2. Segments(live')
    BY <1>0, <2>1, FlushedIs
  <2>3. FetchOK' /\ StaleOK' /\ \A m \in 1 .. Len(msgs) : Due(m)'
    BY <1>0, <1>1, <2>1 DEF FetchOK, StaleOK, gateway, Due
  <2> QED
    BY <1>1, <1>4, <2>1, <2>2, <2>3, FrameIsRead
<1>8. CASE ReadFinished(f)
  <2>1. /\ f.k = "finished" /\ live' = NoText /\ buffer' = NoText /\ (timer => timer')
        /\ UNCHANGED <<shown, loaded, fetch, again>>
    BY <1>8 DEF ReadFinished
  <2>2. FetchOK' /\ StaleOK'
    BY <1>0, <1>1, <1>3, <2>1 DEF FetchOK, StaleOK, gateway
  <2>3. \A m \in 1 .. Len(msgs) : ~Tells(f, m)
    BY <2>1 DEF Tells
  <2> QED
    BY <1>1, <1>3, <1>4, <2>1, <2>2, <2>3, FrameIsRead DEF f
<1> QED
  BY <1>1, <1>5, <1>6, <1>7, <1>8

-----------------------------------------------------------------------------
(* The browser                                                             *)

LEMMA DeltaTimerFiresKeeps == ASSUME ViewInv, DeltaTimerFires PROVE ViewInv'
<1>0. TypeInv /\ Gapless /\ Subscribed /\ NoneForgotten
  BY DEF ViewInv
<1>1. /\ live' = Flushed /\ buffer' = NoText
      /\ UNCHANGED <<gateway, socket, active, shown, loaded, http, slips>>
  BY DEF DeltaTimerFires
<1>2. /\ Segments(Flushed)
      /\ \A id \in DOMAIN Flushed : Flushed[id].stale => id \in DOMAIN live /\ live[id].stale
  BY <1>0, FlushedIs DEF TypeInv
<1>3. ScreenOK' /\ StaleOK'
  BY <1>0, <1>1, <1>2 DEF TypeInv, ScreenOK, StaleOK, Segments, NoText, gateway, http, slips
<1>4. GatewayOK' /\ SocketOK' /\ FetchOK' /\ PostOK'
  BY <1>0, <1>1 DEF TypeInv, GatewayOK, SocketOK, FetchOK, PostOK, gateway, socket, http
<1>5. Gapless' /\ Subscribed' /\ NoneForgotten'
  BY <1>0, <1>1 DEF Gapless, Subscribed, NoneForgotten, Due, Brings, gateway, socket, http, slips
<1> QED
  BY <1>3, <1>4, <1>5 DEF ViewInv, TypeInv

\* A fetch is asked for: whatever is in the database is due.
LEMMA AskedFor ==
    ASSUME ViewInv, LoadHistory(shown, loaded), SocketOK', Subscribed',
           UNCHANGED <<gateway, screen, post, skipped, unfetched>>
    PROVE  ViewInv'
<1>0. TypeInv /\ Gapless
  BY DEF ViewInv
<1>1. UNCHANGED <<msgs, shown, loaded, skipped>>
  BY DEF gateway, screen
<1>2. FetchOK' /\ fetch'.at # "none" /\ \A m \in 1 .. Len(msgs') : Due(m)'
  BY <1>0, <1>1, LoadingIs
<1>3. GatewayOK' /\ ScreenOK' /\ PostOK' /\ Gapless'
  BY <1>0 DEF TypeInv, GatewayOK, ScreenOK, PostOK, Gapless, gateway, screen
<1>4. StaleOK' /\ NoneForgotten'
  BY <1>2 DEF StaleOK, NoneForgotten
<1> QED
  BY <1>2, <1>3, <1>4 DEF ViewInv, TypeInv

LEMMA HistoryTimerFiresKeeps == ASSUME ViewInv, HistoryTimerFires PROVE ViewInv'
<1>1. /\ LoadHistory(shown, loaded)
      /\ UNCHANGED <<gateway, socket, active, screen, post, skipped, unfetched>>
  BY DEF HistoryTimerFires, slips
<1>2. SocketOK' /\ Subscribed'
  BY <1>1 DEF ViewInv, TypeInv, SocketOK, Subscribed, gateway, socket
<1> QED
  BY <1>1, <1>2, AskedFor

\* A request on its way holds for all there is.
LEMMA RequestsLead ==
    ASSUME ViewInv, up' # << >>, SocketOK', Subscribed',
           UNCHANGED <<gateway, screen, http, skipped, unfetched>>
    PROVE  ViewInv'
<1>0. TypeInv /\ Gapless
  BY DEF ViewInv
<1>1. TypeInv'
  BY <1>0, TypesStay DEF TypeInv, gateway
<1>2. Gapless'
  BY <1>0 DEF Gapless, screen
<1>3. NoneForgotten'
  BY DEF NoneForgotten, Due
<1> QED
  BY <1>1, <1>2, <1>3 DEF ViewInv

LEMMA AskingIs ==
    ASSUME SocketOK, NEW r \in {"sub", "unsub"}, up' = Append(up, r), down' = down
    PROVE  SocketOK' /\ up' # << >> /\ up'[Len(up')] = r
<1>1. /\ up' \in Seq({"sub", "unsub"}) /\ Len(up') = Len(up) + 1 /\ Len(up) \in Nat
      /\ up'[Len(up) + 1] = r
  BY AppendProperties DEF SocketOK
<1>2. Len(up') # 0
  BY <1>1
<1> QED
  BY <1>1, <1>2 DEF SocketOK

LEMMA ActivateKeeps == ASSUME ViewInv, Activate PROVE ViewInv'
<1>1. /\ up' = Append(up, "sub")
      /\ IF loaded THEN UNCHANGED <<fetch, again>> ELSE LoadHistory(shown, loaded)
      /\ UNCHANGED <<gateway, down, ready, screen, timer, post, skipped, unfetched>>
  BY DEF Activate, slips
<1>2. SocketOK' /\ up' # << >> /\ up'[Len(up')] = "sub"
  BY <1>1, AskingIs DEF ViewInv, TypeInv
<1>3. Subscribed'
  BY <1>2 DEF Subscribed
<1>4. CASE loaded
  BY <1>1, <1>2, <1>3, <1>4, RequestsLead DEF http
<1>5. CASE ~loaded
  BY <1>1, <1>2, <1>3, <1>5, AskedFor
<1> QED
  BY <1>4, <1>5

LEMMA DeactivateKeeps == ASSUME ViewInv, Deactivate PROVE ViewInv'
<1>1. /\ active' = FALSE /\ up' = Append(up, "unsub")
      /\ UNCHANGED <<gateway, down, ready, screen, http, skipped, unfetched>>
  BY DEF Deactivate, slips
<1>2. SocketOK' /\ up' # << >>
  BY <1>1, AskingIs DEF ViewInv, TypeInv
<1>3. Subscribed'
  BY <1>1 DEF Subscribed
<1> QED
  BY <1>1, <1>2, <1>3, RequestsLead

LEMMA LoseSocketKeeps == ASSUME ViewInv, LoseSocket PROVE ViewInv'
<1>0. TypeInv /\ Gapless
  BY DEF ViewInv
<1>1. /\ ready' = FALSE /\ down' = << >> /\ up' = << >> /\ subs' = FALSE
      /\ UNCHANGED <<msgs, run, queued, said, active, screen, http, skipped, unfetched>>
  BY DEF LoseSocket, slips
<1>2. SocketOK'
  <2>1. << >> \in Seq(Frames) /\ Len(<< >>) <= MaxFrames /\ << >> \in Seq({"sub", "unsub"})
    BY ViewAssumption
  <2> QED
    BY <1>1, <2>1 DEF SocketOK
<1>3. TypeInv'
  BY <1>0, <1>1, <1>2, TypesStay DEF TypeInv
<1>4. Gapless' /\ Subscribed' /\ NoneForgotten'
  BY <1>0, <1>1 DEF Gapless, Subscribed, NoneForgotten, screen
<1> QED
  BY <1>3, <1>4 DEF ViewInv

LEMMA ReconnectKeeps == ASSUME ViewInv, Reconnect PROVE ViewInv'
<1>0. TypeInv /\ Gapless /\ Subscribed /\ SocketOK
  BY DEF ViewInv, TypeInv
<1>1. /\ up' = (IF active THEN <<"sub">> ELSE << >>) \o up
      /\ IF active THEN LoadHistory(shown, loaded) ELSE UNCHANGED <<fetch, again>>
      /\ UNCHANGED <<gateway, down, active, screen, timer, post, skipped, unfetched>>
  BY DEF Reconnect, Resubscribed, slips
<1>2. up \in Seq({"sub", "unsub"}) /\ Len(up) \in Nat /\ (up = << >> <=> Len(up) = 0)
  BY <1>0, EmptySeq DEF SocketOK
<1>3. CASE active
  <2> DEFINE p == <<"sub">>
  <2>1. p \in Seq({"sub", "unsub"}) /\ Len(p) = 1 /\ p[1] = "sub"
    OBVIOUS
  <2>2. up' = p \o up
    BY <1>1, <1>3
  <2> HIDE DEF p
  <2>3. /\ up' \in Seq({"sub", "unsub"}) /\ Len(up') = Len(up) + 1
        /\ \A i \in 1 .. Len(up) + 1 : up'[i] = IF i <= 1 THEN p[i] ELSE up[i - 1]
    <3>1. /\ p \o up \in Seq({"sub", "unsub"}) /\ Len(p \o up) = Len(p) + Len(up)
          /\ \A i \in 1 .. Len(p) + Len(up) :
                (p \o up)[i] = IF i <= Len(p) THEN p[i] ELSE up[i - Len(p)]
      BY <1>2, <2>1, ConcatProperties
    <3>2. Len(p) + Len(up) = Len(up) + 1
      BY <1>2, <2>1
    <3> QED
      BY <2>1, <2>2, <3>1, <3>2
  <2>4. up'[Len(up')] = "sub"
    <3>1. CASE Len(up) = 0
      BY <2>1, <2>3, <3>1
    <3>2. CASE Len(up) # 0
      <4>1. Len(up) + 1 \in 1 .. Len(up) + 1 /\ ~(Len(up) + 1 <= 1) /\ (Len(up) + 1) - 1 = Len(up)
        BY <1>2, <3>2
      <4>2. up'[Len(up')] = up[Len(up)]
        BY <2>3, <4>1
      <4> QED
        BY <1>0, <1>2, <1>3, <3>2, <4>2 DEF Subscribed
    <3> QED
      BY <3>1, <3>2
  <2>5. up' # << >>
    <3>1. Len(up') # 0
      BY <1>2, <2>3
    <3> QED
      BY <3>1
  <2>6. SocketOK' /\ Subscribed'
    BY <1>0, <1>1, <2>3, <2>4, <2>5 DEF SocketOK, Subscribed
  <2> QED
    BY <1>1, <1>3, <2>6, AskedFor
<1>4. CASE ~active
  <2>1. up' = up
    BY <1>1, <1>2, <1>4, ConcatEmptySeq
  <2>2. SocketOK'
    BY <1>0, <1>1, <2>1 DEF SocketOK
  <2>3. TypeInv'
    BY <1>0, <1>1, <1>4, <2>2, TypesStay DEF TypeInv, gateway, http
  <2>4. Gapless' /\ Subscribed' /\ NoneForgotten'
    BY <1>0, <1>1, <1>4 DEF Gapless, Subscribed, NoneForgotten, screen
  <2> QED
    BY <2>3, <2>4 DEF ViewInv
<1> QED
  BY <1>3, <1>4

-----------------------------------------------------------------------------
(* HTTP                                                                    *)

LEMMA AnswerFetchKeeps == ASSUME ViewInv, AnswerFetch PROVE ViewInv'
<1>0. TypeInv /\ Gapless /\ Subscribed /\ NoneForgotten /\ FetchOK /\ Len(msgs) \in Nat
  BY RunIs DEF ViewInv, TypeInv
<1>1. /\ fetch.at = "asked" /\ fetch' = [fetch EXCEPT !.at = "answered", !.upTo = Len(msgs)]
      /\ UNCHANGED <<gateway, socket, active, screen, timer, again, post, skipped, unfetched>>
  BY DEF AnswerFetch, slips
<1>2. fetch'.at = "answered" /\ fetch'.upTo = Len(msgs) /\ fetch'.after = fetch.after
  BY <1>0, <1>1 DEF FetchOK
<1>3. FetchOK'
  <2>1. Len(msgs) \in 0 .. Len(msgs)
    BY <1>0
  <2>2. fetch' \in [at : {"none", "asked", "answered"}, after : Nat, upTo : 0 .. Len(msgs)]
    BY <1>0, <1>1, <2>1 DEF FetchOK
  <2> QED
    BY <1>0, <1>1, <1>2, <2>2 DEF FetchOK, gateway, screen
<1>4. GatewayOK' /\ SocketOK' /\ ScreenOK' /\ PostOK'
  BY <1>0, <1>1 DEF TypeInv, GatewayOK, SocketOK, ScreenOK, PostOK, gateway, socket, screen
<1>5. StaleOK' /\ Gapless' /\ Subscribed'
  BY <1>0, <1>1, <1>2 DEF StaleOK, Gapless, Subscribed, gateway, socket, screen
<1>6. NoneForgotten'
  <2> SUFFICES ASSUME active, ready, NEW m \in 1 .. Len(msgs) PROVE Due(m)'
    BY <1>1 DEF NoneForgotten, gateway, socket
  <2>1. Due(m)
    BY <1>0, <1>1 DEF NoneForgotten
  <2>2. CASE Brings(m)
    <3>1. m <= Len(msgs) /\ fetch.after < m
      BY <1>0, <1>1, <2>2 DEF Brings
    <3> QED
      BY <1>2, <3>1 DEF Due, Brings
  <2>3. CASE ~Brings(m)
    BY <1>1, <2>1, <2>3 DEF Due, screen, socket
  <2> QED
    BY <2>2, <2>3
<1> QED
  BY <1>3, <1>4, <1>5, <1>6 DEF ViewInv, TypeInv

LEMMA FetchReturnsKeeps == ASSUME ViewInv, FetchReturns PROVE ViewInv'
<1>0. /\ TypeInv /\ Gapless /\ Subscribed /\ NoneForgotten /\ FetchOK /\ ScreenOK
      /\ Len(msgs) \in Nat
  BY RunIs DEF ViewInv, TypeInv
<1>1. /\ fetch.at = "answered"
      /\ shown' = (IF fetch.after = 0 THEN {} ELSE shown) \cup (fetch.after + 1 .. fetch.upTo)
      /\ loaded' = TRUE /\ live' = Fresh(live)
      /\ unfetched' = FALSE /\ skipped' = (skipped \cup shown) \ shown'
      /\ fetch' = IF again THEN FetchAfter(shown', TRUE) ELSE NoFetch
      /\ again' = FALSE
      /\ UNCHANGED <<gateway, socket, active, buffer, timer, post>>
  BY DEF FetchReturns, FetchOver
<1>2. fetch.after \in Nat /\ fetch.upTo \in 0 .. Len(msgs) /\ shown \in SUBSET (1 .. Len(msgs))
  BY <1>0 DEF FetchOK, ScreenOK
<1>3. shown' \in SUBSET (1 .. Len(msgs))
  <2>1. fetch.after + 1 .. fetch.upTo \subseteq 1 .. Len(msgs)
    BY <1>0, <1>2
  <2> QED
    BY <1>1, <1>2, <2>1
<1>4. ASSUME NEW s \in shown', NEW m \in 1 .. s PROVE m \in shown' \cup skipped'
  <2>0. s \in Nat /\ m \in Nat /\ 1 <= m /\ m <= s
    BY <1>3
  <2>1. m \in skipped \cup shown => m \in shown' \cup skipped'
    BY <1>1
  <2>2. CASE fetch.after = 0
    <3>1. s <= fetch.upTo
      BY <1>1, <1>2, <2>0, <2>2
    <3>2. m \in fetch.after + 1 .. fetch.upTo
      BY <1>2, <2>0, <2>2, <3>1
    <3> QED
      BY <1>1, <3>2
  <2>3. CASE fetch.after # 0
    <3>1. loaded /\ fetch.after \in shown
      BY <1>0, <2>3 DEF FetchOK
    <3>2. CASE s \in shown
      BY <1>0, <2>1, <3>1, <3>2 DEF Gapless
    <3>3. CASE m <= fetch.after
      <4>1. m \in 1 .. fetch.after
        BY <1>2, <2>0, <3>3
      <4> QED
        BY <1>0, <2>1, <3>1, <4>1 DEF Gapless
    <3>4. CASE s \notin shown /\ ~(m <= fetch.after)
      <4>1. s \in fetch.after + 1 .. fetch.upTo
        BY <1>1, <3>4
      <4>2. m \in fetch.after + 1 .. fetch.upTo
        BY <1>2, <2>0, <3>4, <4>1
      <4> QED
        BY <1>1, <4>2
    <3> QED
      BY <3>2, <3>3, <3>4
  <2> QED
    BY <2>2, <2>3
<1>5. Gapless'
  BY <1>4 DEF Gapless
<1> DEFINE g == FetchAfter(shown', TRUE)
<1>6. /\ g \in [at : {"none", "asked", "answered"}, after : Nat, upTo : 0 .. Len(msgs)]
      /\ g.at = "asked" /\ (g.after # 0 => g.after \in shown')
      /\ \A m \in 1 .. Len(msgs) : m \in shown' \cup skipped' \/ g.after < m
  <2>1. /\ TRUE \in BOOLEAN
        /\ TRUE => \A s \in shown' : \A m \in 1 .. s : m \in shown' \cup skipped'
    BY <1>4
  <2> HIDE DEF g
  <2>2. \A S \in SUBSET (1 .. Len(msgs)) : \A whole \in BOOLEAN : \A J :
           (whole => \A s \in S : \A m \in 1 .. s : m \in S \cup J) =>
              /\ FetchAfter(S, whole) \in [at : {"none", "asked", "answered"}, after : Nat, upTo : 0 .. Len(msgs)]
              /\ FetchAfter(S, whole).at = "asked"
              /\ FetchAfter(S, whole).after # 0 => whole /\ FetchAfter(S, whole).after \in S
              /\ \A m \in 1 .. Len(msgs) : m \in S \cup J \/ FetchAfter(S, whole).after < m
    BY <1>0, FetchAfterIs
  <2> QED
    BY <1>3, <2>1, <2>2 DEF g
<1>7. fetch' = (IF again THEN g ELSE NoFetch)
  BY <1>1
<1> HIDE DEF g
<1>8. FetchOK'
  <2>1. NoFetch \in [at : {"none", "asked", "answered"}, after : Nat, upTo : 0 .. Len(msgs)]
        /\ NoFetch.after = 0
    BY <1>0 DEF NoFetch
  <2> QED
    BY <1>1, <1>6, <1>7, <2>1 DEF FetchOK, gateway
<1>9. ScreenOK' /\ StaleOK'
  <2>1. \A id \in DOMAIN live' : id \in DOMAIN live /\ live'[id] = live[id] /\ ~live[id].stale
    BY <1>1 DEF Fresh, Restrict
  <2>2. StaleOK'
    BY <2>1 DEF StaleOK
  <2>3. ScreenOK'
    BY <1>0, <1>1, <1>3, <2>1 DEF ScreenOK, gateway
  <2> QED
    BY <2>2, <2>3
<1>10. GatewayOK' /\ SocketOK' /\ PostOK'
  BY <1>0, <1>1 DEF TypeInv, GatewayOK, SocketOK, PostOK, gateway, socket
<1>11. Subscribed'
  BY <1>0, <1>1 DEF Subscribed, gateway, socket
<1>12. NoneForgotten'
  <2> SUFFICES ASSUME active, ready, NEW m \in 1 .. Len(msgs) PROVE Due(m)'
    BY <1>1 DEF NoneForgotten, gateway, socket
  <2>1. CASE again
    BY <1>6, <1>7, <2>1 DEF Due, Brings
  <2>2. CASE ~again
    <3>1. Due(m)
      BY <1>0, <1>1 DEF NoneForgotten
    <3>2. CASE Brings(m)
      <4>1. m \in fetch.after + 1 .. fetch.upTo
        BY <1>1, <1>2, <3>2 DEF Brings
      <4> QED
        BY <1>1, <4>1 DEF Due
    <3>3. CASE ~Brings(m)
      BY <1>1, <2>2, <3>1, <3>3 DEF Due, socket
    <3> QED
      BY <3>2, <3>3
  <2> QED
    BY <2>1, <2>2
<1> QED
  BY <1>5, <1>8, <1>9, <1>10, <1>11, <1>12 DEF ViewInv, TypeInv

LEMMA FetchFailsKeeps == ASSUME ViewInv, FetchFails PROVE ViewInv'
<1>0. TypeInv /\ Gapless /\ Subscribed /\ FetchOK /\ ScreenOK /\ Len(msgs) \in Nat
  BY RunIs DEF ViewInv, TypeInv
<1>1. /\ unfetched' = TRUE /\ again' = FALSE
      /\ fetch' = IF again THEN FetchAfter(shown, loaded) ELSE NoFetch
      /\ UNCHANGED <<gateway, down, up, ready, active, screen, timer, post, skipped>>
  BY DEF FetchFails, FetchOver
<1> DEFINE g == FetchAfter(shown, loaded)
<1>2. /\ g \in [at : {"none", "asked", "answered"}, after : Nat, upTo : 0 .. Len(msgs)]
      /\ g.at = "asked" /\ (g.after # 0 => loaded /\ g.after \in shown)
      /\ \A m \in 1 .. Len(msgs) : m \in shown \cup skipped \/ g.after < m
  <2>1. /\ loaded => \A s \in shown : \A m \in 1 .. s : m \in shown \cup skipped
        /\ shown \in SUBSET (1 .. Len(msgs)) /\ loaded \in BOOLEAN
    BY <1>0 DEF Gapless, ScreenOK
  <2> QED
    BY <1>0, <2>1, FetchAfterIs
<1>3. fetch' = IF again THEN g ELSE NoFetch
  BY <1>1
<1> HIDE DEF g
<1>4. FetchOK'
  <2>1. NoFetch \in [at : {"none", "asked", "answered"}, after : Nat, upTo : 0 .. Len(msgs)]
        /\ NoFetch.after = 0
    BY <1>0 DEF NoFetch
  <2> QED
    BY <1>1, <1>2, <1>3, <2>1 DEF FetchOK, gateway, screen
<1>5. GatewayOK' /\ SocketOK' /\ ScreenOK' /\ PostOK' /\ StaleOK'
  BY <1>0, <1>1 DEF TypeInv, GatewayOK, SocketOK, ScreenOK, PostOK, StaleOK, gateway, screen
<1>6. Gapless' /\ Subscribed'
  BY <1>0, <1>1 DEF Gapless, Subscribed, gateway, screen
<1>7. NoneForgotten'
  <2>1. CASE again
    BY <1>1, <1>2, <1>3, <2>1 DEF NoneForgotten, Due, Brings, gateway, screen
  <2>2. CASE ~again
    BY <1>1, <1>3, <2>2 DEF NoneForgotten, NoFetch
  <2> QED
    BY <2>1, <2>2
<1> QED
  BY <1>4, <1>5, <1>6, <1>7 DEF ViewInv, TypeInv

\* Steps of the request for a message, which no other part looks at.
LEMMA PostAlone ==
    ASSUME ViewInv, PostOK', UNCHANGED <<gateway, down, up, ready, active, screen, timer, fetch, again, slips>>
    PROVE  ViewInv'
<1>0. TypeInv /\ Gapless /\ Subscribed /\ NoneForgotten
  BY DEF ViewInv
<1>1. GatewayOK' /\ SocketOK' /\ ScreenOK' /\ FetchOK' /\ StaleOK'
  BY <1>0 DEF TypeInv, GatewayOK, SocketOK, ScreenOK, FetchOK, StaleOK, gateway, screen, slips
<1>2. Gapless' /\ Subscribed' /\ NoneForgotten'
  BY <1>0 DEF Gapless, Subscribed, NoneForgotten, Due, Brings, gateway, screen, slips
<1> QED
  BY <1>1, <1>2 DEF ViewInv, TypeInv

LEMMA NoPostIs ==
    ASSUME TypeInv, msgs' = msgs, NEW a \in {"none", "asked", "queued"}, post' = [NoPost EXCEPT !.at = a]
    PROVE  PostOK'
<1>1. Len(msgs) \in Nat
  BY RunIs DEF TypeInv
<1>2. post' = [at |-> a, seq |-> 0]
  BY DEF NoPost
<1>3. 0 \in 0 .. Len(msgs)
  BY <1>1
<1>4. /\ [at |-> a, seq |-> 0] \in [at : {"none", "asked", "queued", "message"}, seq : 0 .. Len(msgs)]
      /\ [at |-> a, seq |-> 0].at = a /\ a # "message"
  BY <1>3
<1> QED
  BY <1>2, <1>4 DEF PostOK

LEMMA SendMessageKeeps == ASSUME ViewInv, SendMessage PROVE ViewInv'
<1>1. /\ post' = [NoPost EXCEPT !.at = "asked"]
      /\ UNCHANGED <<gateway, socket, active, screen, timer, fetch, again, slips>>
  BY DEF SendMessage
<1>2. PostOK'
  BY <1>1, NoPostIs DEF ViewInv, gateway
<1> QED
  BY <1>1, <1>2, PostAlone DEF socket

LEMMA PostOverKeeps == ASSUME ViewInv, PostOver PROVE ViewInv'
<1>1. /\ post' = NoPost
      /\ UNCHANGED <<gateway, down, up, ready, active, screen, timer, fetch, again, slips>>
  BY DEF PostOver
<1>2. PostOK'
  <2>1. NoPost = [NoPost EXCEPT !.at = "none"]
    BY DEF NoPost
  <2> QED
    BY <1>1, <2>1, NoPostIs DEF ViewInv, gateway
<1> QED
  BY <1>1, <1>2, PostAlone

LEMMA AnswerPostKeeps == ASSUME ViewInv, AnswerPost PROVE ViewInv'
<1>1. /\ Submit /\ UNCHANGED said
      /\ post' = IF run.on THEN [NoPost EXCEPT !.at = "queued"] ELSE [at |-> "message", seq |-> Len(msgs')]
      /\ UNCHANGED <<subs, up, ready, active, screen, timer, fetch, again, skipped, unfetched>>
  BY DEF AnswerPost, slips
<1>2. PICK q \in Seq(Frames) :
         /\ Broadcast(q) /\ GatewayOK' /\ Len(msgs) <= Len(msgs')
         /\ msgs' = msgs \/ \E i \in 1 .. Len(q) : q[i].k = "persisted"
         /\ run.on \/ (Len(msgs') = Len(msgs) + 1)
  BY <1>1, SubmittingIs
<1>3. PostOK'
  <2>1. Len(msgs) \in Nat /\ Len(msgs') \in Nat
    BY <1>2 DEF ViewInv, TypeInv, GatewayOK
  <2>2. CASE run.on
    <3>1. post' = [at |-> "queued", seq |-> 0] /\ 0 \in 0 .. Len(msgs')
      BY <1>1, <2>1, <2>2 DEF NoPost
    <3> QED
      BY <3>1 DEF PostOK
  <2>3. CASE ~run.on
    <3>1. Len(msgs') \in 0 .. Len(msgs') /\ Len(msgs') # 0
      BY <1>2, <2>1, <2>3
    <3>2. post' = [at |-> "message", seq |-> Len(msgs')]
      BY <1>1, <2>3
    <3> QED
      BY <3>1, <3>2 DEF PostOK
  <2> QED
    BY <2>2, <2>3
<1> QED
  BY <1>1, <1>2, <1>3, GatewayKeeps

LEMMA PostReturnsKeeps == ASSUME ViewInv, PostReturns PROVE ViewInv'
<1>0. /\ TypeInv /\ Gapless /\ Subscribed /\ NoneForgotten /\ FetchOK /\ ScreenOK /\ PostOK
      /\ Len(msgs) \in Nat
  BY RunIs DEF ViewInv, TypeInv
<1>1. /\ post.at = "message" /\ shown' = shown \cup {post.seq} /\ post' = NoPost
      /\ skipped' = (skipped \cup IF loaded THEN 1 .. post.seq ELSE {}) \ shown'
      /\ UNCHANGED <<gateway, socket, active, loaded, live, buffer, timer, fetch, again, unfetched>>
  BY DEF PostReturns
<1>2. post.seq \in 1 .. Len(msgs)
  <2>1. post.seq \in 0 .. Len(msgs) /\ post.seq # 0
    BY <1>0, <1>1 DEF PostOK
  <2> QED
    BY <1>0, <2>1
<1>3. ScreenOK'
  BY <1>0, <1>1, <1>2 DEF ScreenOK, gateway
<1>4. PostOK'
  <2>1. NoPost = [NoPost EXCEPT !.at = "none"]
    BY DEF NoPost
  <2> QED
    BY <1>0, <1>1, <2>1, NoPostIs DEF gateway
<1>5. GatewayOK' /\ SocketOK' /\ FetchOK' /\ StaleOK'
  BY <1>0, <1>1 DEF TypeInv, GatewayOK, SocketOK, FetchOK, StaleOK, gateway, socket
<1>6. \A m : m \in shown \cup skipped => m \in shown' \cup skipped'
  BY <1>1
<1>7. Gapless'
  <2> SUFFICES ASSUME loaded, NEW s \in shown', NEW m \in 1 .. s PROVE m \in shown' \cup skipped'
    BY <1>1 DEF Gapless
  <2>1. CASE s \in shown
    BY <1>0, <1>6, <2>1 DEF Gapless
  <2>2. CASE s = post.seq
    BY <1>1, <2>2
  <2> QED
    BY <1>1, <2>1, <2>2
<1>8. Subscribed'
  BY <1>0, <1>1 DEF Subscribed, gateway, socket
<1>9. NoneForgotten'
  <2> SUFFICES ASSUME active, ready, fetch.at # "none" \/ ~unfetched, NEW m \in 1 .. Len(msgs)
               PROVE  Due(m)'
    BY <1>1 DEF NoneForgotten, gateway, socket
  <2>1. Due(m)
    BY <1>0 DEF NoneForgotten
  <2>2. CASE m \in shown \cup skipped
    BY <1>6, <2>2 DEF Due
  <2>3. CASE m \notin shown \cup skipped
    BY <1>1, <2>1, <2>3 DEF Due, Brings, socket
  <2> QED
    BY <2>2, <2>3
<1> QED
  BY <1>3, <1>4, <1>5, <1>7, <1>8, <1>9 DEF ViewInv, TypeInv

-----------------------------------------------------------------------------
(* The theorems                                                            *)

LEMMA InitView == Init => ViewInv
<1> SUFFICES ASSUME Init PROVE ViewInv
  OBVIOUS
<1>1. /\ msgs = << >> /\ run = NoRun /\ queued = 0 /\ said = 0 /\ subs = FALSE /\ down = << >>
      /\ ready \in BOOLEAN /\ active = ~ready /\ up = IF active THEN <<"sub">> ELSE << >>
      /\ shown = {} /\ loaded \in {FALSE, ready} /\ live = NoText /\ buffer = NoText
      /\ timer = FALSE /\ fetch = NoFetch /\ again = FALSE /\ post = NoPost
      /\ skipped = {} /\ unfetched = FALSE
  BY DEF Init
<1>2. Len(msgs) = 0 /\ MaxMessages \in Nat /\ MaxPieces \in Nat /\ MaxFrames \in Nat
  BY <1>1, ViewAssumption
<1>3. GatewayOK
  <2>1. msgs \in Seq(SUBSET Pieces) /\ said \in 0 .. MaxPieces /\ Len(msgs) + queued <= MaxMessages
    BY <1>1, <1>2
  <2> QED
    BY <1>1, <2>1 DEF GatewayOK, NoRun
<1>4. SocketOK
  <2>1. down \in Seq(Frames) /\ Len(down) <= MaxFrames
    BY <1>1, <1>2
  <2>2. up \in Seq({"sub", "unsub"})
    <3>1. <<"sub">> \in Seq({"sub", "unsub"}) /\ << >> \in Seq({"sub", "unsub"})
      OBVIOUS
    <3> QED
      BY <1>1, <3>1
  <2> QED
    BY <2>1, <2>2 DEF SocketOK
<1>5. ScreenOK
  <2>1. shown \in SUBSET (1 .. Len(msgs)) /\ loaded \in BOOLEAN
    BY <1>1
  <2>2. \A id \in DOMAIN NoText : FALSE
    BY DEF NoText
  <2> QED
    BY <1>1, <2>1, <2>2 DEF ScreenOK
<1>6. FetchOK
  <2>1. 0 \in 0 .. Len(msgs)
    BY <1>2
  <2> QED
    BY <1>1, <2>1 DEF FetchOK, NoFetch
<1>7. PostOK
  <2>1. 0 \in 0 .. Len(msgs)
    BY <1>2
  <2> QED
    BY <1>1, <2>1 DEF PostOK, NoPost
<1>8. StaleOK
  BY <1>1 DEF StaleOK, NoText
<1>9. Gapless
  BY <1>1 DEF Gapless
<1>10. Subscribed
  <2>1. CASE active
    <3>1. up = <<"sub">> /\ Len(<<"sub">>) = 1 /\ <<"sub">>[1] = "sub" /\ <<"sub">> # << >>
      BY <1>1, <2>1
    <3> QED
      BY <3>1 DEF Subscribed
  <2>2. CASE ~active
    BY <2>2 DEF Subscribed
  <2> QED
    BY <2>1, <2>2
<1>11. NoneForgotten
  BY <1>1 DEF NoneForgotten
<1> QED
  BY <1>3, <1>4, <1>5, <1>6, <1>7, <1>8, <1>9, <1>10, <1>11 DEF ViewInv, TypeInv

LEMMA NextView == ViewInv /\ [Next]_vars => ViewInv'
<1> SUFFICES ASSUME ViewInv, [Next]_vars PROVE ViewInv'
  OBVIOUS
<1>1. CASE OtherSubmits \/ ModelSpeaks \/ FlushDeltas \/ StepFinishes \/ DrainsQueue \/ FinishIdle \/ FinishCut
  BY <1>1, OtherSubmitsKeeps, ModelSpeaksKeeps, FlushDeltasKeeps, StepFinishesKeeps, DrainsQueueKeeps,
     FinishIdleKeeps, FinishCutKeeps
<1>2. CASE Hub
  BY <1>2, ServeSubscribeKeeps, ServeUnsubscribeKeeps DEF Hub
<1>3. CASE Told
  BY <1>3, ReadKeeps, DeltaTimerFiresKeeps, HistoryTimerFiresKeeps, ReconnectKeeps, FetchReturnsKeeps DEF Told
<1>4. CASE Asked
  BY <1>4, ActivateKeeps, DeactivateKeeps, SendMessageKeeps DEF Asked
<1>5. CASE AnswerFetch \/ AnswerPost \/ PostReturns \/ PostOver \/ FetchFails \/ LoseSocket
  BY <1>5, AnswerFetchKeeps, AnswerPostKeeps, PostReturnsKeeps, PostOverKeeps, FetchFailsKeeps, LoseSocketKeeps
<1>6. CASE UNCHANGED vars
  <2>1. PostOK' /\ UNCHANGED <<gateway, down, up, ready, active, screen, timer, fetch, again, slips>>
    BY <1>6 DEF ViewInv, TypeInv, PostOK, vars, gateway, socket, screen, http, slips
  <2> QED
    BY <2>1, PostAlone
<1> QED
  BY <1>1, <1>2, <1>3, <1>4, <1>5, <1>6 DEF Next

LEMMA ViewInvariant == Spec => []ViewInv
BY InitView, NextView, PTL DEF Spec

\* ViewTypeOK: every variable keeps its type, what is shown is in the database, a
\* loadHistory() asked for during another has one to wait for, and text marked stale
\* has a fetch ahead that will drop it (handleMessagePersisted, loadHistory).
THEOREM ViewTypes == Spec => []ViewTypeOK
<1>1. ViewInv => ViewTypeOK
  <2> SUFFICES ASSUME ViewInv PROVE ViewTypeOK
    OBVIOUS
  <2>1. GatewayOK /\ SocketOK /\ ScreenOK /\ FetchOK /\ StaleOK
    BY DEF ViewInv, TypeInv
  <2>2. \A m \in DOMAIN msgs : msgs[m] \subseteq Pieces
    BY <2>1 DEF GatewayOK
  <2>3. said <= MaxPieces
    BY <2>1, ViewAssumption DEF GatewayOK
  <2>4. shown \subseteq 1 .. MaxMessages
    <3>1. Len(msgs) \in Nat /\ queued \in Nat /\ MaxMessages \in Nat /\ Len(msgs) + queued <= MaxMessages
      BY <2>1, RunIs DEF GatewayOK
    <3>2. 1 .. Len(msgs) \subseteq 1 .. MaxMessages
      BY <3>1
    <3> QED
      BY <2>1, <3>2 DEF ScreenOK
  <2>5. \A id \in DOMAIN buffer : buffer[id] # {}
    BY <2>1 DEF ScreenOK
  <2> QED
    BY <2>1, <2>2, <2>3, <2>4, <2>5 DEF ViewTypeOK, GatewayOK, SocketOK, ScreenOK, FetchOK, StaleOK
<1> QED
  BY <1>1, ViewInvariant, PTL

LEMMA HistoryAtRest == ViewInv => HistoryAgrees
<1> SUFFICES ASSUME ViewInv, AtRest, ~unfetched
             PROVE  shown \subseteq DOMAIN msgs /\ DOMAIN msgs \ shown \subseteq skipped
  BY DEF HistoryAgrees
<1>1. TypeInv /\ NoneForgotten /\ DOMAIN msgs = 1 .. Len(msgs)
  BY DEF ViewInv, TypeInv, GatewayOK
<1>2. /\ active /\ ready /\ up = << >> /\ down = << >> /\ ~timer /\ fetch = NoFetch
  BY DEF AtRest
<1>3. fetch.at = "none" /\ ~again
  BY <1>1, <1>2 DEF NoFetch, TypeInv, FetchOK
<1>4. ASSUME NEW m \in 1 .. Len(msgs) PROVE m \in shown \cup skipped
  <2>1. Due(m)
    BY <1>1, <1>2, <1>3 DEF NoneForgotten
  <2>2. ~Brings(m)
    BY <1>3 DEF Brings
  <2>3. ~News(down, m)
    BY <1>2 DEF News
  <2> QED
    BY <1>2, <1>3, <2>1, <2>2, <2>3 DEF Due
<1> QED
  BY <1>1, <1>4 DEF TypeInv, ScreenOK

\* HistoryAgrees: a selected session that comes to rest shows every message of the
\* database and no other, whatever frames, requests and answers were lost or overtook
\* each other, but for those a sent message has jumped over (loadHistory, handleSync,
\* handleMessagePersisted, setActiveSession, the resubscription on READY).
THEOREM HistoryIsWhole == Spec => []HistoryAgrees
BY HistoryAtRest, ViewInvariant, PTL

-----------------------------------------------------------------------------
(* Pieces of text on the socket                                            *)

\* A frame that takes what is on the screen away, or marks it; one with a piece of
\* text; and one that says that a step's text has become a message.
Kills(f)      == f.k \in {"sync", "finished"} \/ (f.k = "persisted" /\ f.role = "assistant")
Carries(f, p) == f.k \in {"delta", "sync"} /\ p \in f.text
Ends(f)       == f.k = "persisted" /\ f.role = "assistant"

Bears(q, p) == \E i \in 1 .. Len(q) : Carries(q[i], p)
Cuts(q)     == \E i \in 1 .. Len(q) : Kills(q[i])
HasEnd(q)   == \E i \in 1 .. Len(q) : Ends(q[i])

\* Whatever brings the piece is followed by a frame that takes it away.
Doomed(q, p) ==
    \A i \in 1 .. Len(q) :
        Carries(q[i], p) => \E j \in 1 .. Len(q) : i < j /\ Kills(q[j])

\* The piece comes with a SYNC, or with a delta of step s and with nothing else; and it
\* stays once it is read.
Synced(q, p) ==
    \E i \in 1 .. Len(q) :
        /\ q[i].k = "sync" /\ p \in q[i].text
        /\ \A j \in 1 .. Len(q) : i < j => ~Kills(q[j]) /\ ~Carries(q[j], p)

Sent(q, p, s) ==
    \E i \in 1 .. Len(q) :
        /\ q[i].k = "delta" /\ q[i].id = s /\ p \in q[i].text
        /\ \A j \in 1 .. Len(q) : (i < j => ~Kills(q[j])) /\ (i # j => ~Carries(q[j], p))

\* No delta is of a step after s; and none of step s comes before the end of a step.
UpTo(q, s)   == \A i \in 1 .. Len(q) : q[i].k = "delta" => q[i].id \in Nat /\ q[i].id <= s
InPast(q, s) == \A i, j \in 1 .. Len(q) : Ends(q[i]) /\ j < i /\ q[j].k = "delta" => q[j].id # s

LEMMA JoinedAre ==
    ASSUME NEW S, NEW q \in Seq(S), NEW f \in Seq(S)
    PROVE  /\ Len(q) \in Nat /\ Len(f) \in Nat
           /\ \A i \in 1 .. Len(q) : i \in 1 .. Len(q \o f) /\ (q \o f)[i] = q[i]
           /\ \A i \in 1 .. Len(f) : /\ Len(q) + i \in 1 .. Len(q \o f) /\ (q \o f)[Len(q) + i] = f[i]
                                     /\ \A j \in 1 .. Len(q) : j < Len(q) + i
           /\ \A i \in 1 .. Len(q \o f) :
                 \/ i \in 1 .. Len(q)
                 \/ \E j \in 1 .. Len(f) : i = Len(q) + j
<1>1. /\ Len(q \o f) = Len(q) + Len(f)
      /\ \A i \in 1 .. Len(q) + Len(f) : (q \o f)[i] = IF i <= Len(q) THEN q[i] ELSE f[i - Len(q)]
  BY ConcatProperties
<1>2. Len(q) \in Nat /\ Len(f) \in Nat
  OBVIOUS
<1>3. ASSUME NEW i \in 1 .. Len(q) PROVE i \in 1 .. Len(q \o f) /\ (q \o f)[i] = q[i]
  <2>1. i \in 1 .. Len(q) + Len(f) /\ i <= Len(q)
    BY <1>2
  <2> QED
    BY <1>1, <2>1
<1>4. ASSUME NEW i \in 1 .. Len(f)
      PROVE  /\ Len(q) + i \in 1 .. Len(q \o f) /\ (q \o f)[Len(q) + i] = f[i]
             /\ \A j \in 1 .. Len(q) : j < Len(q) + i
  <2>1. /\ Len(q) + i \in 1 .. Len(q) + Len(f) /\ ~(Len(q) + i <= Len(q)) /\ (Len(q) + i) - Len(q) = i
        /\ \A j \in 1 .. Len(q) : j < Len(q) + i
    BY <1>2
  <2> QED
    BY <1>1, <2>1
<1>5. ASSUME NEW i \in 1 .. Len(q \o f), i \notin 1 .. Len(q)
      PROVE  \E j \in 1 .. Len(f) : i = Len(q) + j
  <2>1. i - Len(q) \in 1 .. Len(f) /\ i = Len(q) + (i - Len(q))
    BY <1>1, <1>2, <1>5
  <2> QED
    BY <2>1
<1> QED
  BY <1>2, <1>3, <1>4, <1>5

\* What more frames leave of each of these.
LEMMA JoinedBear ==
    ASSUME NEW q \in Seq(Frames), NEW f \in Seq(Frames), NEW p
    PROVE  /\ Bears(q \o f, p) => Bears(q, p) \/ Bears(f, p)
           /\ Cuts(q \o f) => Cuts(q) \/ Cuts(f)
           /\ Cuts(q) \/ Cuts(f) => Cuts(q \o f)
           /\ HasEnd(q \o f) => HasEnd(q) \/ HasEnd(f)
           /\ \A s \in Nat : UpTo(q, s) /\ UpTo(f, s) => UpTo(q \o f, s)
<1>1. /\ \A i \in 1 .. Len(q) : i \in 1 .. Len(q \o f) /\ (q \o f)[i] = q[i]
      /\ \A i \in 1 .. Len(f) : Len(q) + i \in 1 .. Len(q \o f) /\ (q \o f)[Len(q) + i] = f[i]
      /\ \A i \in 1 .. Len(q \o f) : i \in 1 .. Len(q) \/ \E j \in 1 .. Len(f) : i = Len(q) + j
  BY JoinedAre
<1>2. ASSUME Bears(q \o f, p) PROVE Bears(q, p) \/ Bears(f, p)
  BY <1>1, <1>2 DEF Bears
<1>3. ASSUME Cuts(q \o f) PROVE Cuts(q) \/ Cuts(f)
  BY <1>1, <1>3 DEF Cuts
<1>4. ASSUME Cuts(q) \/ Cuts(f) PROVE Cuts(q \o f)
  BY <1>1, <1>4 DEF Cuts
<1>5. ASSUME HasEnd(q \o f) PROVE HasEnd(q) \/ HasEnd(f)
  BY <1>1, <1>5 DEF HasEnd
<1>6. ASSUME NEW s \in Nat, UpTo(q, s), UpTo(f, s) PROVE UpTo(q \o f, s)
  BY <1>1, <1>6 DEF UpTo
<1> QED
  BY <1>2, <1>3, <1>4, <1>5, <1>6

LEMMA JoinedDoom ==
    ASSUME NEW q \in Seq(Frames), NEW f \in Seq(Frames), NEW p, Doomed(f, p), Doomed(q, p) \/ Cuts(f)
    PROVE  Doomed(q \o f, p)
<1>1. /\ \A i \in 1 .. Len(q) : i \in 1 .. Len(q \o f) /\ (q \o f)[i] = q[i]
      /\ \A i \in 1 .. Len(f) : /\ Len(q) + i \in 1 .. Len(q \o f) /\ (q \o f)[Len(q) + i] = f[i]
                                /\ \A j \in 1 .. Len(q) : j < Len(q) + i
      /\ \A i \in 1 .. Len(q \o f) : i \in 1 .. Len(q) \/ \E j \in 1 .. Len(f) : i = Len(q) + j
      /\ Len(q) \in Nat
  BY JoinedAre
<1> SUFFICES ASSUME NEW i \in 1 .. Len(q \o f), Carries((q \o f)[i], p)
             PROVE  \E j \in 1 .. Len(q \o f) : i < j /\ Kills((q \o f)[j])
  BY DEF Doomed
<1>2. CASE i \in 1 .. Len(q)
  <2>1. CASE Cuts(f)
    <3>1. PICK j \in 1 .. Len(f) : Kills(f[j])
      BY <2>1 DEF Cuts
    <3> QED
      BY <1>1, <1>2, <3>1
  <2>2. CASE Doomed(q, p)
    <3>1. PICK j \in 1 .. Len(q) : i < j /\ Kills(q[j])
      BY <1>1, <1>2, <2>2 DEF Doomed
    <3> QED
      BY <1>1, <3>1
  <2> QED
    BY <2>1, <2>2
<1>3. ASSUME NEW n \in 1 .. Len(f), i = Len(q) + n
      PROVE  \E j \in 1 .. Len(q \o f) : i < j /\ Kills((q \o f)[j])
  <2>1. Carries(f[n], p)
    BY <1>1, <1>3
  <2>2. PICK j \in 1 .. Len(f) : n < j /\ Kills(f[j])
    BY <2>1 DEF Doomed
  <2>3. i < Len(q) + j
    BY <1>1, <1>3, <2>2
  <2> QED
    BY <1>1, <2>2, <2>3
<1> QED
  BY <1>1, <1>2, <1>3

\* Behind what stays, frames that neither take away nor bring it again; and what comes
\* behind the rest.
LEMMA JoinedStay ==
    ASSUME NEW q \in Seq(Frames), NEW f \in Seq(Frames), NEW p, NEW s
    PROVE  /\ Synced(q, p) /\ ~Bears(f, p) /\ ~Cuts(f) => Synced(q \o f, p)
           /\ Sent(q, p, s) /\ ~Bears(f, p) /\ ~Cuts(f) => Sent(q \o f, p, s)
           /\ InPast(q, s) /\ ~HasEnd(f) => InPast(q \o f, s)
<1>1. /\ \A i \in 1 .. Len(q) : i \in 1 .. Len(q \o f) /\ (q \o f)[i] = q[i]
      /\ \A i \in 1 .. Len(f) : /\ (q \o f)[Len(q) + i] = f[i]
                                /\ \A j \in 1 .. Len(q) : j < Len(q) + i
      /\ \A i \in 1 .. Len(q \o f) : i \in 1 .. Len(q) \/ \E j \in 1 .. Len(f) : i = Len(q) + j
      /\ Len(q) \in Nat
  BY JoinedAre
<1>2. ASSUME Synced(q, p), ~Bears(f, p), ~Cuts(f) PROVE Synced(q \o f, p)
  <2>1. PICK i \in 1 .. Len(q) : /\ q[i].k = "sync" /\ p \in q[i].text
                                 /\ \A j \in 1 .. Len(q) : i < j => ~Kills(q[j]) /\ ~Carries(q[j], p)
    BY <1>2 DEF Synced
  <2>2. ASSUME NEW j \in 1 .. Len(q \o f), i < j PROVE ~Kills((q \o f)[j]) /\ ~Carries((q \o f)[j], p)
    BY <1>1, <1>2, <2>1, <2>2 DEF Bears, Cuts
  <2> QED
    BY <1>1, <2>1, <2>2 DEF Synced
<1>3. ASSUME Sent(q, p, s), ~Bears(f, p), ~Cuts(f) PROVE Sent(q \o f, p, s)
  <2>1. PICK i \in 1 .. Len(q) :
           /\ q[i].k = "delta" /\ q[i].id = s /\ p \in q[i].text
           /\ \A j \in 1 .. Len(q) : (i < j => ~Kills(q[j])) /\ (i # j => ~Carries(q[j], p))
    BY <1>3 DEF Sent
  <2>2. ASSUME NEW j \in 1 .. Len(q \o f)
        PROVE  (i < j => ~Kills((q \o f)[j])) /\ (i # j => ~Carries((q \o f)[j], p))
    BY <1>1, <1>3, <2>1 DEF Bears, Cuts
  <2> QED
    BY <1>1, <2>1, <2>2 DEF Sent
<1>4. ASSUME InPast(q, s), ~HasEnd(f) PROVE InPast(q \o f, s)
  <2> SUFFICES ASSUME NEW i \in 1 .. Len(q \o f), NEW j \in 1 .. Len(q \o f),
                      Ends((q \o f)[i]), j < i, (q \o f)[j].k = "delta"
               PROVE  (q \o f)[j].id # s
    BY DEF InPast
  <2>1. i \in 1 .. Len(q)
    BY <1>1, <1>4 DEF HasEnd
  <2>2. j \in 1 .. Len(q)
    BY <1>1, <2>1
  <2> QED
    BY <1>1, <1>4, <2>1, <2>2 DEF InPast
<1> QED
  BY <1>2, <1>3, <1>4

LEMMA JoinedCome ==
    ASSUME NEW q \in Seq(Frames), NEW f \in Frames, NEW p, NEW s
    PROVE  /\ f.k = "sync" /\ p \in f.text => Synced(q \o <<f>>, p)
           /\ f.k = "delta" /\ f.id = s /\ p \in f.text /\ ~Bears(q, p) => Sent(q \o <<f>>, p, s)
<1>1. /\ <<f>> \in Seq(Frames) /\ Len(<<f>>) = 1 /\ <<f>>[1] = f
  OBVIOUS
<1>2. /\ Len(q) \in Nat
      /\ \A i \in 1 .. Len(q) : (q \o <<f>>)[i] = q[i]
      /\ Len(q) + 1 \in 1 .. Len(q \o <<f>>) /\ (q \o <<f>>)[Len(q) + 1] = f
      /\ \A i \in 1 .. Len(q \o <<f>>) : i \in 1 .. Len(q) \/ i = Len(q) + 1
  <2>1. 1 .. Len(<<f>>) = {1}
    BY <1>1
  <2> QED
    BY <1>1, <2>1, JoinedAre
<1>3. \A i \in 1 .. Len(q \o <<f>>) : ~(Len(q) + 1 < i)
  BY <1>2
<1>4. ASSUME f.k = "sync", p \in f.text PROVE Synced(q \o <<f>>, p)
  BY <1>2, <1>3, <1>4 DEF Synced
<1>5. ASSUME f.k = "delta", f.id = s, p \in f.text, ~Bears(q, p) PROVE Sent(q \o <<f>>, p, s)
  <2>1. \A i \in 1 .. Len(q \o <<f>>) : i # Len(q) + 1 => ~Carries((q \o <<f>>)[i], p)
    BY <1>2, <1>5 DEF Bears
  <2> QED
    BY <1>2, <1>3, <1>5, <2>1 DEF Sent
<1> QED
  BY <1>4, <1>5

\* What reading the first frame leaves.
LEMMA HeadIsRead ==
    ASSUME NEW q \in Seq(Frames), q # << >>, NEW p, NEW s
    PROVE  LET h == Head(q)  t == Tail(q) IN
           /\ h \in Frames /\ t \in Seq(Frames)
           /\ Carries(h, p) \/ Bears(t, p) => Bears(q, p)
           /\ Kills(h) \/ Cuts(t) => Cuts(q)
           /\ Cuts(q) => Kills(h) \/ Cuts(t)
           /\ Ends(h) \/ HasEnd(t) => HasEnd(q)
           /\ UpTo(q, s) => UpTo(t, s) /\ (h.k = "delta" => h.id \in Nat /\ h.id <= s)
           /\ InPast(q, s) => InPast(t, s) /\ (h.k = "delta" /\ HasEnd(t) => h.id # s)
           /\ Doomed(q, p) => Doomed(t, p) /\ (Carries(h, p) => Cuts(t))
           /\ Synced(q, p) => Synced(t, p) \/ (h.k = "sync" /\ p \in h.text /\ ~Bears(t, p) /\ ~Cuts(t))
           /\ Sent(q, p, s) => \/ Sent(t, p, s) /\ ~Carries(h, p)
                               \/ /\ h.k = "delta" /\ h.id = s /\ p \in h.text
                                  /\ ~Bears(t, p) /\ ~Cuts(t)
<1> DEFINE h == Head(q)
           t == Tail(q)
<1>1. /\ h \in Frames /\ t \in Seq(Frames) /\ Len(t) = Len(q) - 1
      /\ \A i \in 1 .. Len(t) : t[i] = q[i + 1]
      /\ h = q[1] /\ Len(q) \in Nat /\ Len(q) # 0
  BY HeadTailProperties, EmptySeq
<1> HIDE DEF h, t
<1>2. /\ 1 \in 1 .. Len(q) /\ q[1] = h
      /\ \A i \in 1 .. Len(t) : /\ i + 1 \in 1 .. Len(q) /\ q[i + 1] = t[i] /\ 1 < i + 1 /\ 1 # i + 1
                                /\ i \in Nat
      /\ \A i \in 1 .. Len(q) : i = 1 \/ \E j \in 1 .. Len(t) : i = j + 1
  <2>1. ASSUME NEW i \in 1 .. Len(q), i # 1 PROVE \E j \in 1 .. Len(t) : i = j + 1
    <3>1. i - 1 \in 1 .. Len(t) /\ i = (i - 1) + 1
      BY <1>1, <2>1
    <3> QED
      BY <3>1
  <2>2. \A i \in 1 .. Len(t) : i + 1 \in 1 .. Len(q) /\ 1 < i + 1 /\ 1 # i + 1 /\ i \in Nat
    BY <1>1
  <2> QED
    BY <1>1, <2>1, <2>2
<1>3. \A i, j \in 1 .. Len(t) : (i < j => i + 1 < j + 1) /\ (i + 1 < j + 1 => i < j) /\ (i # j => i + 1 # j + 1)
  BY <1>2
<1>4. Carries(h, p) \/ Bears(t, p) => Bears(q, p)
  BY <1>2 DEF Bears
<1>5. (Kills(h) \/ Cuts(t) => Cuts(q)) /\ (Cuts(q) => Kills(h) \/ Cuts(t))
  BY <1>2 DEF Cuts
<1>6. Ends(h) \/ HasEnd(t) => HasEnd(q)
  BY <1>2 DEF HasEnd
<1>7. UpTo(q, s) => UpTo(t, s) /\ (h.k = "delta" => h.id \in Nat /\ h.id <= s)
  BY <1>2 DEF UpTo
<1>8. InPast(q, s) => InPast(t, s) /\ (h.k = "delta" /\ HasEnd(t) => h.id # s)
  BY <1>2, <1>3 DEF InPast, HasEnd
<1>9. Doomed(q, p) => Doomed(t, p) /\ (Carries(h, p) => Cuts(t))
  <2> SUFFICES ASSUME Doomed(q, p) PROVE Doomed(t, p) /\ (Carries(h, p) => Cuts(t))
    OBVIOUS
  <2>1. ASSUME NEW i \in 1 .. Len(t), Carries(t[i], p) PROVE \E j \in 1 .. Len(t) : i < j /\ Kills(t[j])
    <3>1. PICK j \in 1 .. Len(q) : i + 1 < j /\ Kills(q[j])
      BY <1>2, <2>1 DEF Doomed
    <3>2. j # 1
      BY <1>2, <3>1
    <3> QED
      BY <1>2, <1>3, <3>1, <3>2
  <2>2. ASSUME Carries(h, p) PROVE Cuts(t)
    <3>1. PICK j \in 1 .. Len(q) : 1 < j /\ Kills(q[j])
      BY <1>2, <2>2 DEF Doomed
    <3> QED
      BY <1>2, <3>1 DEF Cuts
  <2> QED
    BY <2>1, <2>2 DEF Doomed
<1>10. Synced(q, p) => Synced(t, p) \/ (h.k = "sync" /\ p \in h.text /\ ~Bears(t, p) /\ ~Cuts(t))
  <2> SUFFICES ASSUME Synced(q, p)
               PROVE  Synced(t, p) \/ (h.k = "sync" /\ p \in h.text /\ ~Bears(t, p) /\ ~Cuts(t))
    OBVIOUS
  <2>1. PICK i \in 1 .. Len(q) : /\ q[i].k = "sync" /\ p \in q[i].text
                                 /\ \A j \in 1 .. Len(q) : i < j => ~Kills(q[j]) /\ ~Carries(q[j], p)
    BY DEF Synced
  <2>2. CASE i = 1
    BY <1>2, <2>1, <2>2 DEF Bears, Cuts
  <2>3. ASSUME NEW n \in 1 .. Len(t), i = n + 1 PROVE Synced(t, p)
    <3>1. t[n] = q[i]
      BY <1>2, <2>3
    <3>2. ASSUME NEW j \in 1 .. Len(t), n < j PROVE ~Kills(t[j]) /\ ~Carries(t[j], p)
      <4>1. j + 1 \in 1 .. Len(q) /\ q[j + 1] = t[j] /\ i < j + 1
        BY <1>2, <1>3, <2>3, <3>2
      <4> QED
        BY <2>1, <4>1
    <3> QED
      BY <2>1, <3>1, <3>2 DEF Synced
  <2> QED
    BY <1>2, <2>2, <2>3
<1>11. Sent(q, p, s) => \/ Sent(t, p, s) /\ ~Carries(h, p)
                        \/ /\ h.k = "delta" /\ h.id = s /\ p \in h.text
                           /\ ~Bears(t, p) /\ ~Cuts(t)
  <2> SUFFICES ASSUME Sent(q, p, s)
               PROVE  \/ Sent(t, p, s) /\ ~Carries(h, p)
                      \/ /\ h.k = "delta" /\ h.id = s /\ p \in h.text
                         /\ ~Bears(t, p) /\ ~Cuts(t)
    OBVIOUS
  <2>1. PICK i \in 1 .. Len(q) :
           /\ q[i].k = "delta" /\ q[i].id = s /\ p \in q[i].text
           /\ \A j \in 1 .. Len(q) : (i < j => ~Kills(q[j])) /\ (i # j => ~Carries(q[j], p))
    BY DEF Sent
  <2>2. CASE i = 1
    BY <1>2, <2>1, <2>2 DEF Bears, Cuts
  <2>3. ASSUME NEW n \in 1 .. Len(t), i = n + 1 PROVE Sent(t, p, s) /\ ~Carries(h, p)
    BY <1>2, <1>3, <2>1, <2>3 DEF Sent
  <2> QED
    BY <1>2, <2>2, <2>3
<1> QED
  BY <1>1, <1>4, <1>5, <1>6, <1>7, <1>8, <1>9, <1>10, <1>11 DEF h, t

-----------------------------------------------------------------------------
(* Pieces of text on the screen                                            *)

\* A segment l[id], or the buffer b[id], has the piece.
Holds(l, b, id, p) == (id \in DOMAIN l /\ p \in l[id].text) \/ (id \in DOMAIN b /\ p \in b[id])
Held(l, b, p)      == \E id \in DOMAIN l \cup DOMAIN b : Holds(l, b, id, p)

\* The piece is there once, and will not go; or it is there, and not marked to go.
Stays(l, b, id, p) ==
    /\ Holds(l, b, id, p)
    /\ \A d \in DOMAIN l \cup DOMAIN b : Holds(l, b, d, p) => d = id
    /\ id \in DOMAIN l => ~l[id].stale
Lingers(l, b, p)   ==
    \/ \E id \in DOMAIN l : p \in l[id].text /\ ~l[id].stale
    \/ \E id \in DOMAIN b : p \in b[id]

\* The screen l, b shows no more than before, and all that stays.
Soft(l, b, p) ==
    /\ Held(l, b, p) => Held(live, buffer, p)
    /\ \A id : Stays(live, buffer, id, p) => Stays(l, b, id, p)
    /\ Lingers(l, b, p) => Lingers(live, buffer, p)

LEMMA FlushedHolds ==
    ASSUME ScreenOK, NEW p
    PROVE  /\ DOMAIN Flushed = DOMAIN live \cup DOMAIN buffer
           /\ \A id \in DOMAIN Flushed : Flushed[id].stale => id \in DOMAIN live /\ live[id].stale
           /\ Soft(Flushed, NoText, p)
<1>1. /\ DOMAIN Flushed = DOMAIN live \cup DOMAIN buffer
      /\ \A id \in DOMAIN Flushed : Flushed[id].stale => id \in DOMAIN live /\ live[id].stale
  BY FlushedIs DEF Flushed
<1>2. ASSUME NEW id \in DOMAIN live \cup DOMAIN buffer
      PROVE  /\ p \in Flushed[id].text <=> Holds(live, buffer, id, p)
             /\ id \in DOMAIN live => Flushed[id].stale = live[id].stale
  <2>1. id \in DOMAIN live => live[id] \in SegmentType
    BY DEF ScreenOK
  <2>2. CASE id \notin DOMAIN buffer
    BY <1>2, <2>2 DEF Flushed, Holds
  <2>3. CASE id \in DOMAIN buffer /\ id \notin DOMAIN live
    <3>1. Flushed[id] = [text |-> buffer[id], stale |-> FALSE]
      BY <1>2, <2>3 DEF Flushed
    <3>2. Flushed[id].text = buffer[id]
      BY <3>1
    <3> QED
      BY <2>3, <3>2 DEF Holds
  <2>4. CASE id \in DOMAIN buffer /\ id \in DOMAIN live
    <3>1. Flushed[id] = [live[id] EXCEPT !.text = @ \cup buffer[id]]
      BY <1>2, <2>4 DEF Flushed
    <3>2. Flushed[id].text = live[id].text \cup buffer[id] /\ Flushed[id].stale = live[id].stale
      BY <2>1, <2>4, <3>1 DEF SegmentType
    <3> QED
      BY <2>4, <3>2 DEF Holds
  <2> QED
    BY <2>2, <2>3, <2>4
<1>3. DOMAIN NoText = {}
  BY DEF NoText
<1>4. \A id : Holds(Flushed, NoText, id, p) <=> Holds(live, buffer, id, p)
  <2> TAKE id
  <2>1. CASE id \in DOMAIN live \cup DOMAIN buffer
    BY <1>1, <1>2, <1>3, <2>1 DEF Holds
  <2>2. CASE id \notin DOMAIN live \cup DOMAIN buffer
    BY <1>1, <1>3, <2>2 DEF Holds
  <2> QED
    BY <2>1, <2>2
<1>5. Held(Flushed, NoText, p) => Held(live, buffer, p)
  BY <1>1, <1>3, <1>4 DEF Held
<1>6. ASSUME NEW id, Stays(live, buffer, id, p) PROVE Stays(Flushed, NoText, id, p)
  <2>1. id \in DOMAIN Flushed => ~Flushed[id].stale
    BY <1>1, <1>6 DEF Stays
  <2> QED
    BY <1>1, <1>3, <1>4, <1>6, <2>1 DEF Stays
<1>7. ASSUME Lingers(Flushed, NoText, p) PROVE Lingers(live, buffer, p)
  <2>1. PICK id \in DOMAIN Flushed : p \in Flushed[id].text /\ ~Flushed[id].stale
    BY <1>3, <1>7 DEF Lingers
  <2>2. Holds(live, buffer, id, p) /\ (id \in DOMAIN live => ~live[id].stale)
    BY <1>1, <1>2, <2>1
  <2> QED
    BY <2>2 DEF Lingers, Holds
<1> QED
  BY <1>1, <1>5, <1>6, <1>7 DEF Soft

LEMMA FreshHolds ==
    ASSUME ScreenOK, NEW p
    PROVE  /\ DOMAIN Fresh(live) \subseteq DOMAIN live
           /\ \A id \in DOMAIN Fresh(live) : ~Fresh(live)[id].stale
           /\ Soft(Fresh(live), buffer, p)
<1>1. /\ \A id : id \in DOMAIN Fresh(live) <=> id \in DOMAIN live /\ ~live[id].stale
      /\ \A id \in DOMAIN Fresh(live) : Fresh(live)[id] = live[id]
  BY DEF Fresh, Restrict
<1>2. \A id : Holds(Fresh(live), buffer, id, p) => Holds(live, buffer, id, p)
  BY <1>1 DEF Holds
<1>3. Held(Fresh(live), buffer, p) => Held(live, buffer, p)
  BY <1>1, <1>2 DEF Held
<1>4. ASSUME NEW id, Stays(live, buffer, id, p) PROVE Stays(Fresh(live), buffer, id, p)
  <2>1. Holds(Fresh(live), buffer, id, p) /\ (id \in DOMAIN Fresh(live) => ~Fresh(live)[id].stale)
    BY <1>1, <1>4 DEF Stays, Holds
  <2>2. \A d \in DOMAIN Fresh(live) \cup DOMAIN buffer : Holds(Fresh(live), buffer, d, p) => d = id
    BY <1>1, <1>2, <1>4 DEF Stays
  <2> QED
    BY <2>1, <2>2 DEF Stays
<1>5. Lingers(Fresh(live), buffer, p) => Lingers(live, buffer, p)
  BY <1>1 DEF Lingers
<1> QED
  BY <1>1, <1>3, <1>4, <1>5 DEF Soft

\* What a frame h does to the piece on the screen, to its segments and their marks.
Change(h, p) ==
    /\ Held(live', buffer', p) => Held(live, buffer, p) \/ Carries(h, p)
    /\ Lingers(live', buffer', p) => (Lingers(live, buffer, p) /\ ~Kills(h)) \/ Carries(h, p)
    /\ ~Kills(h) /\ ~Carries(h, p) =>
          \A id : Stays(live, buffer, id, p) => Stays(live', buffer', id, p)
    /\ h.k = "sync" /\ p \in h.text => Stays(live', buffer', 0, p)
    /\ /\ h.k = "delta" /\ p \in h.text /\ ~Held(live, buffer, p)
       /\ h.id \in DOMAIN live => ~live[h.id].stale
       => Stays(live', buffer', h.id, p)
    /\ \A id \in DOMAIN live' \cup DOMAIN buffer' :
          id \in DOMAIN live \cup DOMAIN buffer \/ id = 0 \/ (h.k = "delta" /\ id = h.id)
    /\ \A id \in DOMAIN live' :
          live'[id].stale => \/ id \in DOMAIN live /\ live[id].stale
                             \/ Ends(h) /\ id \in DOMAIN live \cup DOMAIN buffer

LEMMA ScreenIsRead ==
    ASSUME ScreenOK, SocketOK, Read, NEW p
    PROVE  Change(Head(down), p)
<1> DEFINE h == Head(down)
<1>1. down # << >> /\ (ReadSync(h) \/ ReadDelta(h) \/ ReadPersisted(h) \/ ReadFinished(h))
  BY DEF Read
<1>2. h \in Frames
  BY <1>1, NewsAreRead DEF SocketOK
<1> HIDE DEF h
<1>3. DOMAIN NoText = {} /\ \A id : ~Holds(NoText, NoText, id, p)
  BY DEF NoText, Holds
<1>4. ASSUME ReadSync(h) PROVE Change(h, p)
  <2>1. /\ h.k = "sync" /\ buffer' = NoText /\ Kills(h)
        /\ live' = IF h.text = {} THEN NoText ELSE [id \in {0} |-> [text |-> h.text, stale |-> FALSE]]
    BY <1>4 DEF ReadSync, Unbuffered, Kills
  <2>2. CASE h.text = {}
    <3>1. live' = NoText /\ p \notin h.text
      BY <2>1, <2>2
    <3>2. ~Held(live', buffer', p) /\ ~Lingers(live', buffer', p) /\ DOMAIN live' = {} /\ DOMAIN buffer' = {}
      BY <1>3, <2>1, <3>1 DEF Held, Lingers
    <3> QED
      BY <2>1, <3>1, <3>2 DEF Change
  <2>3. CASE h.text # {}
    <3>1. /\ DOMAIN live' = {0} /\ DOMAIN buffer' = {}
          /\ live'[0].text = h.text /\ live'[0].stale = FALSE
      BY <1>3, <2>1, <2>3
    <3>2. Held(live', buffer', p) => p \in h.text
      BY <3>1 DEF Held, Holds
    <3>3. Lingers(live', buffer', p) => p \in h.text
      BY <3>1 DEF Lingers
    <3>4. p \in h.text => Stays(live', buffer', 0, p)
      BY <3>1 DEF Stays, Holds
    <3>5. p \in h.text => Carries(h, p)
      BY <2>1 DEF Carries
    <3> QED
      BY <2>1, <3>1, <3>2, <3>3, <3>4, <3>5 DEF Change
  <2> QED
    BY <2>2, <2>3
<1>5. ASSUME ReadDelta(h) PROVE Change(h, p)
  <2>1. /\ h.k = "delta" /\ live' = live /\ ~Kills(h)
        /\ buffer' = [id \in DOMAIN buffer \cup {h.id} |->
                        (IF id \in DOMAIN buffer THEN buffer[id] ELSE {})
                           \cup IF id = h.id THEN h.text ELSE {}]
    BY <1>5 DEF ReadDelta, Kills
  <2>2. DOMAIN buffer' = DOMAIN buffer \cup {h.id}
    BY <2>1
  <2>3. \A id \in DOMAIN buffer' : p \in buffer'[id] <=> \/ id \in DOMAIN buffer /\ p \in buffer[id]
                                                         \/ id = h.id /\ p \in h.text
    BY <2>1
  <2>4. Carries(h, p) <=> p \in h.text
    BY <2>1 DEF Carries
  <2>5. \A id : Holds(live', buffer', id, p) <=> Holds(live, buffer, id, p) \/ (id = h.id /\ p \in h.text)
    BY <2>1, <2>2, <2>3 DEF Holds
  <2>6. Held(live', buffer', p) => Held(live, buffer, p) \/ Carries(h, p)
    BY <2>1, <2>2, <2>4, <2>5 DEF Held, Holds
  <2>7. Lingers(live', buffer', p) => Lingers(live, buffer, p) \/ Carries(h, p)
    BY <2>1, <2>2, <2>3, <2>4 DEF Lingers
  <2>8. ASSUME ~Carries(h, p), NEW id, Stays(live, buffer, id, p) PROVE Stays(live', buffer', id, p)
    <3>1. \A d : Holds(live', buffer', d, p) <=> Holds(live, buffer, d, p)
      BY <2>4, <2>5, <2>8
    <3>2. \A d : Holds(live, buffer, d, p) => d \in DOMAIN live \cup DOMAIN buffer
      BY DEF Holds
    <3> QED
      BY <2>1, <2>8, <3>1, <3>2 DEF Stays
  <2>9. ASSUME p \in h.text, ~Held(live, buffer, p), h.id \in DOMAIN live => ~live[h.id].stale
        PROVE  Stays(live', buffer', h.id, p)
    <3>1. \A d : ~Holds(live, buffer, d, p)
      BY <2>9 DEF Held, Holds
    <3> QED
      BY <2>1, <2>5, <2>9, <3>1 DEF Stays
  <2>10. h.k # "sync"
    BY <2>1
  <2>11. /\ \A id \in DOMAIN live' \cup DOMAIN buffer' :
               id \in DOMAIN live \cup DOMAIN buffer \/ id = h.id
         /\ \A id \in DOMAIN live' : live'[id].stale => id \in DOMAIN live /\ live[id].stale
    BY <2>1, <2>2
  <2> QED
    BY <2>1, <2>6, <2>7, <2>8, <2>9, <2>10, <2>11 DEF Change
<1>6. ASSUME ReadPersisted(h) PROVE Change(h, p)
  <2>1. /\ h.k = "persisted" /\ buffer' = NoText
        /\ live' = IF h.role = "assistant" THEN Stale(Flushed) ELSE Flushed
    BY <1>6 DEF ReadPersisted
  <2>2. /\ DOMAIN Flushed = DOMAIN live \cup DOMAIN buffer
        /\ \A id \in DOMAIN Flushed : Flushed[id].stale => id \in DOMAIN live /\ live[id].stale
        /\ Soft(Flushed, NoText, p)
    BY FlushedHolds
  <2>3. CASE h.role = "assistant"
    <3>1. live' = Stale(Flushed) /\ Kills(h) /\ Ends(h)
      BY <2>1, <2>3 DEF Kills, Ends
    <3>2. DOMAIN live' = DOMAIN Flushed
      BY <3>1 DEF Stale
    <3>3. \A id \in DOMAIN live' : live'[id].text = Flushed[id].text /\ live'[id].stale = TRUE
      <4>1. \A id \in DOMAIN Flushed : Flushed[id] \in SegmentType
        BY FlushedIs DEF Segments
      <4>2. ASSUME NEW id \in DOMAIN live'
            PROVE  live'[id].text = Flushed[id].text /\ live'[id].stale = TRUE
        <5>1. live'[id] = [Flushed[id] EXCEPT !.stale = TRUE] /\ Flushed[id] \in SegmentType
          BY <3>1, <3>2, <4>1 DEF Stale
        <5> QED
          BY <5>1 DEF SegmentType
      <4> QED
        BY <4>2
    <3>4. Held(live', buffer', p) => Held(Flushed, NoText, p)
      BY <2>1, <3>2, <3>3 DEF Held, Holds
    <3>5. ~Lingers(live', buffer', p)
      BY <1>3, <2>1, <3>3 DEF Lingers
    <3> QED
      BY <1>3, <2>1, <2>2, <3>1, <3>2, <3>4, <3>5 DEF Soft, Change
  <2>4. CASE h.role # "assistant"
    <3>1. live' = Flushed /\ ~Kills(h)
      BY <2>1, <2>4 DEF Kills
    <3> QED
      BY <1>3, <2>1, <2>2, <3>1 DEF Soft, Change
  <2> QED
    BY <2>3, <2>4
<1>7. ASSUME ReadFinished(h) PROVE Change(h, p)
  <2>1. h.k = "finished" /\ live' = NoText /\ buffer' = NoText /\ Kills(h)
    BY <1>7 DEF ReadFinished, Kills
  <2>2. ~Held(live', buffer', p) /\ ~Lingers(live', buffer', p) /\ DOMAIN live' = {} /\ DOMAIN buffer' = {}
    BY <1>3, <2>1 DEF Held, Lingers
  <2> QED
    BY <2>1, <2>2 DEF Change
<1> QED
  BY <1>1, <1>4, <1>5, <1>6, <1>7 DEF h

-----------------------------------------------------------------------------
(* Each piece is somewhere, and once                                       *)

\* A piece that is said and no longer in the run's text is in one message.
Written(p) ==
    /\ p > said => p \notin run.text
    /\ p > said \/ p \in run.text => \A m \in DOMAIN msgs : p \notin msgs[m]
    /\ ~(p > said) /\ p \notin run.text =>
          \E m \in DOMAIN msgs : \A i \in DOMAIN msgs : p \in msgs[i] <=> i = m

Nowhere(q, l, b, p) == ~Held(l, b, p) /\ ~Bears(q, p)

\* When all frames of q are read over the screen l, b the piece is there once, and stays;
\* or it is gone, or marked to go.
Coming(q, l, b, s, p) ==
    \/ Synced(q, p)
    \/ Sent(q, p, s) /\ ~Held(l, b, p)
    \/ ~Bears(q, p) /\ ~Cuts(q) /\ \E id : Stays(l, b, id, p)
Going(q, l, b, p) == Doomed(q, p) /\ (Lingers(l, b, p) => Cuts(q))

\* Nobody has a piece that is not broadcast; the one that listens gets one of the run's
\* text, and loses one of a message.
Streamed(p) ==
    /\ p > said \/ p \in run.pending => Nowhere(down, live, buffer, p)
    /\ ~(p > said) /\ p \notin run.pending /\ subs =>
          /\ p \in run.text => Coming(down, live, buffer, run.step, p)
          /\ p \notin run.text => Going(down, live, buffer, p)

Segs(l, b) == DOMAIN l \cup DOMAIN b

\* The segment of the step under way is its own: older ones have smaller numbers, and
\* none of its deltas comes before the end of another step.
Steps ==
    /\ UpTo(down, run.step)
    /\ \A id \in Segs(live, buffer) : id \in Nat /\ id <= run.step
    /\ run.on => /\ run.step # 0
                 /\ run.step \in DOMAIN live => ~live[run.step].stale
                 /\ HasEnd(down) => run.step \notin Segs(live, buffer) /\ InPast(down, run.step)

TextInv == Steps /\ \A p \in Pieces \ excused : Written(p) /\ Streamed(p)

LEMMA PiecesAre ==
    ASSUME GatewayOK, NEW p \in Pieces
    PROVE  p \in Nat /\ said \in Nat
BY ViewAssumption DEF GatewayOK, Pieces

\* What a broadcast leaves of it, when it does not bring the piece; and what it does
\* when it takes the screen away.
LEMMA BroadcastLeaves ==
    ASSUME SocketOK, NEW f \in Seq(Frames), Broadcast(f), NEW p
    PROVE  /\ ~Bears(f, p) /\ Nowhere(down, live, buffer, p) => Nowhere(down', live, buffer, p)
           /\ subs /\ ~Bears(f, p) /\ Going(down, live, buffer, p) => Going(down', live, buffer, p)
           /\ \A s : subs /\ ~Bears(f, p) /\ ~Cuts(f) /\ Coming(down, live, buffer, s, p)
                        => Coming(down', live, buffer, s, p)
           /\ subs /\ Cuts(f) /\ Doomed(f, p) => Going(down', live, buffer, p)
           /\ \A s \in Nat : UpTo(down, s) /\ UpTo(f, s) => UpTo(down', s)
           /\ HasEnd(down') => HasEnd(down) \/ HasEnd(f)
           /\ \A s : InPast(down, s) /\ ~HasEnd(f) => InPast(down', s)
<1>1. down \in Seq(Frames) /\ (subs => down' = down \o f) /\ (~subs => down' = down)
  BY DEF SocketOK, Broadcast
<1>2. CASE ~subs
  BY <1>1, <1>2
<1>3. CASE subs
  <2>1. down' = down \o f
    BY <1>1, <1>3
  <2>2. /\ Bears(down', p) => Bears(down, p) \/ Bears(f, p)
        /\ Cuts(down') => Cuts(down) \/ Cuts(f)
        /\ Cuts(down) \/ Cuts(f) => Cuts(down')
        /\ HasEnd(down') => HasEnd(down) \/ HasEnd(f)
        /\ \A s \in Nat : UpTo(down, s) /\ UpTo(f, s) => UpTo(down', s)
    BY <1>1, <2>1, JoinedBear
  <2>3. Doomed(f, p) /\ (Doomed(down, p) \/ Cuts(f)) => Doomed(down', p)
    BY <1>1, <2>1, JoinedDoom
  <2>4. \A s : /\ Synced(down, p) /\ ~Bears(f, p) /\ ~Cuts(f) => Synced(down', p)
               /\ Sent(down, p, s) /\ ~Bears(f, p) /\ ~Cuts(f) => Sent(down', p, s)
               /\ InPast(down, s) /\ ~HasEnd(f) => InPast(down', s)
    BY <1>1, <2>1, JoinedStay
  <2>5. ~Bears(f, p) => Doomed(f, p)
    BY DEF Bears, Doomed
  <2> QED
    BY <2>2, <2>3, <2>4, <2>5 DEF Nowhere, Going, Coming
<1> QED
  BY <1>2, <1>3

\* The step under way goes on, or is over.
LEMMA BroadcastSteps ==
    ASSUME GatewayOK, SocketOK, Steps, NEW f \in Seq(Frames), Broadcast(f), UNCHANGED <<live, buffer>>,
           UpTo(f, run.step),
           \/ run'.step = run.step /\ (run'.on => run.on /\ ~HasEnd(f))
           \/ run'.step = run.step + 1
    PROVE  Steps'
<1>1. /\ run.step \in Nat /\ UpTo(down', run.step)
      /\ HasEnd(down') => HasEnd(down) \/ HasEnd(f)
      /\ InPast(down, run.step) /\ ~HasEnd(f) => InPast(down', run.step)
  <2>1. run.step \in Nat
    BY RunIs
  <2> QED
    BY <2>1, BroadcastLeaves DEF Steps
<1>2. CASE run'.step = run.step /\ (run'.on => run.on /\ ~HasEnd(f))
  BY <1>1, <1>2 DEF Steps
<1>3. CASE run'.step = run.step + 1
  <2>1. run'.step # 0 /\ run.step < run'.step
    BY <1>1, <1>3
  <2>2. ASSUME NEW i \in 1 .. Len(down'), down'[i].k = "delta"
        PROVE  down'[i].id \in Nat /\ down'[i].id <= run'.step /\ down'[i].id # run'.step
    <3>1. down'[i].id \in Nat /\ down'[i].id <= run.step
      BY <1>1, <2>2 DEF UpTo
    <3>2. PICK n : n = down'[i].id
      OBVIOUS
    <3>3. n \in Nat /\ n <= run.step
      BY <3>1, <3>2
    <3> QED
      BY <1>1, <1>3, <3>2, <3>3
  <2>3. UpTo(down', run'.step) /\ InPast(down', run'.step)
    BY <2>2 DEF UpTo, InPast
  <2>4. ASSUME NEW id \in Segs(live, buffer) PROVE id \in Nat /\ id <= run'.step /\ id # run'.step
    <3>1. id \in Nat /\ id <= run.step
      BY <2>4 DEF Steps
    <3> QED
      BY <1>1, <1>3, <3>1
  <2>5. run'.step \notin Segs(live, buffer)
    BY <2>4
  <2>6. run'.step \notin DOMAIN live
    BY <2>5 DEF Segs
  <2>7. \A id \in Segs(live', buffer') : id \in Nat /\ id <= run'.step
    BY <2>4
  <2>8. run'.step \notin Segs(live', buffer') /\ run'.step \notin DOMAIN live'
    BY <2>5, <2>6
  <2> QED
    BY <2>1, <2>3, <2>7, <2>8 DEF Steps
<1> QED
  BY <1>2, <1>3

\* Messages without the piece are added.
LEMMA WrittenStays ==
    ASSUME GatewayOK, NEW p, Written(p), NEW e \in Seq(SUBSET Pieces), msgs' = msgs \o e,
           \A i \in 1 .. Len(e) : p \notin e[i], said' = said, p \in run'.text <=> p \in run.text
    PROVE  Written(p)'
<1>0. msgs \in Seq(SUBSET Pieces)
  BY DEF GatewayOK
<1>1. /\ \A i \in 1 .. Len(msgs) : i \in 1 .. Len(msgs') /\ msgs'[i] = msgs[i]
      /\ \A i \in 1 .. Len(msgs') : i \in 1 .. Len(msgs) \/ (i \notin 1 .. Len(msgs) /\ p \notin msgs'[i])
  <2>1. /\ \A i \in 1 .. Len(msgs) : i \in 1 .. Len(msgs') /\ msgs'[i] = msgs[i]
        /\ \A i \in 1 .. Len(e) : msgs'[Len(msgs) + i] = e[i]
        /\ \A i \in 1 .. Len(msgs') : i \in 1 .. Len(msgs) \/ \E j \in 1 .. Len(e) : i = Len(msgs) + j
    BY <1>0, JoinedAre
  <2> QED
    BY <2>1
<1>2. DOMAIN msgs = 1 .. Len(msgs) /\ DOMAIN msgs' = 1 .. Len(msgs')
  <2>1. msgs' \in Seq(SUBSET Pieces)
    BY <1>0, ConcatProperties
  <2> QED
    BY <1>0, <2>1
<1>3. p > said' => p \notin run'.text
  BY DEF Written
<1>4. ASSUME p > said' \/ p \in run'.text PROVE \A m \in DOMAIN msgs' : p \notin msgs'[m]
  BY <1>1, <1>2, <1>4 DEF Written
<1>5. ASSUME ~(p > said'), p \notin run'.text
      PROVE  \E m \in DOMAIN msgs' : \A i \in DOMAIN msgs' : p \in msgs'[i] <=> i = m
  <2>1. PICK m \in DOMAIN msgs : \A i \in DOMAIN msgs : p \in msgs[i] <=> i = m
    BY <1>5 DEF Written
  <2>2. ASSUME NEW i \in DOMAIN msgs' PROVE p \in msgs'[i] <=> i = m
    BY <1>1, <1>2, <2>1
  <2> QED
    BY <1>1, <1>2, <2>1, <2>2
<1> QED
  BY <1>3, <1>4, <1>5 DEF Written

LEMMA WrittenIs ==
    ASSUME GatewayOK, NEW p, Written(p), msgs' = Append(msgs, run.text), said' = said, p \notin run'.text
    PROVE  Written(p)'
<1>0. msgs \in Seq(SUBSET Pieces) /\ run.text \in SUBSET Pieces
  BY DEF GatewayOK
<1>1. CASE p \notin run.text
  <2>1. /\ <<run.text>> \in Seq(SUBSET Pieces) /\ msgs' = msgs \o <<run.text>>
        /\ \A i \in 1 .. Len(<<run.text>>) : p \notin <<run.text>>[i]
    BY <1>0, <1>1, AppendIsConcat
  <2> QED
    BY <1>1, <2>1, WrittenStays
<1>2. CASE p \in run.text
  <2>1. /\ msgs' \in Seq(SUBSET Pieces) /\ Len(msgs') = Len(msgs) + 1 /\ Len(msgs) \in Nat
        /\ \A i \in 1 .. Len(msgs) : msgs'[i] = msgs[i]
        /\ msgs'[Len(msgs) + 1] = run.text
    BY <1>0, AppendProperties
  <2>2. /\ DOMAIN msgs' = 1 .. Len(msgs) + 1 /\ DOMAIN msgs = 1 .. Len(msgs)
        /\ Len(msgs) + 1 \in 1 .. Len(msgs) + 1
    BY <1>0, <2>1
  <2>3. ASSUME NEW i \in DOMAIN msgs' PROVE p \in msgs'[i] <=> i = Len(msgs) + 1
    <3>1. CASE i = Len(msgs) + 1
      BY <1>2, <2>1, <3>1
    <3>2. CASE i # Len(msgs) + 1
      <4>1. i \in 1 .. Len(msgs)
        BY <2>1, <2>2, <2>3, <3>2
      <4> QED
        BY <1>2, <2>1, <2>2, <3>2, <4>1 DEF Written
    <3> QED
      BY <3>1, <3>2
  <2>4. ~(p > said')
    BY <1>2 DEF Written
  <2>5. \E m \in DOMAIN msgs' : \A i \in DOMAIN msgs' : p \in msgs'[i] <=> i = m
    <3>1. Len(msgs) + 1 \in DOMAIN msgs'
      BY <2>2
    <3> QED
      BY <2>3, <3>1
  <2> QED
    BY <2>4, <2>5, Zenon DEF Written
<1> QED
  BY <1>1, <1>2

LEMMA TextStays ==
    ASSUME TextInv, UNCHANGED <<msgs, run, said, subs, down, live, buffer, excused>>
    PROVE  TextInv'
<1>1. Steps'
  BY DEF TextInv, Steps
<1>2. ASSUME NEW p \in Pieces \ excused PROVE Written(p)' /\ Streamed(p)'
  <2>1. Written(p) /\ Streamed(p)
    BY DEF TextInv
  <2>2. Written(p)'
    BY <2>1 DEF Written
  <2>3. Streamed(p)'
    BY <2>1 DEF Streamed
  <2> QED
    BY <2>2, <2>3
<1> QED
  BY <1>1, <1>2 DEF TextInv

\* No frames; the frames that are broadcast one by one; and what the run holds back.
LEMMA OfNone ==
    /\ << >> \in Seq(Frames) /\ ~Cuts(<< >>) /\ ~HasEnd(<< >>)
    /\ \A p : ~Bears(<< >>, p) /\ ~Synced(<< >>, p) /\ \A s : UpTo(<< >>, s) /\ ~Sent(<< >>, p, s)
<1>1. << >> \in Seq(Frames) /\ 1 .. Len(<< >>) = {}
  OBVIOUS
<1> QED
  BY <1>1 DEF Cuts, HasEnd, Bears, Synced, Sent, UpTo

LEMMA NoneBears ==
    ASSUME NEW f \in Seq(Frames), \A i \in 1 .. Len(f) : f[i].k \in {"persisted", "finished"}
    PROVE  (\A p : ~Bears(f, p)) /\ \A s : UpTo(f, s)
<1>1. \A i \in 1 .. Len(f) : f[i].k # "delta" /\ f[i].k # "sync"
  OBVIOUS
<1> QED
  BY <1>1 DEF Bears, Carries, UpTo

LEMMA OfUsers ==
    ASSUME NEW f \in Seq(Frames), \A i \in 1 .. Len(f) : f[i] = Persisted("user")
    PROVE  (\A p : ~Bears(f, p)) /\ (\A s : UpTo(f, s)) /\ ~Cuts(f) /\ ~HasEnd(f)
<1>1. Persisted("user").k = "persisted" /\ ~Kills(Persisted("user")) /\ ~Ends(Persisted("user"))
  BY DEF Persisted, Kills, Ends
<1>2. \A i \in 1 .. Len(f) : f[i].k \in {"persisted", "finished"}
  BY <1>1
<1>3. (\A p : ~Bears(f, p)) /\ \A s : UpTo(f, s)
  BY <1>2, NoneBears
<1>4. ~Cuts(f) /\ ~HasEnd(f)
  BY <1>1 DEF Cuts, HasEnd
<1> QED
  BY <1>3, <1>4

LEMMA OfAssistant ==
    /\ <<Persisted("assistant")>> \in Seq(Frames) /\ Cuts(<<Persisted("assistant")>>)
    /\ (\A p : ~Bears(<<Persisted("assistant")>>, p)) /\ \A s : UpTo(<<Persisted("assistant")>>, s)
<1> DEFINE f == <<Persisted("assistant")>>
<1>1. f \in Seq(Frames) /\ Len(f) = 1 /\ f[1] = Persisted("assistant") /\ 1 \in 1 .. Len(f)
  BY FramesAre
<1>2. f[1].k = "persisted" /\ Kills(f[1])
  BY <1>1 DEF Persisted, Kills
<1> HIDE DEF f
<1>3. \A i \in 1 .. Len(f) : f[i].k \in {"persisted", "finished"}
  BY <1>1, <1>2
<1>4. Cuts(f)
  BY <1>1, <1>2 DEF Cuts
<1>5. (\A p : ~Bears(f, p)) /\ \A s : UpTo(f, s)
  BY <1>1, <1>3, NoneBears
<1> QED
  BY <1>1, <1>4, <1>5 DEF f

LEMMA OfFlush ==
    ASSUME GatewayOK
    PROVE  /\ Flush(run) \in Seq(Frames) /\ ~Cuts(Flush(run)) /\ ~HasEnd(Flush(run)) /\ UpTo(Flush(run), run.step)
           /\ \A p : Bears(Flush(run), p) => p \in run.pending
<1>1. CASE run.pending = {}
  <2>1. Flush(run) = << >>
    BY <1>1 DEF Flush
  <2>2. 1 .. Len(Flush(run)) = {}
    BY <2>1
  <2> QED
    BY <2>1, <2>2 DEF Cuts, HasEnd, UpTo, Bears
<1>2. CASE run.pending # {}
  <2> DEFINE d == Delta(run.step, run.pending)
  <2>1. Flush(run) = <<d>> /\ d.k = "delta" /\ d.id = run.step /\ d.text = run.pending
    BY <1>2 DEF Flush, Delta
  <2>2. Len(Flush(run)) = 1 /\ Flush(run)[1] = d
    BY <2>1
  <2>3. \A i \in 1 .. Len(Flush(run)) : Flush(run)[i] = d
    BY <2>2
  <2>4. ~Kills(d) /\ ~Ends(d)
    BY <2>1 DEF Kills, Ends
  <2>5. run.step \in Nat /\ run.step <= run.step
    BY RunIs
  <2>6. \A p : Carries(d, p) => p \in run.pending
    BY <2>1 DEF Carries
  <2> HIDE DEF d
  <2>7. UpTo(Flush(run), run.step)
    BY <2>1, <2>3, <2>5 DEF UpTo
  <2>8. Flush(run) \in Seq(Frames)
    BY FlushIs
  <2> QED
    BY <2>3, <2>4, <2>6, <2>7, <2>8 DEF Cuts, HasEnd, Bears
<1> QED
  BY <1>1, <1>2

\* Steps that leave the run's text, and what is broadcast of it, alone.
LEMMA TextAside ==
    ASSUME ViewInv, TextInv, NEW f \in Seq(Frames), Broadcast(f), \A p : ~Bears(f, p),
           UNCHANGED <<said, subs, live, buffer, excused>>, Steps',
           NEW e \in Seq(SUBSET Pieces), msgs' = msgs \o e, \A i \in 1 .. Len(e) : e[i] = {},
           run'.text = run.text, run'.pending = run.pending, run.text = {}
    PROVE  TextInv'
<1>0. GatewayOK /\ SocketOK
  BY DEF ViewInv, TypeInv
<1> SUFFICES ASSUME NEW p \in Pieces \ excused PROVE Written(p)' /\ Streamed(p)'
  BY DEF TextInv
<1>1. Written(p) /\ Streamed(p)
  BY DEF TextInv
<1>2. Written(p)'
  <2>1. \A i \in 1 .. Len(e) : p \notin e[i]
    OBVIOUS
  <2> QED
    BY <1>0, <1>1, <2>1, WrittenStays
<1>3. /\ Nowhere(down, live, buffer, p) => Nowhere(down', live, buffer, p)
      /\ subs /\ Going(down, live, buffer, p) => Going(down', live, buffer, p)
  BY <1>0, BroadcastLeaves
<1>4. Streamed(p)'
  BY <1>1, <1>3 DEF Streamed
<1> QED
  BY <1>2, <1>4

LEMMA SubmitText ==
    ASSUME ViewInv, TextInv, Submit, UNCHANGED <<said, subs, live, buffer, excused>>
    PROVE  TextInv'
<1>0. GatewayOK /\ SocketOK /\ Steps
  BY DEF ViewInv, TypeInv, TextInv
<1>1. CASE run.on
  <2>1. UNCHANGED <<msgs, run, down>>
    BY <1>1 DEF Submit
  <2> QED
    BY <2>1, TextStays
<1>2. CASE ~run.on
  <2> DEFINE f == <<Persisted("user")>>
             e == <<{}>>
  <2>1. /\ msgs' = Append(msgs, {}) /\ Broadcast(f)
        /\ run' = [run EXCEPT !.on = TRUE, !.step = @ + 1]
    BY <1>2 DEF Submit
  <2>2. run'.text = run.text /\ run'.pending = run.pending /\ run'.step = run.step + 1 /\ run.text = {}
    BY <1>0, <1>2, <2>1 DEF GatewayOK
  <2>3. f \in Seq(Frames) /\ Len(f) = 1 /\ f[1] = Persisted("user")
    BY FramesAre
  <2>4. e \in Seq(SUBSET Pieces) /\ Len(e) = 1 /\ e[1] = {} /\ msgs' = msgs \o e
    <3>1. {} \in SUBSET Pieces /\ msgs \in Seq(SUBSET Pieces)
      BY <1>0 DEF GatewayOK
    <3>2. Append(msgs, {}) = msgs \o e
      BY <3>1, AppendIsConcat
    <3> QED
      BY <2>1, <3>1, <3>2
  <2> HIDE DEF f, e
  <2>5. (\A i \in 1 .. Len(f) : f[i] = Persisted("user")) /\ \A i \in 1 .. Len(e) : e[i] = {}
    BY <2>3, <2>4
  <2>6. (\A p : ~Bears(f, p)) /\ UpTo(f, run.step)
    BY <2>3, <2>5, OfUsers
  <2>7. Steps'
    BY <1>0, <2>1, <2>2, <2>3, <2>6, BroadcastSteps
  <2> QED
    BY <2>1, <2>2, <2>3, <2>4, <2>5, <2>6, <2>7, TextAside
<1> QED
  BY <1>1, <1>2

LEMMA ModelSpeaksText == ASSUME ViewInv, TextInv, ModelSpeaks PROVE TextInv'
<1>0. GatewayOK /\ Steps /\ run.on /\ said \in Nat
  <2>1. GatewayOK /\ MaxPieces \in Nat
    BY ViewAssumption DEF ViewInv, TypeInv
  <2> QED
    BY <2>1 DEF TextInv, ModelSpeaks, GatewayOK
<1>1. /\ said' = said + 1
      /\ run' = [run EXCEPT !.text = @ \cup {said'}, !.pending = @ \cup {said'}]
      /\ UNCHANGED <<msgs, subs, down, live, buffer, excused>>
  BY DEF ModelSpeaks, socket, screen, slips
<1>2. /\ run'.text = run.text \cup {said'} /\ run'.pending = run.pending \cup {said'}
      /\ run'.step = run.step /\ run'.on = run.on
  BY <1>0, <1>1 DEF GatewayOK
<1>3. Steps'
  BY <1>0, <1>1, <1>2 DEF Steps
<1>4. ASSUME NEW p \in Pieces \ excused PROVE Written(p)' /\ Streamed(p)'
  <2>1. Written(p) /\ Streamed(p) /\ p \in Nat
    BY <1>0, PiecesAre DEF TextInv
  <2>2. CASE p = said'
    <3>1. p > said /\ ~(p > said')
      BY <1>0, <1>1, <2>2
    <3>2. Written(p)'
      BY <1>1, <1>2, <2>1, <2>2, <3>1 DEF Written
    <3>3. Streamed(p)'
      BY <1>1, <1>2, <2>1, <2>2, <3>1 DEF Streamed
    <3> QED
      BY <3>2, <3>3
  <2>3. CASE p # said'
    <3>1. p > said <=> p > said'
      BY <1>0, <1>1, <2>1, <2>3
    <3>2. Written(p)'
      BY <1>1, <1>2, <2>1, <2>3, <3>1 DEF Written
    <3>3. Streamed(p)'
      BY <1>1, <1>2, <2>1, <2>3, <3>1 DEF Streamed
    <3> QED
      BY <3>2, <3>3
  <2> QED
    BY <2>2, <2>3
<1> QED
  BY <1>1, <1>3, <1>4 DEF TextInv

LEMMA FlushDeltasText == ASSUME ViewInv, TextInv, FlushDeltas PROVE TextInv'
<1>0. GatewayOK /\ SocketOK /\ Steps /\ run.step \in Nat
  BY RunIs DEF ViewInv, TypeInv, TextInv
<1> DEFINE f == Flush(run)
           d == Delta(run.step, run.pending)
<1>1. /\ Broadcast(f) /\ run' = [run EXCEPT !.pending = {}] /\ f = <<d>>
      /\ UNCHANGED <<msgs, said, subs, live, buffer, excused>>
  BY DEF FlushDeltas, screen, slips, Flush
<1>2. run'.text = run.text /\ run'.pending = {} /\ run'.step = run.step /\ run'.on = run.on
  BY <1>0, <1>1 DEF GatewayOK
<1>3. /\ f \in Seq(Frames) /\ ~Cuts(f) /\ ~HasEnd(f) /\ UpTo(f, run.step)
      /\ \A p : Bears(f, p) => p \in run.pending
  BY <1>0, OfFlush
<1>4. d \in Frames /\ d.k = "delta" /\ d.id = run.step /\ d.text = run.pending
  <2>1. run.pending \in SUBSET Pieces /\ run.pending # {}
    BY <1>0 DEF GatewayOK, FlushDeltas
  <2> QED
    BY <1>0, <2>1 DEF Delta, Frames
<1> HIDE DEF f, d
<1>5. Steps'
  BY <1>0, <1>1, <1>2, <1>3, BroadcastSteps
<1>6. ASSUME NEW p \in Pieces \ excused PROVE Written(p)' /\ Streamed(p)'
  <2>1. Written(p) /\ Streamed(p) /\ run.pending \subseteq run.text
    BY <1>0 DEF TextInv, GatewayOK
  <2>2. Written(p)'
    BY <1>1, <1>2, <2>1 DEF Written
  <2>3. CASE p \in run.pending
    <3>1. Nowhere(down, live, buffer, p) /\ ~(p > said)
      BY <2>1, <2>3 DEF Streamed, Written
    <3>2. ASSUME subs PROVE Coming(down', live, buffer, run.step, p)
      <4>1. down' = down \o <<d>> /\ down \in Seq(Frames)
        BY <1>0, <1>1, <3>2 DEF Broadcast, SocketOK
      <4>2. Sent(down', p, run.step)
        BY <1>4, <2>3, <3>1, <4>1, JoinedCome DEF Nowhere
      <4> QED
        BY <3>1, <4>2 DEF Coming, Nowhere
    <3> QED
      BY <1>1, <1>2, <2>1, <2>2, <2>3, <3>1, <3>2 DEF Streamed
  <2>4. CASE p \notin run.pending
    <3>1. /\ Nowhere(down, live, buffer, p) => Nowhere(down', live, buffer, p)
          /\ subs /\ Going(down, live, buffer, p) => Going(down', live, buffer, p)
          /\ subs /\ Coming(down, live, buffer, run.step, p) => Coming(down', live, buffer, run.step, p)
      BY <1>0, <1>1, <1>3, <2>4, BroadcastLeaves
    <3> QED
      BY <1>1, <1>2, <2>1, <2>2, <2>4, <3>1 DEF Streamed
  <2> QED
    BY <2>3, <2>4
<1> QED
  BY <1>1, <1>5, <1>6 DEF TextInv

\* The text so far becomes a message, which whoever listens is told.
LEMMA TextWritten ==
    ASSUME ViewInv, TextInv, NEW f \in Seq(Frames), Broadcast(f), Cuts(f),
           \A p : Bears(f, p) => p \in run.pending, excused \subseteq excused',
           \A p \in Pieces \ excused' : Doomed(f, p),
           UNCHANGED <<said, subs, live, buffer>>, Steps',
           msgs' = Append(msgs, run.text), run'.text = {}, run'.pending = {}
    PROVE  TextInv'
<1>0. GatewayOK /\ SocketOK
  BY DEF ViewInv, TypeInv
<1> SUFFICES ASSUME NEW p \in Pieces \ excused' PROVE Written(p)' /\ Streamed(p)'
  BY DEF TextInv
<1>1. Written(p) /\ Streamed(p) /\ Doomed(f, p)
  BY DEF TextInv
<1>2. Written(p)'
  BY <1>0, <1>1, WrittenIs
<1>3. p > said => ~Bears(f, p)
  BY <1>0, <1>1 DEF Written, GatewayOK
<1>4. /\ p > said /\ Nowhere(down, live, buffer, p) => Nowhere(down', live, buffer, p)
      /\ subs => Going(down', live, buffer, p)
  BY <1>0, <1>1, <1>3, BroadcastLeaves
<1>5. Streamed(p)'
  BY <1>1, <1>4 DEF Streamed
<1> QED
  BY <1>2, <1>5

LEMMA NotDoomed ==
    ASSUME NEW f, NEW p, ~Bears(f, p)
    PROVE  Doomed(f, p)
BY DEF Bears, Doomed

LEMMA StepFinishesText == ASSUME ViewInv, TextInv, StepFinishes PROVE TextInv'
<1>0. GatewayOK /\ SocketOK /\ Steps /\ run.step \in Nat
  BY RunIs DEF ViewInv, TypeInv, TextInv
<1> DEFINE a == <<Persisted("assistant")>>
           f == a \o Flush(run)
<1>1. /\ msgs' = Append(msgs, run.text) /\ Broadcast(f) /\ excused' = excused \cup run.pending
      /\ run' = [run EXCEPT !.text = {}, !.pending = {}, !.step = @ + 1]
      /\ UNCHANGED <<said, subs, live, buffer>>
  BY DEF StepFinishes, screen
<1>2. run'.text = {} /\ run'.pending = {} /\ run'.step = run.step + 1
  BY <1>0, <1>1 DEF GatewayOK
<1>3. a \in Seq(Frames) /\ Cuts(a) /\ (\A p : ~Bears(a, p)) /\ \A s : UpTo(a, s)
  BY OfAssistant
<1>4. /\ Flush(run) \in Seq(Frames) /\ UpTo(Flush(run), run.step)
      /\ \A p : Bears(Flush(run), p) => p \in run.pending
  BY <1>0, OfFlush
<1> HIDE DEF a
<1>5. f \in Seq(Frames)
  BY <1>3, <1>4, ConcatProperties
<1>6. Cuts(f) /\ UpTo(f, run.step) /\ \A p : Bears(f, p) => p \in run.pending
  <2>1. \A p : /\ Bears(f, p) => Bears(a, p) \/ Bears(Flush(run), p)
               /\ Cuts(a) => Cuts(f)
               /\ UpTo(a, run.step) /\ UpTo(Flush(run), run.step) => UpTo(f, run.step)
    BY <1>0, <1>3, <1>4, JoinedBear
  <2> QED
    BY <1>3, <1>4, <2>1
<1> HIDE DEF f
<1>7. \A p \in Pieces \ excused' : Doomed(f, p)
  BY <1>1, <1>6, NotDoomed
<1>8. Steps'
  BY <1>0, <1>1, <1>2, <1>5, <1>6, BroadcastSteps
<1> QED
  BY <1>1, <1>2, <1>5, <1>6, <1>7, <1>8, TextWritten

LEMMA DrainsQueueText == ASSUME ViewInv, TextInv, DrainsQueue PROVE TextInv'
<1>0. GatewayOK /\ SocketOK /\ Steps /\ run.step \in Nat /\ queued \in Nat
  BY RunIs DEF ViewInv, TypeInv, TextInv
<1> DEFINE e == [i \in 1 .. queued |-> {}]
           u == [i \in 1 .. queued |-> Persisted("user")]
           f == Flush(run) \o u
<1>1. /\ msgs' = msgs \o e /\ Broadcast(f) /\ excused' = excused \cup run.text
      /\ run' = [run EXCEPT !.text = {}, !.pending = {}, !.step = @ + 1]
      /\ UNCHANGED <<said, subs, live, buffer>>
  BY DEF DrainsQueue, screen
<1>2. run'.text = {} /\ run'.pending = {} /\ run'.step = run.step + 1
  BY <1>0, <1>1 DEF GatewayOK
<1>3. /\ e \in Seq(SUBSET Pieces) /\ \A i \in 1 .. Len(e) : e[i] = {}
      /\ u \in Seq(Frames) /\ \A i \in 1 .. Len(u) : u[i] = Persisted("user")
  <2>1. Persisted("user") \in Frames /\ {} \in SUBSET Pieces
    BY FramesAre
  <2> QED
    BY <1>0, <2>1
<1> HIDE DEF e, u
<1>4. (\A p : ~Bears(u, p)) /\ (\A s : UpTo(u, s)) /\ ~Cuts(u) /\ ~HasEnd(u)
  BY <1>3, OfUsers
<1>5. /\ Flush(run) \in Seq(Frames) /\ UpTo(Flush(run), run.step)
      /\ \A p : Bears(Flush(run), p) => p \in run.pending
  BY <1>0, OfFlush
<1>6. f \in Seq(Frames)
  BY <1>3, <1>5, ConcatProperties
<1>7. UpTo(f, run.step) /\ \A p : Bears(f, p) => p \in run.pending
  <2>1. \A p : /\ Bears(f, p) => Bears(Flush(run), p) \/ Bears(u, p)
               /\ UpTo(Flush(run), run.step) /\ UpTo(u, run.step) => UpTo(f, run.step)
    BY <1>0, <1>3, <1>5, JoinedBear
  <2> QED
    BY <1>4, <1>5, <2>1
<1> HIDE DEF f
<1>8. Steps'
  BY <1>0, <1>1, <1>2, <1>6, <1>7, BroadcastSteps
<1>9. ASSUME NEW p \in Pieces \ excused' PROVE Written(p)' /\ Streamed(p)'
  <2>1. Written(p) /\ Streamed(p) /\ p \notin run.text /\ p \notin run.pending /\ ~Bears(f, p)
    BY <1>0, <1>1, <1>7 DEF TextInv, GatewayOK
  <2>2. Written(p)'
    <3>1. \A i \in 1 .. Len(e) : p \notin e[i]
      BY <1>3
    <3> QED
      BY <1>0, <1>1, <1>2, <1>3, <2>1, <3>1, WrittenStays
  <2>3. /\ Nowhere(down, live, buffer, p) => Nowhere(down', live, buffer, p)
        /\ subs /\ Going(down, live, buffer, p) => Going(down', live, buffer, p)
    BY <1>0, <1>1, <1>6, <2>1, BroadcastLeaves
  <2>4. Streamed(p)'
    BY <1>1, <1>2, <2>1, <2>3 DEF Streamed
  <2> QED
    BY <2>2, <2>4
<1> QED
  BY <1>8, <1>9 DEF TextInv

\* What ends a run: its frames, and FINISHED unless it failed.
LEMMA OfEnd ==
    ASSUME NEW q \in Seq(Frames), NEW failed \in BOOLEAN, EndsWith(q, failed), Len(msgs') \in Nat, GatewayOK
    PROVE  /\ \E t \in Seq(Frames) :
                 /\ Broadcast(q \o t) /\ q \o t \in Seq(Frames)
                 /\ (\A p : ~Bears(t, p)) /\ \A s : UpTo(t, s)
           /\ run'.text = {} /\ run'.pending = {} /\ run'.step = run.step /\ run'.on = FALSE
<1> DEFINE t == IF failed THEN << >> ELSE <<Finished(Len(msgs'))>>
<1>1. Broadcast(q \o t) /\ run' = [NoRun EXCEPT !.step = run.step]
  BY DEF EndsWith
<1>2. t \in Seq(Frames) /\ \A i \in 1 .. Len(t) : t[i].k \in {"persisted", "finished"}
  <2>1. Finished(Len(msgs')) \in Frames /\ Finished(Len(msgs')).k = "finished"
    BY FramesAre DEF Finished
  <2>2. CASE failed
    <3>1. t = << >> /\ 1 .. Len(t) = {}
      BY <2>2
    <3> QED
      BY <3>1
  <2>3. CASE ~failed
    <3>1. t = <<Finished(Len(msgs'))>>
      BY <2>3
    <3>2. t \in Seq(Frames) /\ 1 .. Len(t) = {1} /\ t[1] = Finished(Len(msgs'))
      BY <2>1, <3>1
    <3> QED
      BY <2>1, <3>2
  <2> QED
    BY <2>2, <2>3
<1> HIDE DEF t
<1>3. (\A p : ~Bears(t, p)) /\ \A s : UpTo(t, s)
  BY <1>2, NoneBears
<1>4. q \o t \in Seq(Frames)
  BY <1>2, ConcatProperties
<1>5. run'.text = {} /\ run'.pending = {} /\ run'.step = run.step /\ run'.on = FALSE
  BY <1>1 DEF NoRun
<1> QED
  BY <1>1, <1>2, <1>3, <1>4, <1>5

LEMMA FinishIdleText == ASSUME ViewInv, TextInv, FinishIdle PROVE TextInv'
<1>0. /\ GatewayOK /\ SocketOK /\ Steps /\ run.step \in Nat /\ Len(msgs) \in Nat
      /\ msgs \in Seq(SUBSET Pieces)
  BY RunIs DEF ViewInv, TypeInv, TextInv, GatewayOK
<1>1. /\ run.text = {} /\ msgs' = msgs /\ EndsWith(<< >>, FALSE)
      /\ UNCHANGED <<said, subs, live, buffer, excused>>
  BY DEF FinishIdle, screen, slips
<1>2. << >> \in Seq(Frames) /\ FALSE \in BOOLEAN /\ Len(msgs') \in Nat
  BY <1>0, <1>1
<1>3. PICK t \in Seq(Frames) : /\ Broadcast(<< >> \o t) /\ (\A p : ~Bears(t, p)) /\ \A s : UpTo(t, s)
  BY <1>0, <1>1, <1>2, OfEnd
<1>4. run'.text = {} /\ run'.pending = {} /\ run'.step = run.step /\ run'.on = FALSE
  BY <1>0, <1>1, <1>2, OfEnd
<1>5. Broadcast(t)
  BY <1>3, ConcatEmptySeq
<1>6. Steps'
  BY <1>0, <1>1, <1>3, <1>4, <1>5, BroadcastSteps
<1>7. << >> \in Seq(SUBSET Pieces) /\ msgs' = msgs \o << >> /\ \A i \in 1 .. Len(<< >>) : << >>[i] = {}
  BY <1>0, <1>1, ConcatEmptySeq
<1>8. run.pending = {}
  BY <1>0, <1>1 DEF GatewayOK
<1> QED
  BY <1>1, <1>3, <1>4, <1>5, <1>6, <1>7, <1>8, TextAside

LEMMA FinishCutText == ASSUME ViewInv, TextInv, FinishCut PROVE TextInv'
<1>0. /\ GatewayOK /\ SocketOK /\ Steps /\ run.step \in Nat /\ Len(msgs) \in Nat
      /\ msgs \in Seq(SUBSET Pieces)
  BY RunIs DEF ViewInv, TypeInv, TextInv, GatewayOK
<1> DEFINE b == IF run.text = {} THEN << >> ELSE <<Persisted("assistant")>>
<1>1. PICK failed \in BOOLEAN, flushed \in BOOLEAN :
          EndsWith((IF flushed THEN Flush(run) ELSE << >>) \o b, failed)
  BY DEF FinishCut
<1>2. /\ msgs' = IF run.text = {} THEN msgs ELSE Append(msgs, run.text)
      /\ UNCHANGED <<said, subs, live, buffer, excused>>
  BY DEF FinishCut, screen, slips
<1> DEFINE a == IF flushed THEN Flush(run) ELSE << >>
<1>3. Len(msgs') \in Nat
  <2>1. Len(Append(msgs, run.text)) \in Nat
    BY <1>0, RunIs
  <2> QED
    BY <1>0, <1>2, <2>1
<1>4. a \in Seq(Frames) /\ UpTo(a, run.step) /\ \A p : Bears(a, p) => p \in run.pending
  <2>1. CASE flushed
    BY <1>0, <2>1, OfFlush
  <2>2. CASE ~flushed
    BY <2>2, OfNone
  <2> QED
    BY <2>1, <2>2
<1>5. /\ b \in Seq(Frames) /\ (\A p : ~Bears(b, p)) /\ (\A s : UpTo(b, s))
      /\ run.text # {} => Cuts(b)
  <2>1. CASE run.text # {}
    BY <2>1, OfAssistant
  <2>2. CASE run.text = {}
    BY <2>2, OfNone
  <2> QED
    BY <2>1, <2>2
<1>6. EndsWith(a \o b, failed)
  BY <1>1
<1> HIDE DEF a, b
<1>7. /\ a \o b \in Seq(Frames) /\ UpTo(a \o b, run.step)
      /\ \A p : Bears(a \o b, p) => p \in run.pending
      /\ run.text # {} => Cuts(a \o b)
  <2>1. a \o b \in Seq(Frames)
    BY <1>4, <1>5, ConcatProperties
  <2>2. \A p : /\ Bears(a \o b, p) => Bears(a, p) \/ Bears(b, p)
               /\ Cuts(b) => Cuts(a \o b)
               /\ UpTo(a, run.step) /\ UpTo(b, run.step) => UpTo(a \o b, run.step)
    BY <1>0, <1>4, <1>5, JoinedBear
  <2> QED
    BY <1>4, <1>5, <2>1, <2>2
<1>8. PICK t \in Seq(Frames) :
          /\ Broadcast((a \o b) \o t) /\ (a \o b) \o t \in Seq(Frames)
          /\ (\A p : ~Bears(t, p)) /\ \A s : UpTo(t, s)
  BY <1>0, <1>3, <1>6, <1>7, OfEnd
<1>9. run'.text = {} /\ run'.pending = {} /\ run'.step = run.step /\ run'.on = FALSE
  BY <1>0, <1>3, <1>6, <1>7, OfEnd
<1> DEFINE f == (a \o b) \o t
<1>10. /\ UpTo(f, run.step) /\ (\A p : Bears(f, p) => p \in run.pending)
       /\ run.text # {} => Cuts(f)
  <2>1. \A p : /\ Bears(f, p) => Bears(a \o b, p) \/ Bears(t, p)
               /\ Cuts(a \o b) => Cuts(f)
               /\ UpTo(a \o b, run.step) /\ UpTo(t, run.step) => UpTo(f, run.step)
    BY <1>0, <1>7, <1>8, JoinedBear
  <2> QED
    BY <1>7, <1>8, <2>1
<1>11. run.text # {} => \A p : Doomed(f, p)
  <2> SUFFICES ASSUME run.text # {}, NEW p PROVE Doomed(f, p)
    OBVIOUS
  <2>1. Doomed(b, p) /\ Doomed(t, p)
    BY <1>5, <1>8, NotDoomed
  <2>2. Doomed(a \o b, p)
    BY <1>4, <1>5, <2>1, JoinedDoom
  <2> QED
    BY <1>7, <1>8, <2>1, <2>2, JoinedDoom
<1>12. Broadcast(f) /\ f \in Seq(Frames)
  BY <1>8
<1> HIDE DEF f
<1>13. Steps'
  BY <1>0, <1>2, <1>9, <1>10, <1>12, BroadcastSteps
<1>14. CASE run.text # {}
  <2>1. msgs' = Append(msgs, run.text) /\ Cuts(f) /\ \A p : Doomed(f, p)
    BY <1>2, <1>10, <1>11, <1>14
  <2> QED
    BY <1>2, <1>9, <1>10, <1>12, <1>13, <2>1, TextWritten
<1>15. CASE run.text = {}
  <2>1. run.pending = {} /\ \A p : ~Bears(f, p)
    BY <1>0, <1>10, <1>15 DEF GatewayOK
  <2>2. << >> \in Seq(SUBSET Pieces) /\ msgs' = msgs \o << >> /\ \A i \in 1 .. Len(<< >>) : << >>[i] = {}
    BY <1>0, <1>2, <1>15, ConcatEmptySeq
  <2> QED
    BY <1>2, <1>9, <1>12, <1>13, <1>15, <2>1, <2>2, TextAside
<1> QED
  BY <1>14, <1>15

\* The SYNC has the run's text, and nothing before it counts.
LEMMA ServeSubscribeText == ASSUME ViewInv, TextInv, ServeSubscribe PROVE TextInv'
<1>0. /\ GatewayOK /\ SocketOK /\ Steps /\ run.step \in Nat /\ Len(msgs) \in Nat
      /\ run.text \in SUBSET Pieces /\ down \in Seq(Frames)
  BY RunIs DEF ViewInv, TypeInv, TextInv, SocketOK
<1> DEFINE y == [k |-> "sync", text |-> run.text, last |-> Len(msgs)]
           f == <<y>>
<1>1. /\ down' = Append(down, y) /\ excused' = excused \cup run.pending
      /\ UNCHANGED <<msgs, run, said, live, buffer>>
  BY DEF ServeSubscribe, screen
<1>2. y \in Frames /\ y.k = "sync" /\ y.text = run.text
  BY <1>0, FramesAre
<1> HIDE DEF y
<1>3. f \in Seq(Frames) /\ Len(f) = 1 /\ f[1] = y
  BY <1>2
<1>4. down' = down \o f
  BY <1>0, <1>1, <1>2, AppendIsConcat
<1> HIDE DEF f
<1>5. /\ Cuts(f) /\ ~HasEnd(f) /\ UpTo(f, run.step)
      /\ \A p : Bears(f, p) => p \in run.text
  <2>1. 1 \in 1 .. Len(f) /\ \A i \in 1 .. Len(f) : f[i] = y
    BY <1>3
  <2>2. Kills(y) /\ ~Ends(y) /\ y.k # "delta" /\ \A p : Carries(y, p) => p \in run.text
    BY <1>2 DEF Kills, Ends, Carries
  <2> QED
    BY <2>1, <2>2 DEF Cuts, HasEnd, UpTo, Bears
<1>6. Steps'
  <2>1. UpTo(down', run.step) /\ (HasEnd(down') => HasEnd(down))
    BY <1>0, <1>3, <1>4, <1>5, JoinedBear DEF Steps
  <2>2. InPast(down, run.step) => InPast(down', run.step)
    BY <1>0, <1>3, <1>4, <1>5, JoinedStay
  <2> QED
    BY <1>0, <1>1, <2>1, <2>2 DEF Steps
<1>7. ASSUME NEW p \in Pieces \ excused' PROVE Written(p)' /\ Streamed(p)'
  <2>1. Written(p) /\ Streamed(p) /\ p \notin run.pending
    BY <1>1 DEF TextInv
  <2>2. Written(p)'
    BY <1>1, <2>1 DEF Written
  <2>3. p > said /\ Nowhere(down, live, buffer, p) => Nowhere(down', live, buffer, p)
    BY <1>0, <1>3, <1>4, <1>5, <2>1, JoinedBear DEF Written, Nowhere
  <2>4. p \in run.text => Coming(down', live, buffer, run.step, p)
    <3>1. p \in run.text => Synced(down', p)
      BY <1>0, <1>2, <1>4, JoinedCome DEF f
    <3> QED
      BY <3>1 DEF Coming
  <2>5. p \notin run.text => Going(down', live, buffer, p)
    <3>1. p \notin run.text => Doomed(down', p)
      BY <1>0, <1>3, <1>4, <1>5, NotDoomed, JoinedDoom
    <3>2. Cuts(down')
      BY <1>0, <1>3, <1>4, <1>5, JoinedBear
    <3> QED
      BY <3>1, <3>2 DEF Going
  <2>6. Streamed(p)'
    BY <1>1, <2>1, <2>3, <2>4, <2>5 DEF Streamed
  <2> QED
    BY <2>2, <2>6
<1> QED
  BY <1>6, <1>7 DEF TextInv

\* Nobody listens any more: what is not broadcast is nowhere, and that is all.
LEMMA ServeUnsubscribeText == ASSUME TextInv, ServeUnsubscribe PROVE TextInv'
<1>1. subs' = FALSE /\ UNCHANGED <<msgs, run, said, down, live, buffer, excused>>
  BY DEF ServeUnsubscribe, screen, slips
<1>2. Steps'
  BY <1>1 DEF TextInv, Steps
<1>3. ASSUME NEW p \in Pieces \ excused PROVE Written(p)' /\ Streamed(p)'
  <2>1. Written(p) /\ Streamed(p)
    BY DEF TextInv
  <2>2. Written(p)'
    BY <1>1, <2>1 DEF Written
  <2>3. Streamed(p)'
    BY <1>1, <2>1 DEF Streamed
  <2> QED
    BY <2>2, <2>3
<1> QED
  BY <1>1, <1>2, <1>3 DEF TextInv

LEMMA LoseSocketText == ASSUME ViewInv, TextInv, LoseSocket PROVE TextInv'
<1>1. /\ subs' = FALSE /\ down' = << >> /\ run.step \in Nat
      /\ UNCHANGED <<msgs, run, said, live, buffer, excused>>
  BY RunIs DEF LoseSocket, screen, slips, ViewInv, TypeInv
<1>2. ~HasEnd(down') /\ UpTo(down', run.step) /\ \A p : ~Bears(down', p)
  BY <1>1, OfNone
<1>3. Steps'
  BY <1>1, <1>2 DEF TextInv, Steps
<1>4. ASSUME NEW p \in Pieces \ excused PROVE Written(p)' /\ Streamed(p)'
  <2>1. Written(p) /\ Streamed(p)
    BY DEF TextInv
  <2>2. Written(p)'
    BY <1>1, <2>1 DEF Written
  <2>3. Nowhere(down, live, buffer, p) => Nowhere(down', live, buffer, p)
    BY <1>2 DEF Nowhere
  <2>4. Streamed(p)'
    BY <1>1, <2>1, <2>3 DEF Streamed
  <2> QED
    BY <2>2, <2>4
<1> QED
  BY <1>1, <1>3, <1>4 DEF TextInv

\* The screen is redrawn, and shows no more.
LEMMA SoftText ==
    ASSUME TextInv, UNCHANGED <<msgs, run, said, subs, down, excused>>,
           Segs(live', buffer') \subseteq Segs(live, buffer),
           \A id \in DOMAIN live' : live'[id].stale => id \in DOMAIN live /\ live[id].stale,
           \A p : Soft(live', buffer', p)
    PROVE  TextInv'
<1>1. Steps'
  BY DEF TextInv, Steps
<1>2. ASSUME NEW p \in Pieces \ excused PROVE Written(p)' /\ Streamed(p)'
  <2>1. Written(p) /\ Streamed(p)
    BY DEF TextInv
  <2>2. Written(p)'
    BY <2>1 DEF Written
  <2>3. /\ Nowhere(down, live, buffer, p) => Nowhere(down, live', buffer', p)
        /\ Going(down, live, buffer, p) => Going(down, live', buffer', p)
        /\ Coming(down, live, buffer, run.step, p) => Coming(down, live', buffer', run.step, p)
    BY DEF Soft, Nowhere, Going, Coming
  <2>4. Streamed(p)'
    BY <2>1, <2>3 DEF Streamed
  <2> QED
    BY <2>2, <2>4
<1> QED
  BY <1>1, <1>2 DEF TextInv

LEMMA DeltaTimerFiresText == ASSUME ViewInv, TextInv, DeltaTimerFires PROVE TextInv'
<1>0. ScreenOK /\ DOMAIN NoText = {}
  BY DEF ViewInv, TypeInv, NoText
<1>1. /\ live' = Flushed /\ buffer' = NoText
      /\ UNCHANGED <<msgs, run, said, subs, down, excused>>
  BY DEF DeltaTimerFires, gateway, socket, slips
<1>2. /\ DOMAIN Flushed = DOMAIN live \cup DOMAIN buffer
      /\ \A id \in DOMAIN Flushed : Flushed[id].stale => id \in DOMAIN live /\ live[id].stale
      /\ \A p : Soft(Flushed, NoText, p)
  BY <1>0, FlushedHolds
<1>3. Segs(live', buffer') \subseteq Segs(live, buffer)
  BY <1>0, <1>1, <1>2 DEF Segs
<1>4. \A id \in DOMAIN live' : live'[id].stale => id \in DOMAIN live /\ live[id].stale
  BY <1>1, <1>2
<1>5. \A p : Soft(live', buffer', p)
  BY <1>1, <1>2
<1> QED
  BY <1>1, <1>3, <1>4, <1>5, SoftText

LEMMA FetchReturnsText == ASSUME ViewInv, TextInv, FetchReturns PROVE TextInv'
<1>0. ScreenOK
  BY DEF ViewInv, TypeInv
<1>1. live' = Fresh(live) /\ UNCHANGED <<msgs, run, said, subs, down, buffer, excused>>
  BY DEF FetchReturns, gateway, socket
<1>2. /\ DOMAIN Fresh(live) \subseteq DOMAIN live
      /\ \A id \in DOMAIN Fresh(live) : ~Fresh(live)[id].stale
      /\ \A p : Soft(Fresh(live), buffer, p)
  BY <1>0, FreshHolds
<1>3. Segs(live', buffer') \subseteq Segs(live, buffer)
  BY <1>1, <1>2 DEF Segs
<1>4. \A id \in DOMAIN live' : live'[id].stale => id \in DOMAIN live /\ live[id].stale
  BY <1>1, <1>2
<1>5. \A p : Soft(live', buffer', p)
  BY <1>1, <1>2
<1> QED
  BY <1>1, <1>3, <1>4, <1>5, SoftText

LEMMA ReadText == ASSUME ViewInv, TextInv, Read PROVE TextInv'
<1> DEFINE h == Head(down)
           t == Tail(down)
<1>0. /\ GatewayOK /\ ScreenOK /\ SocketOK /\ Steps /\ down \in Seq(Frames) /\ down # << >>
      /\ run.step \in Nat
  BY RunIs DEF ViewInv, TypeInv, TextInv, SocketOK, Read
<1>1. down' = t /\ UNCHANGED <<msgs, run, said, subs, excused>>
  BY DEF Read, gateway
<1>2. ASSUME NEW p
      PROVE  /\ Carries(h, p) \/ Bears(t, p) => Bears(down, p)
             /\ Kills(h) \/ Cuts(t) => Cuts(down)
             /\ Cuts(down) => Kills(h) \/ Cuts(t)
             /\ Ends(h) \/ HasEnd(t) => HasEnd(down)
             /\ UpTo(down, run.step) => UpTo(t, run.step) /\ (h.k = "delta" => h.id \in Nat /\ h.id <= run.step)
             /\ InPast(down, run.step) => InPast(t, run.step) /\ (h.k = "delta" /\ HasEnd(t) => h.id # run.step)
             /\ Doomed(down, p) => Doomed(t, p) /\ (Carries(h, p) => Cuts(t))
             /\ Synced(down, p) => Synced(t, p) \/ (h.k = "sync" /\ p \in h.text /\ ~Bears(t, p) /\ ~Cuts(t))
             /\ Sent(down, p, run.step) => \/ Sent(t, p, run.step) /\ ~Carries(h, p)
                                           \/ /\ h.k = "delta" /\ h.id = run.step /\ p \in h.text
                                              /\ ~Bears(t, p) /\ ~Cuts(t)
  BY <1>0, HeadIsRead
<1>3. ASSUME NEW p PROVE Change(h, p)
  BY <1>0, ScreenIsRead
<1> HIDE DEF h, t
<1>4. Steps'
  <2>1. /\ UpTo(t, run.step) /\ (h.k = "delta" => h.id \in Nat /\ h.id <= run.step)
        /\ Ends(h) \/ HasEnd(t) => HasEnd(down)
        /\ InPast(down, run.step) => InPast(t, run.step) /\ (h.k = "delta" /\ HasEnd(t) => h.id # run.step)
    BY <1>0, <1>2 DEF Steps
  <2>2. /\ \A id \in Segs(live', buffer') :
              id \in Segs(live, buffer) \/ id = 0 \/ (h.k = "delta" /\ id = h.id)
        /\ \A id \in DOMAIN live' :
              live'[id].stale => \/ id \in DOMAIN live /\ live[id].stale
                                 \/ Ends(h) /\ id \in Segs(live, buffer)
    BY <1>3 DEF Change, Segs
  <2>3. ASSUME NEW id \in Segs(live', buffer') PROVE id \in Nat /\ id <= run.step
    <3>1. CASE id \in Segs(live, buffer)
      BY <1>0, <3>1 DEF Steps
    <3>2. CASE id = 0
      BY <1>0, <3>2
    <3>3. CASE h.k = "delta" /\ id = h.id
      BY <2>1, <3>3
    <3> QED
      BY <2>2, <3>1, <3>2, <3>3
  <2>4. ASSUME run.on
        PROVE  /\ run.step # 0
               /\ run.step \in DOMAIN live' => ~live'[run.step].stale
               /\ HasEnd(t) => run.step \notin Segs(live', buffer') /\ InPast(t, run.step)
    <3>1. /\ run.step # 0 /\ (run.step \in DOMAIN live => ~live[run.step].stale)
          /\ HasEnd(down) => run.step \notin Segs(live, buffer) /\ InPast(down, run.step)
      BY <1>0, <2>4 DEF Steps
    <3>2. run.step \in DOMAIN live' => ~live'[run.step].stale
      BY <2>1, <2>2, <3>1
    <3>3. HasEnd(t) => run.step \notin Segs(live', buffer') /\ InPast(t, run.step)
      BY <2>1, <2>2, <3>1
    <3> QED
      BY <3>1, <3>2, <3>3
  <2> QED
    BY <1>1, <2>1, <2>3, <2>4 DEF Steps
<1>5. ASSUME NEW p \in Pieces \ excused PROVE Written(p)' /\ Streamed(p)'
  <2>1. Written(p) /\ Streamed(p)
    BY DEF TextInv
  <2>2. Written(p)'
    BY <1>1, <2>1 DEF Written
  <2>3. Nowhere(down, live, buffer, p) => Nowhere(t, live', buffer', p)
    BY <1>2, <1>3 DEF Nowhere, Change
  <2>4. Going(down, live, buffer, p) => Going(t, live', buffer', p)
    BY <1>2, <1>3 DEF Going, Change
  <2>5. ASSUME p \in run.text, Coming(down, live, buffer, run.step, p)
        PROVE  Coming(t, live', buffer', run.step, p)
    <3>1. run.step \in DOMAIN live => ~live[run.step].stale
      BY <1>0, <2>5 DEF Steps, GatewayOK
    <3>2. CASE Synced(down, p)
      BY <1>2, <1>3, <3>2 DEF Coming, Change
    <3>3. CASE Sent(down, p, run.step) /\ ~Held(live, buffer, p)
      <4>1. CASE Sent(t, p, run.step) /\ ~Carries(h, p)
        BY <1>3, <3>3, <4>1 DEF Coming, Change
      <4>2. CASE h.k = "delta" /\ h.id = run.step /\ p \in h.text /\ ~Bears(t, p) /\ ~Cuts(t)
        BY <1>3, <3>1, <3>3, <4>2 DEF Coming, Change
      <4> QED
        BY <1>2, <3>3, <4>1, <4>2
    <3>4. ASSUME ~Bears(down, p), ~Cuts(down), NEW id, Stays(live, buffer, id, p)
          PROVE  Coming(t, live', buffer', run.step, p)
      <4>1. ~Carries(h, p) /\ ~Bears(t, p) /\ ~Kills(h) /\ ~Cuts(t)
        BY <1>2, <3>4
      <4>2. Stays(live', buffer', id, p)
        BY <1>3, <3>4, <4>1 DEF Change
      <4> QED
        BY <4>1, <4>2 DEF Coming
    <3> QED
      BY <2>5, <3>2, <3>3, <3>4 DEF Coming
  <2>6. Streamed(p)'
    BY <1>1, <2>1, <2>3, <2>4, <2>5 DEF Streamed
  <2> QED
    BY <2>2, <2>6
<1> QED
  BY <1>1, <1>4, <1>5 DEF TextInv

LEMMA InitText == Init => TextInv
<1> SUFFICES ASSUME Init PROVE TextInv
  OBVIOUS
<1>1. /\ msgs = << >> /\ run = NoRun /\ said = 0 /\ subs = FALSE
      /\ down = << >> /\ live = NoText /\ buffer = NoText
  BY DEF Init
<1>2. ~run.on /\ run.step = 0 /\ run.text = {} /\ run.pending = {} /\ DOMAIN msgs = {}
  BY <1>1 DEF NoRun
<1>3. DOMAIN live = {} /\ DOMAIN buffer = {}
  BY <1>1 DEF NoText
<1>4. UpTo(down, 0) /\ \A p : ~Bears(down, p)
  BY <1>1, OfNone
<1>5. Steps
  BY <1>2, <1>3, <1>4 DEF Steps, Segs
<1>6. ASSUME NEW p \in Pieces PROVE Written(p) /\ Streamed(p)
  <2>1. p > said
    BY <1>1, <1>6, ViewAssumption DEF Pieces
  <2>2. Written(p)
    BY <1>2, <2>1 DEF Written
  <2>3. Nowhere(down, live, buffer, p)
    BY <1>3, <1>4 DEF Nowhere, Held
  <2> QED
    BY <2>1, <2>2, <2>3 DEF Streamed
<1> QED
  BY <1>5, <1>6 DEF TextInv

LEMMA NextText == ViewInv /\ TextInv /\ [Next]_vars => TextInv'
<1> SUFFICES ASSUME ViewInv, TextInv, [Next]_vars PROVE TextInv'
  OBVIOUS
<1>1. CASE OtherSubmits \/ AnswerPost
  <2>1. Submit /\ UNCHANGED <<said, subs, live, buffer, excused>>
    BY <1>1 DEF OtherSubmits, AnswerPost, screen, slips
  <2> QED
    BY <2>1, SubmitText
<1>2. CASE ModelSpeaks \/ FlushDeltas \/ StepFinishes \/ DrainsQueue \/ FinishIdle \/ FinishCut
  BY <1>2, ModelSpeaksText, FlushDeltasText, StepFinishesText, DrainsQueueText, FinishIdleText, FinishCutText
<1>3. CASE Hub \/ LoseSocket
  BY <1>3, ServeSubscribeText, ServeUnsubscribeText, LoseSocketText DEF Hub
<1>4. CASE Read \/ DeltaTimerFires \/ FetchReturns
  BY <1>4, ReadText, DeltaTimerFiresText, FetchReturnsText
<1>5. CASE \/ HistoryTimerFires \/ Reconnect \/ Asked \/ AnswerFetch
           \/ PostReturns \/ PostOver \/ FetchFails \/ UNCHANGED vars
  <2>1. UNCHANGED <<msgs, run, said, subs, down, live, buffer, excused>>
    <3>1. CASE HistoryTimerFires \/ Reconnect \/ AnswerFetch
      BY <3>1 DEF HistoryTimerFires, Reconnect, AnswerFetch, gateway, socket, screen, slips
    <3>2. CASE Asked
      BY <3>2 DEF Asked, Activate, Deactivate, SendMessage, gateway, socket, screen, slips
    <3>3. CASE PostReturns \/ PostOver \/ FetchFails
      BY <3>3 DEF PostReturns, PostOver, FetchFails, gateway, socket, screen, slips
    <3>4. CASE UNCHANGED vars
      BY <3>4 DEF vars, gateway, socket, screen, slips
    <3> QED
      BY <1>5, <3>1, <3>2, <3>3, <3>4
  <2> QED
    BY <2>1, TextStays
<1> QED
  BY <1>1, <1>2, <1>3, <1>4, <1>5 DEF Next, Told

\* TextAgrees: at rest each piece of text the model said is on the screen once, in a
\* message or in the text under way; no SYNC, delta, flush, history or mark of staleness
\* loses or doubles it, in whatever order they come (handleSync, handleMessageDelta,
\* flushDeltaBuffer, handleMessagePersisted, handleTurnFinished, loadHistory; flushDelta,
\* onStepFinish, finishAborted).
THEOREM TextIsShownOnce == Spec => []TextAgrees
<1>1. ViewInv /\ TextInv => TextAgrees
  <2> SUFFICES ASSUME ViewInv, TextInv, AtRest, ~unfetched, skipped = {}, NEW p \in 1 .. said \ excused
               PROVE  Cardinality(ShownIn(p)) + Cardinality(StreamIn(p)) = 1
    BY DEF TextAgrees
  <2>0. /\ GatewayOK /\ ScreenOK /\ StaleOK /\ Subscribed /\ said \in 0 .. MaxPieces /\ MaxPieces \in Nat
        /\ active /\ ready /\ up = << >> /\ down = << >> /\ run.pending = {}
        /\ buffer = NoText /\ ~timer /\ fetch.at = "none"
    BY ViewAssumption DEF ViewInv, TypeInv, GatewayOK, AtRest, NoFetch
  <2>1. p \in Pieces \ excused /\ ~(p > said)
    BY <2>0 DEF Pieces
  <2>2. Written(p) /\ Streamed(p)
    BY <2>1 DEF TextInv
  <2>3. subs /\ DOMAIN buffer = {} /\ \A id \in DOMAIN live : ~live[id].stale
    BY <2>0 DEF Subscribed, StaleOK, NoText
  <2>4. shown = DOMAIN msgs
    BY HistoryAtRest DEF HistoryAgrees
  <2>5. ~Cuts(down) /\ ~Bears(down, p) /\ ~Synced(down, p) /\ ~Sent(down, p, run.step)
    BY <2>0, OfNone
  <2>6. Cardinality({}) = 0 /\ \A x : Cardinality({x}) = 1
    <3>1. Cardinality({}) = 0
      BY FS_EmptySet
    <3>2. \A x : Cardinality({x}) = 1
      BY FS_Singleton
    <3> QED
      BY <3>1, <3>2
  <2>7. CASE p \in run.text
    <3>1. PICK id : Stays(live, buffer, id, p)
      BY <2>0, <2>1, <2>2, <2>3, <2>5, <2>7 DEF Streamed, Coming
    <3>2. StreamIn(p) = {id}
      BY <2>3, <3>1 DEF Stays, Holds, StreamIn
    <3>3. ShownIn(p) = {}
      BY <2>2, <2>4, <2>7 DEF Written, ShownIn
    <3>4. Cardinality(StreamIn(p)) = 1 /\ Cardinality(ShownIn(p)) = 0
      BY <2>6, <3>2, <3>3
    <3> QED
      BY <3>4
  <2>8. CASE p \notin run.text
    <3>1. ~Lingers(live, buffer, p)
      BY <2>0, <2>1, <2>2, <2>3, <2>5, <2>8 DEF Streamed, Going
    <3>2. StreamIn(p) = {}
      BY <2>3, <3>1 DEF Lingers, StreamIn
    <3>3. PICK m \in DOMAIN msgs : \A i \in DOMAIN msgs : p \in msgs[i] <=> i = m
      BY <2>1, <2>2, <2>8 DEF Written
    <3>4. ShownIn(p) = {m}
      BY <2>4, <3>3 DEF ShownIn
    <3>5. Cardinality(StreamIn(p)) = 0 /\ Cardinality(ShownIn(p)) = 1
      BY <2>6, <3>2, <3>4
    <3> QED
      BY <3>5
  <2> QED
    BY <2>7, <2>8
<1>2. Spec => []TextInv
  <2>1. Init => TextInv
    BY InitText
  <2>2. ViewInv /\ TextInv /\ [Next]_vars => TextInv'
    BY NextText
  <2> QED
    BY <2>1, <2>2, ViewInvariant, PTL DEF Spec
<1> QED
  BY <1>1, <1>2, ViewInvariant, PTL

=============================================================================

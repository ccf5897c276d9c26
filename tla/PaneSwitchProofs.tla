--------------------------- MODULE PaneSwitchProofs ---------------------------
(***************************************************************************)
(* Theorems about PaneSwitch, for every set of browsers and of panes, for  *)
(* every capacity of the gates, and whatever is lost.                      *)
(***************************************************************************)
EXTENDS PaneSwitch, SwitchBarrierProofs

-----------------------------------------------------------------------------
(* What queues look like after the steps taken on them.                    *)
Added(s, r, m) ==
    /\ Len(s) \in Nat /\ Len(r) = Len(s) + 1 /\ r[Len(s) + 1] = m
    /\ \A i \in 1 .. Len(s) : r[i] = s[i]
Popped(s, r) ==
    /\ Len(s) \in Nat \ {0} /\ Len(r) = Len(s) - 1
    /\ \A i \in 1 .. Len(r) : r[i] = s[i + 1]
Fronted(s, r, m) ==
    /\ Len(s) \in Nat /\ Len(r) = Len(s) + 1 /\ r[1] = m
    /\ \A i \in 1 .. Len(s) : r[i + 1] = s[i]
\* b but for the first d of its items.
Without(b, r, d) ==
    /\ Len(b) \in Nat /\ d \in 0 .. Len(b) /\ Len(r) = Len(b) - d
    /\ \A i \in 1 .. Len(r) : r[i] = b[i + d]
Joined(s, t, r) ==
    /\ Len(s) \in Nat /\ Len(t) \in Nat /\ Len(r) = Len(s) + Len(t)
    /\ \A i \in 1 .. Len(s) : r[i] = s[i]
    /\ \A i \in 1 .. Len(t) : r[Len(s) + i] = t[i]

LEMMA AppendAdds ==
    ASSUME NEW S, NEW s \in Seq(S), NEW m \in S
    PROVE  Append(s, m) \in Seq(S) /\ Added(s, Append(s, m), m)
BY AppendProperties, LenProperties DEF Added

LEMMA TailPops ==
    ASSUME NEW S, NEW s \in Seq(S), s # << >>
    PROVE  /\ Tail(s) \in Seq(S) /\ Popped(s, Tail(s))
           /\ Head(s) = s[1] /\ 1 \in 1 .. Len(s) /\ s[1] \in S
<1>1. Len(s) \in Nat \ {0}
  BY EmptySeq
<1>2. s[1] \in S
  BY <1>1, ElementOfSeq
<1>3. Tail(s) \in Seq(S) /\ Len(Tail(s)) = Len(s) - 1 /\ \A i \in 1 .. Len(Tail(s)) : Tail(s)[i] = s[i + 1]
  BY HeadTailProperties
<1>4. Head(s) = s[1]
  BY <1>1
<1> QED
  BY <1>1, <1>2, <1>3, <1>4 DEF Popped

LEMMA ConcatJoins ==
    ASSUME NEW S, NEW s \in Seq(S), NEW t \in Seq(S)
    PROVE  s \o t \in Seq(S) /\ Joined(s, t, s \o t)
<1>1. Len(s) \in Nat /\ Len(t) \in Nat
  BY LenProperties
<1>2. /\ s \o t \in Seq(S) /\ Len(s \o t) = Len(s) + Len(t)
      /\ \A i \in 1 .. Len(s) + Len(t) : (s \o t)[i] = IF i <= Len(s) THEN s[i] ELSE t[i - Len(s)]
  BY ConcatProperties, Zenon
<1> DEFINE r == s \o t
<1> HIDE DEF r
<1>3. \A i \in 1 .. Len(s) : r[i] = s[i]
  BY <1>1, <1>2 DEF r
<1>4. \A i \in 1 .. Len(t) : r[Len(s) + i] = t[i]
  BY <1>1, <1>2 DEF r
<1> QED
  BY <1>1, <1>2, <1>3, <1>4 DEF r, Joined

LEMMA PushFronts ==
    ASSUME NEW S, NEW s \in Seq(S), NEW m \in S
    PROVE  <<m>> \o s \in Seq(S) /\ Fronted(s, <<m>> \o s, m)
<1>1. <<m>> \in Seq(S) /\ Len(<<m>>) = 1 /\ <<m>>[1] = m
  OBVIOUS
<1>2. <<m>> \o s \in Seq(S) /\ Joined(<<m>>, s, <<m>> \o s)
  BY <1>1, ConcatJoins
<1> QED
  BY <1>1, <1>2 DEF Joined, Fronted

\* The gates of the browser keep the end of what they hold.
LEMMA LatestKeepsEnd ==
    ASSUME NEW S, NEW b \in Seq(S)
    PROVE  /\ FE!Latest(b) \in Seq(S)
           /\ \E d \in Nat : Without(b, FE!Latest(b), d) /\ (d # 0 => Len(FE!Latest(b)) = MaxBuffer)
<1>1. Len(b) \in Nat /\ MaxBuffer \in Nat
  BY LenProperties, BoundsAssumption
<1>2. CASE Len(b) > MaxBuffer
  <2> DEFINE m == Len(b) - MaxBuffer + 1
             r == SubSeq(b, m, Len(b))
             d == Len(b) - MaxBuffer
  <2>1. m \in Int /\ Len(b) \in Int /\ \A i \in m .. Len(b) : b[i] \in S
    BY <1>1, <1>2, ElementOfSeq
  <2> HIDE DEF m
  <2>2. /\ r \in Seq(S) /\ Len(r) = (IF m <= Len(b) THEN Len(b) - m + 1 ELSE 0)
        /\ \A i \in 1 .. Len(b) - m + 1 : r[i] = b[m + i - 1]
    BY <2>1, SubSeqProperties, <1>1
  <2> HIDE DEF r
  <2>3. d \in Nat /\ d <= Len(b) /\ Len(b) - m + 1 = MaxBuffer /\ Len(r) = MaxBuffer
    BY <1>1, <1>2, <2>2 DEF m
  <2>4. \A i \in 1 .. MaxBuffer : m + i - 1 = i + d
    BY <1>1 DEF m
  <2>5. Without(b, r, d)
    BY <1>1, <2>2, <2>3, <2>4 DEF Without
  <2> QED
    BY <1>2, <2>2, <2>3, <2>5 DEF FE!Latest, r, m
<1>3. CASE ~(Len(b) > MaxBuffer)
  <2>1. Without(b, b, 0)
    BY <1>1 DEF Without
  <2> QED
    BY <1>3, <2>1 DEF FE!Latest
<1> QED
  BY <1>2, <1>3
-----------------------------------------------------------------------------
(* The browser's halves keep their types, and its gate its timer.          *)

\* A history gate that is closed holds nothing; a transaction is of a pane.
GatesOK ==
    /\ \A c \in Clients, p \in Panes : historyGates[c][p].tok = 0 => historyGates[c][p].buf = << >>
    /\ \A c \in Clients : tx[c].tok # 0 => tx[c].pane \in Panes
BrowserInv == FE!TypeOK /\ FE!MachineOK /\ GatesOK

MachineType ==
    /\ tx \in [Clients -> [tok : Nat, pane : Panes \cup {NoPane},
                           state : {"STABLE", "SELECTING", "ACKED", "HISTORY_APPLIED"}]]
    /\ timer \in [Clients -> {"none", "ack", "live"}]
    /\ held \in [Clients -> [on : BOOLEAN, buf : Seq(FE!Item)]]
    /\ FE!MachineOK
    /\ \A c \in Clients : tx[c].tok # 0 => tx[c].pane \in Panes
SinkType ==
    /\ historyGates \in [Clients -> [Panes -> [tok : Nat, buf : Seq(FE!Item)]]]
    /\ screen \in [Clients -> [Panes -> Seq(FE!Item)]]
    /\ \A c \in Clients, p \in Panes : historyGates[c][p].tok = 0 => historyGates[c][p].buf = << >>

LEMMA BrowserParts == BrowserInv <=> MachineType /\ SinkType
BY DEF BrowserInv, FE!TypeOK, GatesOK, MachineType, SinkType

LEMMA ItemTypes ==
    /\ \A o \in Chunk : FE!Live(o) \in FE!Item
    /\ \A p \in Panes, n \in Nat : FE!Past(p, n) \in FE!Item
BY DEF FE!Live, FE!Past, FE!Item, Chunk

LEMMA BrowserTypes ==
    ASSUME BrowserInv, NEW c \in Clients
    PROVE  /\ tx[c] \in [tok : Nat, pane : Panes \cup {NoPane},
                         state : {"STABLE", "SELECTING", "ACKED", "HISTORY_APPLIED"}]
           /\ tx[c].tok \in Nat /\ tx[c].pane \in Panes \cup {NoPane}
           /\ tx[c].state \in {"STABLE", "SELECTING", "ACKED", "HISTORY_APPLIED"}
           /\ held[c].buf \in Seq(FE!Item) /\ held[c].on \in BOOLEAN
           /\ tx[c].tok # 0 => tx[c].pane \in Panes
           /\ held[c].on <=> tx[c].tok # 0
           /\ tx[c].tok = 0 => held[c].buf = << >> /\ tx[c].state = "STABLE" /\ timer[c] = "none"
           /\ \A p \in Panes : /\ historyGates[c][p].tok \in Nat /\ historyGates[c][p].buf \in Seq(FE!Item)
                               /\ historyGates[c][p].tok = 0 => historyGates[c][p].buf = << >>
                               /\ screen[c][p] \in Seq(FE!Item)
<1>1. tx[c] \in [tok : Nat, pane : Panes \cup {NoPane}, state : {"STABLE", "SELECTING", "ACKED", "HISTORY_APPLIED"}]
      /\ held[c] \in [on : BOOLEAN, buf : Seq(FE!Item)]
  BY DEF BrowserInv, FE!TypeOK
<1>2. \A p \in Panes : historyGates[c][p] \in [tok : Nat, buf : Seq(FE!Item)] /\ screen[c][p] \in Seq(FE!Item)
  BY DEF BrowserInv, FE!TypeOK
<1>3. /\ tx[c].tok # 0 => tx[c].pane \in Panes
      /\ \A p \in Panes : historyGates[c][p].tok = 0 => historyGates[c][p].buf = << >>
  BY DEF BrowserInv, GatesOK
<1>4. /\ held[c].on <=> tx[c].tok # 0
      /\ tx[c].tok = 0 => held[c].buf = << >> /\ tx[c].state = "STABLE" /\ timer[c] = "none"
  BY DEF BrowserInv, FE!MachineOK
<1> QED
  BY <1>1, <1>2, <1>3, <1>4

LEMMA InitBrowser == FE!Init => BrowserInv
BY EmptySeq DEF FE!Init, BrowserInv, FE!TypeOK, FE!MachineOK, GatesOK, FE!NoTransaction, FE!NoGate, FE!Flowing

LEMMA EndType ==
    ASSUME MachineType, NEW c \in Clients, FE!EndTransaction(c)
    PROVE  MachineType'
BY EmptySeq DEF MachineType, FE!EndTransaction, FE!MachineOK, FE!NoTransaction, FE!Flowing

LEMMA StartType2 ==
    ASSUME MachineType, NEW c \in Clients, NEW t \in Nat \ {0}, NEW p \in Panes, FE!SelectStart(c, t, p)
    PROVE  MachineType'
BY EmptySeq DEF MachineType, FE!SelectStart, FE!MachineOK

\* A transaction moves on to its next stage, under the other timer.
LEMMA AdvanceType ==
    ASSUME MachineType, NEW c \in Clients, tx[c].tok # 0, NEW s \in {"ACKED", "HISTORY_APPLIED"},
           tx' = [tx EXCEPT ![c].state = s], timer' = [timer EXCEPT ![c] = "live"], held' = held
    PROVE  MachineType'
<1> DEFINE R == [tok : Nat, pane : Panes \cup {NoPane}, state : {"STABLE", "SELECTING", "ACKED", "HISTORY_APPLIED"}]
           x == [tx[c] EXCEPT !.state = s]
<1>1. tx \in [Clients -> R]
  BY DEF MachineType
<1>2. tx[c] \in R
  BY <1>1
<1>3. x \in R /\ x.tok = tx[c].tok /\ x.pane = tx[c].pane /\ x.state = s
  BY <1>2
<1>4. tx' = [tx EXCEPT ![c] = x]
  BY <1>1
<1> HIDE DEF x, R
<1>5. tx' \in [Clients -> R] /\ tx'[c] = x /\ \A d \in Clients : d # c => tx'[d] = tx[d]
  BY <1>1, <1>3, <1>4
<1>6. FE!MachineOK'
  <2> SUFFICES ASSUME NEW d \in Clients
               PROVE  /\ held'[d].on <=> tx'[d].tok # 0
                      /\ tx'[d].tok = 0 => timer'[d] = "none" /\ held'[d].buf = << >> /\ tx'[d].state = "STABLE"
                      /\ tx'[d].tok # 0 => timer'[d] = IF tx'[d].state = "SELECTING" THEN "ack" ELSE "live"
    BY DEF FE!MachineOK
  <2>1. FE!MachineOK /\ timer \in [Clients -> {"none", "ack", "live"}]
    BY DEF MachineType
  <2>2. CASE d = c
    BY <1>3, <1>5, <2>1, <2>2 DEF FE!MachineOK
  <2>3. CASE d # c
    BY <1>5, <2>1, <2>3 DEF FE!MachineOK
  <2> QED
    BY <2>2, <2>3
<1>7. \A d \in Clients : tx'[d].tok # 0 => tx'[d].pane \in Panes
  BY <1>3, <1>5 DEF MachineType
<1> QED
  BY <1>5, <1>6, <1>7 DEF MachineType, R

\* The gate of p holds b.
LEMMA RegateType ==
    ASSUME SinkType, NEW c \in Clients, NEW p \in Panes, NEW b \in Seq(FE!Item), historyGates[c][p].tok # 0,
           historyGates' = [historyGates EXCEPT ![c][p].buf = b]
    PROVE  /\ historyGates' \in [Clients -> [Panes -> [tok : Nat, buf : Seq(FE!Item)]]]
           /\ historyGates'[c] = [historyGates[c] EXCEPT ![p] = [tok |-> historyGates[c][p].tok, buf |-> b]]
           /\ \A d \in Clients : d # c => historyGates'[d] = historyGates[d]
           /\ \A d \in Clients, q \in Panes : historyGates'[d][q].tok = 0 => historyGates'[d][q].buf = << >>
<1> DEFINE R == [tok : Nat, buf : Seq(FE!Item)]
           g == [tok |-> historyGates[c][p].tok, buf |-> b]
<1>1. historyGates \in [Clients -> [Panes -> R]]
  BY DEF SinkType
<1>2. historyGates[c] \in [Panes -> R] /\ historyGates[c][p] \in R
  BY <1>1
<1>3. [historyGates[c][p] EXCEPT !.buf = b] = g /\ g \in R
  <2>1. ASSUME NEW h \in R PROVE [h EXCEPT !.buf = b] = [tok |-> h.tok, buf |-> b] /\ h.tok \in Nat
    OBVIOUS
  <2>2. historyGates[c][p].tok \in Nat
    BY <1>2, <2>1
  <2>3. g \in R
    BY <2>2
  <2> QED
    BY <1>2, <2>1, <2>3
<1>4. historyGates' = [historyGates EXCEPT ![c] = [historyGates[c] EXCEPT ![p] = [historyGates[c][p] EXCEPT !.buf = b]]]
  BY <1>1
<1>5. historyGates' = [historyGates EXCEPT ![c] = [historyGates[c] EXCEPT ![p] = g]]
  BY <1>3, <1>4
<1>6. g.tok # 0
  OBVIOUS
<1> HIDE DEF g, R
<1> DEFINE row == [historyGates[c] EXCEPT ![p] = g]
           Rows == [Panes -> R]
<1>a. row \in Rows
  BY <1>2, <1>3
<1>b. historyGates \in [Clients -> Rows] /\ historyGates' = [historyGates EXCEPT ![c] = row]
  BY <1>1, <1>5
<1>c. row[p] = g /\ \A q \in Panes : q # p => row[q] = historyGates[c][q]
  BY <1>2
<1> HIDE DEF row, Rows
<1>7. historyGates' \in [Clients -> Rows] /\ historyGates'[c] = row
      /\ \A d \in Clients : d # c => historyGates'[d] = historyGates[d]
  BY <1>a, <1>b
<1>8. \A d \in Clients, q \in Panes : historyGates'[d][q].tok = 0 => historyGates'[d][q].buf = << >>
  BY <1>c, <1>6, <1>7 DEF SinkType
<1> QED
  BY <1>7, <1>8 DEF g, R, row, Rows

\* The browser's gate holds b.
LEMMA HoldType ==
    ASSUME MachineType, NEW c \in Clients, tx[c].tok # 0, NEW b \in Seq(FE!Item),
           held' = [held EXCEPT ![c].buf = b], tx' = tx, timer' = timer
    PROVE  /\ MachineType' /\ held'[c].buf = b /\ held'[c].on = held[c].on
           /\ \A d \in Clients : d # c => held'[d] = held[d]
<1> DEFINE R == [on : BOOLEAN, buf : Seq(FE!Item)]
           h == [on |-> held[c].on, buf |-> b]
<1>1. held \in [Clients -> R]
  BY DEF MachineType
<1>2. held[c] \in R
  BY <1>1
<1>3. [held[c] EXCEPT !.buf = b] = h /\ h \in R
  BY <1>2
<1>4. held' = [held EXCEPT ![c] = [held[c] EXCEPT !.buf = b]]
  BY <1>1
<1>5. h.on = held[c].on /\ h.buf = b
  OBVIOUS
<1> HIDE DEF h, R
<1>6. held' \in [Clients -> R] /\ held'[c] = h /\ \A d \in Clients : d # c => held'[d] = held[d]
  BY <1>1, <1>3, <1>4
<1>7. FE!MachineOK'
  <2>1. FE!MachineOK
    BY DEF MachineType
  <2> QED
    BY <1>5, <1>6, <2>1 DEF FE!MachineOK
<1> QED
  BY <1>5, <1>6, <1>7 DEF MachineType, R

\* What is written to a terminal keeps the terminals typed.
LEMMA WriteType ==
    ASSUME SinkType, NEW c \in Clients, NEW p \in Panes, NEW ws \in Seq(FE!Item), FE!Write(c, p, ws)
    PROVE  screen' \in [Clients -> [Panes -> Seq(FE!Item)]]
<1>1. screen[c][p] \o ws \in Seq(FE!Item)
  BY ConcatJoins DEF SinkType
<1> QED
  BY <1>1 DEF SinkType, FE!Write

LEMMA GateType ==
    ASSUME SinkType, NEW c \in Clients, NEW p \in Panes
    PROVE  historyGates[c][p].buf \in Seq(FE!Item) /\ historyGates[c][p].tok \in Nat
           /\ historyGates[c][p] \in [tok : Nat, buf : Seq(FE!Item)]
BY DEF SinkType

LEMMA DispatchType ==
    ASSUME SinkType, NEW c \in Clients, NEW p \in Panes, NEW b \in Seq(FE!Item),
           FE!DispatchPaneOutput(c, p, b)
    PROVE  SinkType'
<1>1. CASE historyGates[c][p].tok # 0
  <2>1. historyGates[c][p].buf \o b \in Seq(FE!Item)
    BY GateType, ConcatJoins
  <2>2. FE!Latest(historyGates[c][p].buf \o b) \in Seq(FE!Item)
    BY <2>1, LatestKeepsEnd
  <2>3. /\ historyGates' = [historyGates EXCEPT ![c][p].buf = FE!Latest(historyGates[c][p].buf \o b)]
        /\ screen' = screen
    BY <1>1 DEF FE!DispatchPaneOutput
  <2> QED
    BY <1>1, <2>2, <2>3, RegateType DEF SinkType
<1>2. CASE historyGates[c][p].tok = 0
  <2>1. FE!Write(c, p, b) /\ historyGates' = historyGates
    BY <1>2 DEF FE!DispatchPaneOutput
  <2> QED
    BY <2>1, WriteType DEF SinkType
<1> QED
  BY <1>1, <1>2

LEMMA BeginGateType ==
    ASSUME SinkType, NEW c \in Clients, NEW p \in Panes, NEW t \in Nat \ {0}, FE!BeginPaneHistoryGate(c, p, t)
    PROVE  SinkType'
<1>1. screen' \in [Clients -> [Panes -> Seq(FE!Item)]]
  BY GateType, WriteType DEF FE!BeginPaneHistoryGate
<1> QED
  BY <1>1, EmptySeq DEF SinkType, FE!BeginPaneHistoryGate

LEMMA GateTimeoutType ==
    ASSUME SinkType, NEW c \in Clients, NEW p \in Panes, FE!HistoryGateTimeout(c, p)
    PROVE  SinkType'
<1>1. screen' \in [Clients -> [Panes -> Seq(FE!Item)]]
  BY GateType, WriteType DEF FE!HistoryGateTimeout
<1> QED
  BY <1>1, EmptySeq DEF SinkType, FE!HistoryGateTimeout, FE!NoGate

LEMMA DispatchHistoryType ==
    ASSUME SinkType, NEW c \in Clients, NEW p \in Panes, NEW n \in Nat, FE!DispatchPaneHistory(c, p, n)
    PROVE  SinkType'
<1>1. <<FE!Past(p, n)>> \o historyGates[c][p].buf \in Seq(FE!Item)
  BY GateType, ItemTypes, PushFronts
<1> QED
  BY <1>1, EmptySeq DEF SinkType, FE!DispatchPaneHistory, FE!NoGate

LEMMA CleanupSinksType ==
    ASSUME SinkType, NEW c \in Clients, FE!CleanupDevicePaneState(c)
    PROVE  SinkType'
BY EmptySeq DEF SinkType, FE!CleanupDevicePaneState, FE!NoGate

LEMMA AckType ==
    ASSUME MachineType, SinkType, NEW c \in Clients, NEW t \in Nat, FE!SwitchAck(c, t)
    PROVE  MachineType' /\ SinkType'
<1>1. CASE ~FE!TakesAck(c, t)
  BY <1>1 DEF FE!SwitchAck, FE!TakesAck, FE!machine, FE!sinks, MachineType, SinkType, FE!MachineOK
<1>2. CASE FE!TakesAck(c, t)
  <2>1. tx[c].tok # 0 /\ tx[c].pane \in Panes
    BY <1>2 DEF FE!TakesAck, FE!Awaits, MachineType
  <2>2. /\ tx' = [tx EXCEPT ![c].state = "ACKED"] /\ timer' = [timer EXCEPT ![c] = "live"]
        /\ screen' = [screen EXCEPT ![c][tx[c].pane] = << >>]
        /\ held' = held /\ historyGates' = historyGates
    BY <1>2 DEF FE!SwitchAck
  <2>3. MachineType'
    BY <2>1, <2>2, AdvanceType
  <2>4. SinkType'
    BY <2>1, <2>2, EmptySeq DEF SinkType
  <2> QED
    BY <2>3, <2>4
<1> QED
  BY <1>1, <1>2

LEMMA HistoryTypes ==
    ASSUME MachineType, SinkType, NEW c \in Clients, NEW t \in Nat, NEW p \in Panes, NEW n \in Nat,
           FE!TermHistory(c, t, p, n)
    PROVE  MachineType' /\ SinkType'
<1>1. CASE historyGates[c][p].tok = t
  BY <1>1, DispatchHistoryType DEF FE!TermHistory, FE!ForTransaction, FE!machine, MachineType, FE!MachineOK
<1>2. CASE historyGates[c][p].tok # t /\ ~FE!ForTransaction(c, t, p)
  <2>1. tx' = tx /\ timer' = timer /\ held' = held /\ historyGates' = historyGates /\ screen' = screen
    BY <1>2 DEF FE!TermHistory, FE!machine, FE!sinks
  <2> QED
    BY <2>1 DEF MachineType, SinkType, FE!MachineOK
<1>3. CASE FE!ForTransaction(c, t, p)
  <2>1. tx[c].tok # 0 /\ tx[c].pane \in Panes /\ historyGates[c][p].tok # t
    BY <1>3 DEF FE!ForTransaction, FE!TakesHistory, FE!Awaits, MachineType
  <2>2. /\ tx' = [tx EXCEPT ![c].state = "HISTORY_APPLIED"] /\ timer' = [timer EXCEPT ![c] = "live"]
        /\ FE!Write(c, tx[c].pane, <<FE!Past(p, n)>>)
        /\ held' = held /\ historyGates' = historyGates
    BY <1>3, <2>1 DEF FE!TermHistory
  <2>3. MachineType'
    BY <2>1, <2>2, AdvanceType
  <2>4. <<FE!Past(p, n)>> \in Seq(FE!Item)
    BY ItemTypes
  <2>5. SinkType'
    BY <2>1, <2>2, <2>4, WriteType DEF SinkType
  <2> QED
    BY <2>3, <2>5
<1> QED
  BY <1>1, <1>2, <1>3 DEF FE!ForTransaction

LEMMA ResumeTypes ==
    ASSUME MachineType, SinkType, NEW c \in Clients, NEW t \in Nat, FE!LiveResume(c, t)
    PROVE  MachineType' /\ SinkType'
<1>1. CASE ~FE!TakesResume(c, t)
  BY <1>1 DEF FE!LiveResume, FE!TakesResume, FE!machine, FE!sinks, MachineType, SinkType, FE!MachineOK
<1>2. CASE FE!TakesResume(c, t)
  <2>1. tx[c].pane \in Panes /\ held[c].buf \in Seq(FE!Item)
    BY <1>2 DEF FE!TakesResume, FE!Awaits, MachineType
  <2>2. FE!EndTransaction(c) /\ FE!DispatchPaneOutput(c, tx[c].pane, held[c].buf)
    BY <1>2 DEF FE!LiveResume
  <2> QED
    BY <2>1, <2>2, EndType, DispatchType
<1> QED
  BY <1>1, <1>2

LEMMA OutputTypes ==
    ASSUME MachineType, SinkType, NEW c \in Clients, NEW p \in Panes, NEW o \in Chunk, FE!TermOutput(c, p, o)
    PROVE  MachineType' /\ SinkType'
<1>1. FE!Live(o) \in FE!Item /\ <<FE!Live(o)>> \in Seq(FE!Item)
  BY ItemTypes
<1>2. CASE ~FE!HoldsBack(c, p)
  BY <1>1, <1>2, DispatchType DEF FE!TermOutput, FE!machine, MachineType, FE!MachineOK
<1>3. CASE FE!HoldsBack(c, p)
  <2>1. held[c].on /\ tx[c].tok # 0 /\ held[c].buf \in Seq(FE!Item)
    BY <1>3 DEF FE!HoldsBack, MachineType, FE!MachineOK
  <2>2. Append(held[c].buf, FE!Live(o)) \in Seq(FE!Item)
    BY <1>1, <2>1, AppendAdds
  <2>3. FE!Latest(Append(held[c].buf, FE!Live(o))) \in Seq(FE!Item)
    BY <2>2, LatestKeepsEnd
  <2>4. /\ held' = [held EXCEPT ![c].buf = FE!Latest(Append(held[c].buf, FE!Live(o)))]
        /\ tx' = tx /\ timer' = timer /\ historyGates' = historyGates /\ screen' = screen
    BY <1>3 DEF FE!TermOutput, FE!sinks
  <2>5. MachineType'
    BY <2>1, <2>3, <2>4, HoldType
  <2> QED
    BY <2>4, <2>5 DEF SinkType
<1> QED
  BY <1>2, <1>3
-----------------------------------------------------------------------------
(* The invariant the others build on: the types, the two gates with their  *)
(* timers, and what requests and frames are made of.                       *)

RequestOK(r) ==
    /\ r.k \in {"SELECT", "FETCH"} => r.tok # 0
    /\ r.k \notin {"SELECT", "FETCH"} => r.tok = 0
    /\ r.k \in {"SELECT", "FETCH", "FOCUS"} => r.pane \in Panes
Answers == {"ACK", "HISTORY", "RESUME"}
FrameOK(m) ==
    /\ m.k \in Answers => m.tok # 0
    /\ m.k \notin Answers => m.tok = 0
    /\ m.k \in {"OUTPUT", "HISTORY"} => m.pane \in Panes /\ m.src \in Panes
    /\ m.k = "HISTORY" => m.src = m.pane

FormedFor(c) ==
    /\ \A i \in 1 .. Len(requests[c]) : RequestOK(requests[c][i])
    /\ \A i \in 1 .. Len(wire[c]) : FrameOK(wire[c][i])
    /\ pending[c].tok # 0 => pending[c].pane \in Panes /\ pending[c].want
    /\ ~connected[c] => tx[c].tok = 0
    /\ mixed[c] => blurred[c]
Formed == \A c \in Clients : FormedFor(c)

Typed == AllTypeOK /\ GateHasTimer /\ BrowserInv
AInv == Typed /\ Formed

LEMMA SideTypes ==
    ASSUME AllTypeOK, NEW c \in Clients
    PROVE  /\ TypeOK /\ FE!TypeOK
           /\ want[c] \in Panes \cup {NoPane} /\ connected[c] \in BOOLEAN /\ joined[c] \in BOOLEAN
           /\ requests[c] \in Seq(Requests) /\ wire[c] \in Seq(Frame)
           /\ missed[c] \in BOOLEAN /\ gap[c] \in BOOLEAN /\ blurred[c] \in BOOLEAN
           /\ mixed[c] \in BOOLEAN /\ base[c] \in Int
           /\ pending[c] \in Transaction /\ pending[c].tok \in Nat /\ pending[c].pane \in Panes \cup {NoPane}
           /\ sst[c] \in States /\ buffer[c] \in Seq(Chunk) /\ selected[c] \in Panes \cup {NoPane}
           /\ fetches[c] \in [Panes -> Nat] /\ emitted \in [Panes -> Nat] /\ nextTok \in Nat \ {0}
<1>1. TypeOK /\ FE!TypeOK
  BY DEF AllTypeOK
<1>2. /\ want[c] \in Panes \cup {NoPane} /\ connected[c] \in BOOLEAN /\ joined[c] \in BOOLEAN
      /\ requests[c] \in Seq(Requests)
  BY DEF AllTypeOK
<1>3. missed[c] \in BOOLEAN /\ gap[c] \in BOOLEAN /\ blurred[c] \in BOOLEAN
  BY DEF AllTypeOK
<1>4. /\ wire[c] \in Seq(Frame) /\ mixed[c] \in BOOLEAN /\ base[c] \in Int /\ pending[c] \in Transaction
      /\ sst[c] \in States /\ buffer[c] \in Seq(Chunk) /\ selected[c] \in Panes \cup {NoPane}
      /\ fetches[c] \in [Panes -> Nat] /\ emitted \in [Panes -> Nat] /\ nextTok \in Nat \ {0}
  BY <1>1 DEF TypeOK, ClientType, BarrierType, HistoryType
<1>5. pending[c].tok \in Nat /\ pending[c].pane \in Panes \cup {NoPane}
  BY <1>4 DEF Transaction
<1> QED
  BY <1>1, <1>2, <1>3, <1>4, <1>5

LEMMA RequestTypes ==
    /\ Connect \in Requests /\ Disconnect \in Requests
    /\ \A t \in Nat, p \in Panes : /\ Request("SELECT", t, p, {}) \in Requests
                                   /\ Request("FETCH", t, p, {}) \in Requests
                                   /\ Request("FOCUS", t, p, {}) \in Requests
    /\ \A S \in SUBSET Panes : Request("SUBSCRIBE", 0, NoPane, S) \in Requests
BY DEF Connect, Disconnect, Request, Requests

\* The first request and the first frame, when there is one.
LEMMA FirstRequest ==
    ASSUME AInv, NEW c \in Clients, requests[c] # << >>
    PROVE  /\ Head(requests[c]) = requests[c][1] /\ requests[c][1] \in Requests
           /\ RequestOK(requests[c][1]) /\ Tail(requests[c]) \in Seq(Requests)
           /\ Popped(requests[c], Tail(requests[c]))
<1>1. requests[c] \in Seq(Requests)
  BY DEF AInv, Typed, AllTypeOK
<1>2. /\ Tail(requests[c]) \in Seq(Requests) /\ Popped(requests[c], Tail(requests[c]))
      /\ Head(requests[c]) = requests[c][1] /\ 1 \in 1 .. Len(requests[c]) /\ requests[c][1] \in Requests
  BY <1>1, TailPops
<1>3. RequestOK(requests[c][1])
  BY <1>2 DEF AInv, Formed, FormedFor
<1> QED
  BY <1>2, <1>3

LEMMA FirstFrame ==
    ASSUME AInv, NEW c \in Clients, wire[c] # << >>
    PROVE  /\ Head(wire[c]) = wire[c][1] /\ wire[c][1] \in Frame /\ 1 \in 1 .. Len(wire[c])
           /\ FrameOK(wire[c][1]) /\ Tail(wire[c]) \in Seq(Frame)
           /\ Popped(wire[c], Tail(wire[c]))
<1>1. wire[c] \in Seq(Frame)
  BY DEF AInv, Typed, AllTypeOK, TypeOK
<1>2. /\ Tail(wire[c]) \in Seq(Frame) /\ Popped(wire[c], Tail(wire[c]))
      /\ Head(wire[c]) = wire[c][1] /\ 1 \in 1 .. Len(wire[c]) /\ wire[c][1] \in Frame
  BY <1>1, TailPops
<1>3. FrameOK(wire[c][1])
  BY <1>2 DEF AInv, Formed, FormedFor
<1> QED
  BY <1>2, <1>3

-----------------------------------------------------------------------------
(* The steps of AllNext are steps of the gateway of SwitchBarrier, so that *)
(* what is proved of it carries over.                                      *)

\* The gateway serves a select.
ServesSelect(c) ==
    /\ requests[c] # << >> /\ requests[c][1].k = "SELECT" /\ requests[c][1].tok \in Nat \ {0}
    /\ SelectsOf(c, {requests[c][1].tok})

LEMMA ServeIsGatewayNext ==
    ASSUME AInv, NEW c \in Clients, Serve(c)
    PROVE  nextTok' \in Nat \ {0} /\ (BesideNext \/ ServesSelect(c))
<1> DEFINE r == Head(requests[c])
<1>1. /\ r \in Requests /\ RequestOK(r) /\ nextTok \in Nat \ {0}
      /\ requests[c] # << >> /\ r = requests[c][1]
  BY FirstRequest DEF Serve, AInv, Typed, AllTypeOK, TypeOK
<1> HIDE DEF r
<1>2. Heeds(c, r) \/ UNCHANGED vars
  BY DEF Serve, r
<1>3. r.tok \in Nat /\ r.panes \in SUBSET Panes
  BY <1>1 DEF Requests
<1>4. r.k \in {"SELECT", "FETCH", "FOCUS"} => r.pane \in Panes
  BY <1>1 DEF RequestOK
<1>5. r.k \in {"SELECT", "FETCH"} => r.tok # 0
  BY <1>1 DEF RequestOK
<1>6. CASE r.k = "CONNECT" /\ HandleDeviceConnect(c)
  BY <1>1, <1>6 DEF HandleDeviceConnect, BesideNext, ActsBeside, SocketStep
<1>7. CASE r.k = "DISCONNECT" /\ HandleDeviceDisconnect(c)
  BY <1>1, <1>7 DEF HandleDeviceDisconnect, BesideNext, ActsBeside, SocketStep
<1>8. CASE r.k = "SELECT" /\ HandleTmuxSelect(c, r.tok, r.pane, TRUE) /\ UNCHANGED nextTok
  BY <1>1, <1>3, <1>4, <1>5, <1>8 DEF ServesSelect, SelectsOf
<1>9. CASE r.k = "FOCUS" /\ HandleFocusPane(c, r.pane)
  BY <1>1, <1>4, <1>9 DEF HandleFocusPane, BesideNext, ActsBeside
<1>10. CASE r.k = "SUBSCRIBE" /\ HandleSubscribePanes(c, r.panes)
  BY <1>1, <1>3, <1>10 DEF HandleSubscribePanes, BesideNext, ActsBeside
<1>11. CASE r.k = "FETCH" /\ HandleFetchPaneHistory(c, r.tok, r.pane) /\ UNCHANGED nextTok
  BY <1>1, <1>3, <1>4, <1>5, <1>11 DEF BesideNext, ActsBeside
<1>12. CASE UNCHANGED vars
  BY <1>1, <1>12 DEF vars, Idles, BesideNext
<1> QED
  BY <1>2, <1>6, <1>7, <1>8, <1>9, <1>10, <1>11, <1>12 DEF Heeds

LEMMA AllNextIsBesideNext ==
    ASSUME AInv, [AllNext]_allVars
    PROVE  nextTok' \in Nat \ {0} /\ (BesideNext \/ \E c \in Clients : ServesSelect(c))
<1> DEFINE Goal == nextTok' \in Nat \ {0} /\ (BesideNext \/ \E c \in Clients : ServesSelect(c))
<1> SUFFICES Goal
  OBVIOUS
<1>0. nextTok \in Nat \ {0} /\ nextTok + 1 \in Nat \ {0}
  BY DEF AInv, Typed, AllTypeOK, TypeOK
<1>1. ASSUME NEW c \in Clients, UserStep(c) PROVE Goal
  <2>1. UNCHANGED gateway /\ nextTok' \in {nextTok, nextTok + 1}
    BY <1>1 DEF UserStep, ConnectDevice, DisconnectDevice, SelectPane, StartSelect, Draw, FocusPane, SubscribePanes,
       FetchPaneHistory, gateway, vars
  <2> QED
    BY <1>0, <2>1 DEF gateway, Idles, BesideNext
<1>2. ASSUME NEW c \in Clients, Read(c) PROVE Goal
  <2>1. nextTok' \in {nextTok, nextTok + 1}
    BY <1>2 DEF Read, HearsConnected, HearsDisconnected, HearsFrame, StartSelect, Draw
  <2>2. Takes(c)
    BY <1>2 DEF Read, Takes
  <2> QED
    BY <1>0, <2>1, <2>2 DEF BesideNext, ActsBeside
<1>3. ASSUME NEW c \in Clients, SelectTimeout(c) \/ \E p \in Panes : HistoryGateTimeout(c, p) PROVE Goal
  BY <1>0, <1>3 DEF SelectTimeout, HistoryGateTimeout, vars, Idles, BesideNext
<1>4. ASSUME NEW c \in Clients, Serve(c) PROVE Goal
  BY <1>4, ServeIsGatewayNext
<1>5. ASSUME NEW c \in Clients, LoseSocket(c) PROVE Goal
  BY <1>0, <1>5 DEF LoseSocket, HandleClose, BesideNext, ActsBeside, SocketStep
<1>6. ASSUME NEW c \in Clients, OpenSocket(c) PROVE Goal
  BY <1>0, <1>6 DEF OpenSocket, HandleOpen, BesideNext, ActsBeside, SocketStep
<1>7. CASE GatewayStep
  <2>1. nextTok' = nextTok
    BY <1>7 DEF GatewayStep, BroadcastTerminalOutput, BroadcastStateSnapshot, RetryConnection, TakeCapture,
       LiveTimerFires, BroadcastTerminalHistory, DropCapture, HandleConnectionClose, GiveUpConnection, HistoryTimerFires
  <2>2. (\E c \in Clients : BarrierStep(c)) \/ RuntimeStep \/ LossStep
    BY <1>7 DEF GatewayStep, BarrierStep, RuntimeStep, LossStep
  <2> QED
    BY <1>0, <2>1, <2>2 DEF BesideNext, ActsBeside
<1>8. CASE UNCHANGED allVars
  BY <1>0, <1>8 DEF allVars, vars, Idles, BesideNext
<1> QED
  BY <1>1, <1>2, <1>3, <1>4, <1>5, <1>6, <1>7, <1>8 DEF AllNext, BrowserStep

LEMMA AllNextIsGatewayNext == AInv /\ [AllNext]_allVars => GatewayNext
BY AllNextIsBesideNext DEF GatewayNext, ServesSelect, SelectsOf
-----------------------------------------------------------------------------
(* Types are kept.                                                         *)

SideType ==
    /\ want \in [Clients -> Panes \cup {NoPane}]
    /\ joined \in [Clients -> BOOLEAN] /\ connected \in [Clients -> BOOLEAN]
    /\ requests \in [Clients -> Seq(Requests)]
    /\ missed \in [Clients -> BOOLEAN] /\ gap \in [Clients -> BOOLEAN] /\ blurred \in [Clients -> BOOLEAN]

LEMMA AllTypeParts == AllTypeOK <=> TypeOK /\ FE!TypeOK /\ SideType
BY DEF AllTypeOK, SideType

LEMMA AskType ==
    ASSUME SideType, NEW c \in Clients, NEW r \in Requests, Ask(c, r)
    PROVE  requests' \in [Clients -> Seq(Requests)]
<1>1. Append(requests[c], r) \in Seq(Requests)
  BY AppendAdds DEF SideType
<1> QED
  BY <1>1 DEF Ask, SideType

LEMMA StartSelectTypes ==
    ASSUME AInv, NEW c \in Clients, NEW p \in Panes, StartSelect(c, p)
    PROVE  /\ MachineType' /\ (want \in [Clients -> Panes \cup {NoPane}])'
           /\ (requests \in [Clients -> Seq(Requests)])' /\ (missed \in [Clients -> BOOLEAN])'
           /\ (gap \in [Clients -> BOOLEAN])' /\ (blurred \in [Clients -> BOOLEAN])'
           /\ historyGates' = historyGates /\ screen' = screen
<1>1. SideType /\ MachineType /\ nextTok \in Nat \ {0}
  BY AllTypeParts, BrowserParts DEF AInv, Typed, TypeOK
<1>2. MachineType'
  BY <1>1, StartType2 DEF StartSelect
<1>3. Request("SELECT", nextTok, p, {}) \in Requests
  BY <1>1, RequestTypes
<1>4. requests' \in [Clients -> Seq(Requests)]
  BY <1>1, <1>3, AskType DEF StartSelect
<1> QED
  BY <1>1, <1>2, <1>4 DEF StartSelect, SideType, FE!SelectStart, FE!sinks

LEMMA UserStepTypes ==
    ASSUME AInv, NEW c \in Clients, UserStep(c)
    PROVE  SideType' /\ MachineType' /\ SinkType'
<1>0. SideType /\ MachineType /\ SinkType /\ nextTok \in Nat \ {0}
  BY AllTypeParts, BrowserParts DEF AInv, Typed, TypeOK
<1>a. ASSUME UNCHANGED machine PROVE MachineType'
  BY <1>0, <1>a DEF machine, MachineType, FE!MachineOK
<1>b. ASSUME UNCHANGED <<historyGates, screen>> PROVE SinkType'
  BY <1>0, <1>b DEF SinkType
<1>1. CASE ConnectDevice(c)
  <2>1. requests' \in [Clients -> Seq(Requests)]
    BY <1>0, <1>1, RequestTypes, AskType DEF ConnectDevice
  <2> QED
    BY <1>0, <1>1, <1>a, <1>b, <2>1 DEF ConnectDevice, SideType, browser, notes
<1>2. CASE DisconnectDevice(c)
  <2>1. requests' \in [Clients -> Seq(Requests)]
    BY <1>0, <1>2, RequestTypes, AskType DEF DisconnectDevice
  <2>2. MachineType'
    BY <1>0, <1>2, EndType DEF DisconnectDevice, FE!Cleanup
  <2> QED
    BY <1>0, <1>2, <1>b, <2>1, <2>2 DEF DisconnectDevice, SideType, notes
<1>3. ASSUME NEW p \in Panes, SelectPane(c, p) PROVE SideType' /\ MachineType' /\ SinkType'
  BY <1>0, <1>3, <1>b, StartSelectTypes DEF SelectPane, SideType
<1>4. ASSUME NEW p \in Panes, FocusPane(c, p) PROVE SideType' /\ MachineType' /\ SinkType'
  <2>1. requests' \in [Clients -> Seq(Requests)]
    BY <1>0, <1>4, RequestTypes, AskType DEF FocusPane
  <2>2. UNCHANGED machine /\ UNCHANGED <<historyGates, screen>>
    BY <1>4 DEF FocusPane, browser
  <2> QED
    BY <1>0, <1>4, <1>a, <1>b, <2>1, <2>2 DEF FocusPane, SideType, Note
<1>5. ASSUME NEW p \in Panes, FetchPaneHistory(c, p) PROVE SideType' /\ MachineType' /\ SinkType'
  <2>1. requests' \in [Clients -> Seq(Requests)]
    BY <1>0, <1>5, RequestTypes, AskType DEF FetchPaneHistory
  <2>2. SinkType'
    BY <1>0, <1>5, BeginGateType DEF FetchPaneHistory
  <2> QED
    BY <1>0, <1>5, <1>a, <2>1, <2>2 DEF FetchPaneHistory, SideType, store, notes
<1>6. ASSUME NEW S \in SUBSET Panes, SubscribePanes(c, S) PROVE SideType' /\ MachineType' /\ SinkType'
  <2>1. requests' \in [Clients -> Seq(Requests)]
    BY <1>0, <1>6, RequestTypes, AskType DEF SubscribePanes
  <2>2. UNCHANGED machine /\ UNCHANGED <<historyGates, screen>>
    BY <1>6 DEF SubscribePanes, browser
  <2> QED
    BY <1>0, <1>6, <1>a, <1>b, <2>1, <2>2 DEF SubscribePanes, SideType, store, notes
<1> QED
  BY <1>1, <1>2, <1>3, <1>4, <1>5, <1>6 DEF UserStep

LEMMA ReadTypes ==
    ASSUME AInv, NEW c \in Clients, Read(c)
    PROVE  SideType' /\ MachineType' /\ SinkType'
<1> DEFINE m == Head(wire[c])
<1>0. SideType /\ MachineType /\ SinkType
  BY AllTypeParts, BrowserParts DEF AInv, Typed
<1>1. m \in Frame /\ FrameOK(m)
  BY FirstFrame DEF Read
<1>2. \/ m.k \in {"CONNECTED", "RECONNECTED"} /\ HearsConnected(c)
      \/ m.k \in {"DISCONNECTED", "LOST"} /\ HearsDisconnected(c, m.k)
      \/ HearsFrame(c, m)
  BY DEF Read
<1>3. joined' = joined
  BY DEF Read
<1> HIDE DEF m
<1>4. CASE HearsConnected(c)
  <2>1. CASE MayReselect(c) /\ StartSelect(c, want[c])
    <3>1. want[c] \in Panes
      BY <1>0, <2>1 DEF MayReselect, SideType
    <3> QED
      BY <1>0, <1>3, <1>4, <2>1, <3>1, StartSelectTypes DEF HearsConnected, SideType, SinkType, Note
  <2>2. CASE ~MayReselect(c) /\ UNCHANGED <<browser, want, requests, nextTok, notes>>
    BY <1>0, <1>3, <1>4, <2>2 DEF HearsConnected, SideType, MachineType, SinkType, Note, browser, machine, notes, FE!MachineOK
  <2> QED
    BY <1>4, <2>1, <2>2 DEF HearsConnected
<1>5. CASE HearsDisconnected(c, m.k)
  <2>1. MachineType'
    BY <1>0, <1>5, EndType DEF HearsDisconnected, FE!Cleanup
  <2>2. SinkType'
    BY <1>0, <1>5, CleanupSinksType DEF HearsDisconnected, SinkType
  <2> QED
    BY <1>0, <1>3, <1>5, <2>1, <2>2 DEF HearsDisconnected, SideType, notes
<1>6. CASE HearsFrame(c, m)
  <2>1. SideType'
    BY <1>0, <1>3, <1>6 DEF HearsFrame, SideType, notes
  <2>2. m.tok \in Nat /\ m.n \in Nat
    BY <1>1 DEF Frame
  <2>3. m.k \in {"OUTPUT", "HISTORY"} => m.pane \in Panes /\ m.src \in Panes
    BY <1>1 DEF FrameOK
  <2>4. CASE m.k = "ACK" /\ FE!SwitchAck(c, m.tok)
    BY <1>0, <2>1, <2>2, <2>4, AckType
  <2>5. CASE m.k = "HISTORY" /\ FE!TermHistory(c, m.tok, m.pane, m.n)
    BY <1>0, <2>1, <2>2, <2>3, <2>5, HistoryTypes
  <2>6. CASE m.k = "RESUME" /\ FE!LiveResume(c, m.tok)
    BY <1>0, <2>1, <2>2, <2>6, ResumeTypes
  <2>7. CASE m.k = "OUTPUT" /\ FE!TermOutput(c, m.pane, [src |-> m.src, n |-> m.n])
    <3>1. [src |-> m.src, n |-> m.n] \in Chunk
      BY <2>2, <2>3, <2>7 DEF Chunk
    <3> QED
      BY <1>0, <2>1, <2>3, <2>7, <3>1, OutputTypes
  <2>8. CASE m.k = "RECONNECTING" /\ UNCHANGED browser
    BY <1>0, <2>1, <2>8 DEF MachineType, SinkType, browser, machine, FE!MachineOK
  <2> QED
    BY <1>6, <2>4, <2>5, <2>6, <2>7, <2>8 DEF HearsFrame
<1> QED
  BY <1>2, <1>4, <1>5, <1>6

LEMMA OtherStepTypes ==
    ASSUME AInv, NEW c \in Clients,
           \/ SelectTimeout(c) \/ (\E p \in Panes : HistoryGateTimeout(c, p))
           \/ Serve(c) \/ LoseSocket(c) \/ OpenSocket(c)
    PROVE  SideType' /\ MachineType' /\ SinkType'
<1>0. SideType /\ MachineType /\ SinkType
  BY AllTypeParts, BrowserParts DEF AInv, Typed
<1>a. ASSUME UNCHANGED browser PROVE MachineType' /\ SinkType'
  BY <1>0, <1>a DEF browser, machine, MachineType, SinkType, FE!MachineOK
<1>1. CASE SelectTimeout(c)
  <2>1. MachineType'
    BY <1>0, <1>1, EndType DEF SelectTimeout, FE!Timeout
  <2> QED
    BY <1>0, <1>1, <2>1 DEF SelectTimeout, FE!Timeout, FE!sinks, store, SideType, SinkType, Note
<1>2. ASSUME NEW p \in Panes, HistoryGateTimeout(c, p) PROVE SideType' /\ MachineType' /\ SinkType'
  <2>1. SinkType'
    BY <1>0, <1>2, GateTimeoutType DEF HistoryGateTimeout
  <2> QED
    BY <1>0, <1>2, <2>1 DEF HistoryGateTimeout, machine, store, notes, SideType, MachineType, FE!MachineOK
<1>3. CASE Serve(c)
  <2>1. requests' \in [Clients -> Seq(Requests)]
    <3>1. Tail(requests[c]) \in Seq(Requests)
      BY <1>3, FirstRequest DEF Serve
    <3> QED
      BY <1>0, <1>3, <3>1 DEF Serve, SideType
  <2>2. mixed' \in [Clients -> BOOLEAN]
    BY <1>3, AllNextIsGatewayNext, GatewayIInv DEF AllNext, AInv, Typed, AllTypeOK, IInv, TypeOK, HistoryType
  <2>3. blurred' \in [Clients -> BOOLEAN]
    BY <1>0, <1>3, <2>2 DEF Serve, Blur, SideType
  <2>4. missed' \in [Clients -> BOOLEAN] /\ gap' \in [Clients -> BOOLEAN]
    BY <1>0, <1>3 DEF Serve, SideType, Note
  <2> QED
    BY <1>0, <1>3, <1>a, <2>1, <2>3, <2>4 DEF Serve, store, SideType
<1>4. CASE LoseSocket(c)
  BY <1>0, <1>4, <1>a, EmptySeq DEF LoseSocket, store, SideType, Note
<1>5. CASE OpenSocket(c)
  <2>1. requests' \in [Clients -> Seq(Requests)]
    <3>1. <<Connect>> \o requests[c] \in Seq(Requests)
      BY <1>0, RequestTypes, PushFronts DEF SideType
    <3> QED
      BY <1>0, <1>5, <3>1 DEF OpenSocket, SideType
  <2> QED
    BY <1>0, <1>5, <1>a, <2>1 DEF OpenSocket, store, notes, SideType
<1> QED
  BY <1>1, <1>2, <1>3, <1>4, <1>5

LEMMA GatewayStepTypes ==
    ASSUME AInv, GatewayStep
    PROVE  SideType' /\ MachineType' /\ SinkType'
<1>0. SideType /\ MachineType /\ SinkType
  BY AllTypeParts, BrowserParts DEF AInv, Typed
<1>1. MachineType' /\ SinkType'
  BY <1>0 DEF GatewayStep, browser, machine, MachineType, SinkType, FE!MachineOK
<1>2. TypeOK'
  BY AllNextIsGatewayNext, GatewayIInv DEF AllNext, AInv, Typed, AllTypeOK, IInv
<1>3. blurred' \in [Clients -> BOOLEAN]
  BY <1>0, <1>2 DEF GatewayStep, Blur, SideType, TypeOK, HistoryType
<1>4. gap' \in [Clients -> BOOLEAN]
  <2>1. ASSUME NEW k \in captures, gap' = [c \in Clients |-> gap[c] \/ (sst'[c] # sst[c] /\ k.upTo < base[c])]
        PROVE  gap' \in [Clients -> BOOLEAN]
    BY <1>0, <2>1 DEF SideType
  <2> QED
    BY <1>0, <2>1 DEF GatewayStep, SideType, Note
<1> QED
  BY <1>0, <1>1, <1>3, <1>4 DEF GatewayStep, store, SideType

LEMMA NextTyped == AInv /\ [AllNext]_allVars => Typed'
<1> SUFFICES ASSUME AInv, [AllNext]_allVars PROVE Typed'
  OBVIOUS
<1>1. TypeOK' /\ GateHasTimer'
  BY AllNextIsGatewayNext, GatewayIInv DEF AInv, Typed, AllTypeOK, IInv
<1>2. SideType' /\ MachineType' /\ SinkType'
  <2>1. CASE UNCHANGED allVars
    <3>1. SideType /\ MachineType /\ SinkType
      BY AllTypeParts, BrowserParts DEF AInv, Typed
    <3> QED
      BY <2>1, <3>1 DEF allVars, browser, machine, store, notes, SideType, MachineType, SinkType, FE!MachineOK
  <2> QED
    BY <2>1, UserStepTypes, ReadTypes, OtherStepTypes, GatewayStepTypes DEF AllNext, BrowserStep
<1>3. BrowserInv'
  BY <1>2 DEF BrowserInv, FE!TypeOK, GatesOK, MachineType, SinkType
<1>4. AllTypeOK'
  BY <1>1, <1>2, <1>3 DEF AllTypeOK, SideType, BrowserInv
<1> QED
  BY <1>1, <1>3, <1>4 DEF Typed
-----------------------------------------------------------------------------
(* What a step of the system does to one browser c and to its socket.      *)

\* s followed by t, but for its oldest items when a gate is full.
Extended(s, t, r) ==
    /\ Len(s) \in Nat /\ Len(t) \in Nat
    /\ \E d \in 0 .. Len(s) + Len(t) :
          /\ Len(r) = Len(s) + Len(t) - d
          /\ d # 0 => Len(r) = MaxBuffer
          /\ \A i \in 1 .. Len(r) : /\ i + d <= Len(s) => r[i] = s[i + d]
                                    /\ i + d > Len(s) => r[i] = t[i + d - Len(s)]

\* s followed by m, maybe but for its oldest item.
Pushed(s, m, r) ==
    /\ Len(s) \in Nat /\ Len(r) \in {Len(s), Len(s) + 1} /\ Len(r) # 0 /\ r[Len(r)] = m
    /\ \A i \in 1 .. Len(r) - 1 : r[i] = s[i + (Len(s) + 1 - Len(r))]

SwitchKept(c)  == pending'[c] = pending[c] /\ sst'[c] = sst[c] /\ buffer'[c] = buffer[c]
FocusKept(c)   == selected'[c] = selected[c] /\ (base'[c] = base[c] \/ gap'[c])
FetchesKept(c) == fetches'[c] = fetches[c]
StillHears(c)  == up /\ c \in attached => up' /\ c \in attached'
DeviceKept(c)  == emitted' = emitted /\ StillHears(c)
GatewayKept(c) == SwitchKept(c) /\ FocusKept(c) /\ FetchesKept(c) /\ DeviceKept(c)
MachineKept(c) == tx'[c] = tx[c] /\ held'[c] = held[c]
SinksKept(c)   == historyGates'[c] = historyGates[c] /\ screen'[c] = screen[c]
BrowserKept(c) == MachineKept(c) /\ SinksKept(c)
StoreKept(c)   == want'[c] = want[c] /\ connected'[c] = connected[c]
NotesKept(c)   == missed'[c] = missed[c] /\ (gap[c] => gap'[c])
SideKept(c)    == StoreKept(c) /\ NotesKept(c)
QueueKept(c)   == requests'[c] = requests[c]
WireKept(c)    == wire'[c] = wire[c]

Stays(c) == GatewayKept(c) /\ BrowserKept(c) /\ SideKept(c) /\ QueueKept(c) /\ WireKept(c)

\* Tokens are drawn, and no mixing of panes is forgotten.
Turns(c) == /\ nextTok <= nextTok'
            /\ blurred[c] => blurred'[c]
            /\ mixed'[c] => mixed[c] \/ blurred'[c]

\* The transaction is gone.
Ended(c) == tx'[c].tok = 0 /\ held'[c].buf = << >>

\* What reaches the terminal of p, or its history gate.
Elsewhere(c, p) == \A q \in Panes : q # p => historyGates'[c][q] = historyGates[c][q] /\ screen'[c][q] = screen[c][q]
Dispatched(c, p, b) ==
    /\ Elsewhere(c, p) /\ historyGates'[c][p].tok = historyGates[c][p].tok
    /\ \/ /\ historyGates[c][p].tok # 0 /\ screen'[c][p] = screen[c][p]
          /\ Extended(historyGates[c][p].buf, b, historyGates'[c][p].buf)
       \/ /\ historyGates[c][p].tok = 0 /\ historyGates'[c][p] = historyGates[c][p]
          /\ Joined(screen[c][p], b, screen'[c][p])

\* The user asks.
Asks(c) ==
    /\ GatewayKept(c) /\ BrowserKept(c) /\ SideKept(c) /\ WireKept(c)
    /\ \E r \in Requests : /\ r.k \in {"CONNECT", "SUBSCRIBE"} /\ RequestOK(r)
                           /\ Added(requests[c], requests'[c], r) \/ Fronted(requests[c], requests'[c], r)
AsksLeave(c) ==
    /\ GatewayKept(c) /\ SinksKept(c) /\ Ended(c) /\ SideKept(c) /\ WireKept(c)
    /\ Added(requests[c], requests'[c], Disconnect)
Selects(c, p) ==
    /\ GatewayKept(c) /\ SinksKept(c) /\ nextTok' = nextTok + 1
    /\ tx'[c] = [tok |-> nextTok, pane |-> p, state |-> "SELECTING"] /\ held'[c].buf = << >>
    /\ want'[c] = p /\ connected'[c] /\ ~missed'[c]
    /\ Added(requests[c], requests'[c], Request("SELECT", nextTok, p, {}))
    /\ \/ connected[c] /\ WireKept(c)
       \/ tx[c].tok = 0 /\ wire[c][1].k \in {"CONNECTED", "RECONNECTED"} /\ Popped(wire[c], wire'[c])
AsksFocus(c, p) ==
    /\ GatewayKept(c) /\ BrowserKept(c) /\ WireKept(c)
    /\ want'[c] = p /\ connected[c] /\ connected'[c] = connected[c] /\ missed'[c] = missed[c] /\ gap'[c]
    /\ Added(requests[c], requests'[c], Request("FOCUS", 0, p, {}))
AsksHistory(c, p) ==
    /\ GatewayKept(c) /\ MachineKept(c) /\ SideKept(c) /\ WireKept(c) /\ nextTok' = nextTok + 1
    /\ Added(requests[c], requests'[c], Request("FETCH", nextTok, p, {}))
    /\ Elsewhere(c, p) /\ historyGates'[c][p] = [tok |-> nextTok, buf |-> << >>]
    /\ Joined(screen[c][p], historyGates[c][p].buf, screen'[c][p])

\* Its timers run out.
TimesOut(c) ==
    /\ GatewayKept(c) /\ SinksKept(c) /\ StoreKept(c) /\ QueueKept(c) /\ WireKept(c)
    /\ Ended(c) /\ missed'[c] = missed[c] /\ gap'[c]
GateTimesOut(c, p) ==
    /\ GatewayKept(c) /\ MachineKept(c) /\ SideKept(c) /\ QueueKept(c) /\ WireKept(c)
    /\ Elsewhere(c, p) /\ historyGates'[c][p].tok = 0 /\ historyGates'[c][p].buf = << >>
    /\ Joined(screen[c][p], historyGates[c][p].buf, screen'[c][p])

\* It reads.
Reads(c) == /\ GatewayKept(c) /\ NotesKept(c) /\ QueueKept(c) /\ want'[c] = want[c]
            /\ Popped(wire[c], wire'[c])
ReadsStatus(c) ==
    /\ Reads(c) /\ BrowserKept(c) /\ (connected[c] => connected'[c])
    /\ ~connected[c] /\ connected'[c] => want[c] = NoPane
    /\ wire[c][1].k \in {"CONNECTED", "RECONNECTED", "RECONNECTING"}
ReadsLoss(c) ==
    /\ Reads(c) /\ ~connected'[c] /\ Ended(c) /\ screen'[c] = screen[c]
    /\ wire[c][1].k \in {"DISCONNECTED", "LOST"}
    /\ \A p \in Panes : \/ historyGates'[c][p] = historyGates[c][p]
                        \/ historyGates'[c][p].tok = 0 /\ historyGates'[c][p].buf = << >>
Refuses(c) ==
    /\ Reads(c) /\ BrowserKept(c) /\ StoreKept(c)
    /\ LET m == wire[c][1] IN
       \/ m.k = "ACK" /\ ~FE!TakesAck(c, m.tok)
       \/ m.k = "HISTORY" /\ historyGates[c][m.pane].tok # m.tok /\ ~FE!TakesHistory(c, m.tok)
       \/ m.k = "RESUME" /\ ~FE!TakesResume(c, m.tok)
Advanced(c, s) ==
    /\ tx'[c].tok = tx[c].tok /\ tx'[c].pane = tx[c].pane /\ tx'[c].state = s /\ held'[c] = held[c]
ReadsAck(c) ==
    /\ Reads(c) /\ StoreKept(c) /\ wire[c][1].k = "ACK" /\ FE!TakesAck(c, wire[c][1].tok)
    /\ Advanced(c, "ACKED")
    /\ historyGates'[c] = historyGates[c] /\ screen'[c][tx[c].pane] = << >>
    /\ \A q \in Panes : q # tx[c].pane => screen'[c][q] = screen[c][q]
ReadsHistory(c) ==
    /\ Reads(c) /\ StoreKept(c) /\ wire[c][1].k = "HISTORY" /\ FE!TakesHistory(c, wire[c][1].tok)
    /\ historyGates[c][wire[c][1].pane].tok # wire[c][1].tok
    /\ Advanced(c, "HISTORY_APPLIED")
    /\ Elsewhere(c, tx[c].pane) /\ historyGates'[c] = historyGates[c]
    /\ Added(screen[c][tx[c].pane], screen'[c][tx[c].pane], FE!Past(wire[c][1].pane, wire[c][1].n))
ReadsFetched(c) ==
    /\ Reads(c) /\ StoreKept(c) /\ MachineKept(c) /\ wire[c][1].k = "HISTORY"
    /\ LET m == wire[c][1] IN
       /\ historyGates[c][m.pane].tok = m.tok /\ Elsewhere(c, m.pane)
       /\ historyGates'[c][m.pane].tok = 0 /\ historyGates'[c][m.pane].buf = << >>
       /\ Fronted(historyGates[c][m.pane].buf, screen'[c][m.pane], FE!Past(m.pane, m.n))
ReadsResume(c) ==
    /\ Reads(c) /\ StoreKept(c) /\ wire[c][1].k = "RESUME" /\ FE!TakesResume(c, wire[c][1].tok)
    /\ Ended(c) /\ Dispatched(c, tx[c].pane, held[c].buf)
FrameItem(m) == FE!Live([src |-> m.src, n |-> m.n])
Holds(c) ==
    /\ Reads(c) /\ StoreKept(c) /\ SinksKept(c) /\ wire[c][1].k = "OUTPUT"
    /\ tx[c].tok # 0 /\ tx[c].pane = wire[c][1].pane /\ tx'[c] = tx[c]
    /\ Extended(held[c].buf, <<FrameItem(wire[c][1])>>, held'[c].buf)
Displays(c) ==
    /\ Reads(c) /\ StoreKept(c) /\ MachineKept(c) /\ wire[c][1].k = "OUTPUT"
    /\ tx[c].tok = 0 \/ tx[c].pane # wire[c][1].pane
    /\ Dispatched(c, wire[c][1].pane, <<FrameItem(wire[c][1])>>)

\* The gateway serves its first request.
Served(c) == BrowserKept(c) /\ StoreKept(c) /\ Popped(requests[c], requests'[c])
ServedQuietly(c) ==
    /\ Served(c) /\ GatewayKept(c) /\ NotesKept(c) /\ requests[c][1].k \in {"CONNECT", "SUBSCRIBE", "FETCH"}
    /\ WireKept(c) \/ Added(wire[c], wire'[c], Status("CONNECTED"))
ServedLeave(c) ==
    /\ Served(c) /\ SwitchKept(c) /\ emitted' = emitted /\ missed'[c] = missed[c] /\ gap'[c]
    /\ requests[c][1].k = "DISCONNECT" /\ \A p \in Panes : fetches'[c][p] = 0
    /\ Added(wire[c], wire'[c], Status("DISCONNECTED"))
    /\ MovedOff(c, NoPane) => mixed'[c]
ServedSelect(c) ==
    /\ Served(c) /\ requests[c][1].k = "SELECT" /\ FetchesKept(c) /\ DeviceKept(c) /\ missed'[c] = missed[c]
    /\ LET r == requests[c][1] IN
       /\ pending'[c] = [tok |-> r.tok, pane |-> r.pane, want |-> TRUE]
       /\ sst'[c] = "ACKED" /\ buffer'[c] = << >> /\ selected'[c] = r.pane
       /\ Added(wire[c], wire'[c], Ack(r.tok, r.pane))
       /\ base'[c] = IF up /\ c \in attached THEN emitted[r.pane] ELSE -1
       /\ gap[c] => gap'[c]
       /\ ~(up /\ c \in attached) => gap'[c]
ServedFocus(c) ==
    /\ Served(c) /\ requests[c][1].k = "FOCUS" /\ SwitchKept(c) /\ FetchesKept(c) /\ DeviceKept(c) /\ NotesKept(c)
    /\ WireKept(c) /\ selected'[c] = requests[c][1].pane
    /\ MovedOff(c, requests[c][1].pane) => mixed'[c]
ServedHistory(c) ==
    /\ Served(c) /\ requests[c][1].k = "FETCH" /\ SwitchKept(c) /\ FocusKept(c) /\ DeviceKept(c) /\ NotesKept(c)
    /\ WireKept(c) /\ fetches'[c][requests[c][1].pane] = requests[c][1].tok
    /\ \A q \in Panes : q # requests[c][1].pane => fetches'[c][q] = fetches[c][q]
Drops(c) ==
    /\ Served(c) /\ requests[c][1].k \in {"SELECT", "FOCUS"} /\ GatewayKept(c) /\ WireKept(c)
    /\ missed'[c] /\ (gap[c] => gap'[c])

\* Its socket is lost.
Loses(c) ==
    /\ BrowserKept(c) /\ StoreKept(c) /\ emitted' = emitted /\ missed'[c] /\ gap'[c]
    /\ requests'[c] = << >> /\ wire'[c] = << >>
    /\ pending'[c].tok = 0 /\ buffer'[c] = << >> /\ \A p \in Panes : fetches'[c][p] = 0

\* The gateway's own steps.
Beyond(c) == BrowserKept(c) /\ StoreKept(c) /\ QueueKept(c) /\ missed'[c] = missed[c]
Chunked(p) == [src |-> p, n |-> emitted[p] + 1]
Emitted(p) == emitted' = [emitted EXCEPT ![p] = @ + 1]
Sends(c, p) ==
    /\ Beyond(c) /\ NotesKept(c) /\ SwitchKept(c) /\ FocusKept(c) /\ FetchesKept(c) /\ StillHears(c) /\ Emitted(p)
    /\ ~(selected[c] = p /\ pending[c].tok # 0) /\ Added(wire[c], wire'[c], Output(p, Chunked(p)))
HoldsBack(c, p) ==
    /\ Beyond(c) /\ NotesKept(c) /\ WireKept(c) /\ FocusKept(c) /\ FetchesKept(c) /\ StillHears(c) /\ Emitted(p)
    /\ pending'[c] = pending[c] /\ sst'[c] = sst[c]
    /\ selected[c] = p /\ pending[c].tok # 0 /\ Pushed(buffer[c], Chunked(p), buffer'[c])
Unheard(c, p) ==
    /\ Beyond(c) /\ NotesKept(c) /\ WireKept(c) /\ SwitchKept(c) /\ FocusKept(c) /\ FetchesKept(c) /\ StillHears(c)
    /\ Emitted(p) /\ ~(up /\ c \in attached /\ selected[c] = p)
SendsHistory(c) ==
    /\ Beyond(c) /\ FocusKept(c) /\ FetchesKept(c) /\ DeviceKept(c) /\ (gap[c] => gap'[c])
    /\ pending[c].tok # 0 /\ sst[c] = "ACKED" /\ selected[c] = pending[c].pane
    /\ pending'[c] = pending[c] /\ buffer'[c] = buffer[c] /\ sst'[c] = "HISTORY_APPLIED"
    /\ \E m \in Frame : /\ m.k = "HISTORY" /\ m.tok = pending[c].tok /\ m.pane = pending[c].pane /\ FrameOK(m)
                        /\ m.n < base[c] => gap'[c]
                        /\ Added(wire[c], wire'[c], m)
SendsFetched(c) ==
    /\ Beyond(c) /\ SwitchKept(c) /\ FocusKept(c) /\ DeviceKept(c) /\ (gap[c] => gap'[c])
    /\ \E p \in Panes, m \in Frame :
          /\ selected[c] # p /\ fetches[c][p] # 0
          /\ fetches'[c] = [fetches[c] EXCEPT ![p] = 0]
          /\ m.k = "HISTORY" /\ m.tok = fetches[c][p] /\ m.pane = p /\ FrameOK(m)
          /\ Added(wire[c], wire'[c], m)
Forgets(c) ==
    /\ Beyond(c) /\ NotesKept(c) /\ WireKept(c) /\ SwitchKept(c) /\ FocusKept(c) /\ DeviceKept(c)
    /\ \A p \in Panes : fetches'[c][p] \in {0, fetches[c][p]}
Tells(c, s) ==
    /\ Beyond(c) /\ SwitchKept(c) /\ FetchesKept(c) /\ emitted' = emitted /\ (gap[c] => gap'[c])
    /\ selected'[c] = selected[c]
    /\ s = "RECONNECTED" \/ gap'[c]
    /\ s = "RECONNECTED" => base'[c] = base[c] /\ StillHears(c)
    /\ Added(wire[c], wire'[c], Status(s))
GivesUp(c) ==
    /\ Beyond(c) /\ SwitchKept(c) /\ FetchesKept(c) /\ emitted' = emitted /\ gap'[c]
    /\ Added(wire[c], wire'[c], Status("LOST")) /\ (MovedOff(c, NoPane) => mixed'[c])
Releases(c) ==
    /\ Beyond(c) /\ FetchesKept(c) /\ DeviceKept(c) /\ selected'[c] = selected[c]
    /\ pending[c].tok # 0 /\ pending'[c].tok = 0 /\ buffer'[c] = << >>
    /\ (gap[c] => gap'[c]) /\ (sst[c] = "ACKED" => gap'[c])
    /\ Len(wire'[c]) = Len(wire[c]) + 1 + Len(buffer[c]) /\ Len(wire[c]) \in Nat /\ Len(buffer[c]) \in Nat
    /\ \A i \in 1 .. Len(wire[c]) : wire'[c][i] = wire[c][i]
    /\ wire'[c][Len(wire[c]) + 1] = Resumed(pending[c].tok, pending[c].pane)
    /\ \A i \in 1 .. Len(buffer[c]) : wire'[c][Len(wire[c]) + 1 + i] = Output(pending[c].pane, buffer[c][i])

\* The steps stutter, or are one of these.
ReadsSome(c) ==
    \/ ReadsStatus(c) \/ ReadsLoss(c) \/ Refuses(c) \/ ReadsAck(c) \/ ReadsHistory(c)
    \/ ReadsFetched(c) \/ ReadsResume(c) \/ Holds(c) \/ Displays(c)
AsksSome(c) ==
    \/ Asks(c) \/ AsksLeave(c) \/ (\E p \in Panes : Selects(c, p) \/ AsksFocus(c, p) \/ AsksHistory(c, p))
TimesOutSome(c) == TimesOut(c) \/ \E p \in Panes : GateTimesOut(c, p)
ServedSome(c) ==
    \/ ServedQuietly(c) \/ ServedLeave(c) \/ ServedSelect(c) \/ ServedFocus(c) \/ ServedHistory(c) \/ Drops(c)
ActsSome(c) ==
    \/ (\E p \in Panes : Sends(c, p) \/ HoldsBack(c, p) \/ Unheard(c, p))
    \/ SendsHistory(c) \/ SendsFetched(c) \/ Forgets(c)
    \/ Tells(c, "RECONNECTING") \/ Tells(c, "RECONNECTED") \/ GivesUp(c) \/ Releases(c)
Effect(c) == Stays(c) \/ AsksSome(c) \/ TimesOutSome(c) \/ ReadsSome(c) \/ ServedSome(c) \/ Loses(c) \/ ActsSome(c)

LEMMA LatestExtends ==
    ASSUME NEW S, NEW s \in Seq(S), NEW t \in Seq(S), NEW a \in Seq(S), Joined(s, t, a)
    PROVE  Extended(s, t, FE!Latest(a))
<1>1. PICK d \in Nat : Without(a, FE!Latest(a), d) /\ (d # 0 => Len(FE!Latest(a)) = MaxBuffer)
  BY LatestKeepsEnd
<1> DEFINE r == FE!Latest(a)
<1>2. Len(s) \in Nat /\ Len(t) \in Nat /\ Len(a) = Len(s) + Len(t)
  BY DEF Joined
<1>3. d \in 0 .. Len(s) + Len(t) /\ Len(r) = Len(s) + Len(t) - d /\ (d # 0 => Len(r) = MaxBuffer)
      /\ \A i \in 1 .. Len(r) : r[i] = a[i + d]
  BY <1>1, <1>2 DEF Without
<1> HIDE DEF r
<1>4. \A i \in 1 .. Len(r) : i + d <= Len(s) => r[i] = s[i + d]
  BY <1>2, <1>3 DEF Joined
<1>5. \A i \in 1 .. Len(r) : i + d > Len(s) => r[i] = t[i + d - Len(s)]
  <2> SUFFICES ASSUME NEW i \in 1 .. Len(r), i + d > Len(s) PROVE r[i] = t[i + d - Len(s)]
    OBVIOUS
  <2>1. i + d - Len(s) \in 1 .. Len(t) /\ i + d = Len(s) + (i + d - Len(s))
    BY <1>2, <1>3
  <2> QED
    BY <1>3, <2>1 DEF Joined
<1> QED
  BY <1>2, <1>3, <1>4, <1>5 DEF Extended, r

LEMMA JoinedOne ==
    ASSUME NEW s, NEW t, NEW r, NEW m, Joined(s, t, r), Len(t) = 1, t[1] = m
    PROVE  Added(s, r, m)
<1>1. Len(s) \in Nat /\ Len(r) = Len(s) + 1 /\ \A i \in 1 .. Len(s) : r[i] = s[i]
  BY DEF Joined
<1>2. 1 \in 1 .. Len(t)
  OBVIOUS
<1>3. r[Len(s) + 1] = m
  BY <1>2 DEF Joined
<1> QED
  BY <1>1, <1>3 DEF Added

LEMMA AppendJoins ==
    ASSUME NEW S, NEW s \in Seq(S), NEW m \in S
    PROVE  Append(s, m) \in Seq(S) /\ Joined(s, <<m>>, Append(s, m))
<1>1. Append(s, m) \in Seq(S) /\ Added(s, Append(s, m), m)
  BY AppendAdds
<1>2. Len(<<m>>) = 1 /\ <<m>>[1] = m
  OBVIOUS
<1> QED
  BY <1>1, <1>2 DEF Added, Joined

LEMMA PushPushes ==
    ASSUME NEW b \in Seq(Chunk), NEW o \in Chunk
    PROVE  Pushed(b, o, PushBounded(b, o))
<1>1. MaxBuffer \in Nat \ {0} /\ Len(b) \in Nat
  BY BoundsAssumption, LenProperties
<1>2. CASE Len(b) >= MaxBuffer
  <2>1. b # << >>
    BY <1>1, <1>2, EmptySeq
  <2>2. Tail(b) \in Seq(Chunk) /\ Popped(b, Tail(b))
    BY <2>1, TailPops
  <2>3. Added(Tail(b), Append(Tail(b), o), o)
    BY <2>2, AppendAdds
  <2> DEFINE r == Append(Tail(b), o)
  <2>4. PushBounded(b, o) = r
    BY <1>2 DEF PushBounded
  <2> HIDE DEF r
  <2>5. Len(r) = Len(b) /\ Len(b) # 0 /\ r[Len(b)] = o /\ \A i \in 1 .. Len(b) - 1 : r[i] = b[i + 1]
    BY <1>1, <2>2, <2>3 DEF Added, Popped, r
  <2> QED
    BY <1>1, <2>4, <2>5 DEF Pushed
<1>3. CASE ~(Len(b) >= MaxBuffer)
  BY <1>1, <1>3, AppendAdds DEF PushBounded, Added, Pushed
<1> QED
  BY <1>2, <1>3
-----------------------------------------------------------------------------
(* Every step has one of these effects on each browser.                    *)

LEMMA Tables ==
    ASSUME AInv
    PROVE  /\ requests \in [Clients -> Seq(Requests)] /\ wire \in [Clients -> Seq(Frame)]
           /\ pending \in [Clients -> Transaction] /\ sst \in [Clients -> States] /\ buffer \in [Clients -> Seq(Chunk)]
           /\ selected \in [Clients -> Panes \cup {NoPane}] /\ base \in [Clients -> Int]
           /\ mixed \in [Clients -> BOOLEAN] /\ fetches \in [Clients -> [Panes -> Nat]]
           /\ emitted \in [Panes -> Nat] /\ nextTok \in Nat \ {0} /\ attached \in SUBSET Clients
           /\ tx \in [Clients -> [tok : Nat, pane : Panes \cup {NoPane},
                                  state : {"STABLE", "SELECTING", "ACKED", "HISTORY_APPLIED"}]]
           /\ held \in [Clients -> [on : BOOLEAN, buf : Seq(FE!Item)]]
           /\ historyGates \in [Clients -> [Panes -> [tok : Nat, buf : Seq(FE!Item)]]]
           /\ screen \in [Clients -> [Panes -> Seq(FE!Item)]]
           /\ want \in [Clients -> Panes \cup {NoPane}] /\ connected \in [Clients -> BOOLEAN]
           /\ missed \in [Clients -> BOOLEAN] /\ gap \in [Clients -> BOOLEAN] /\ blurred \in [Clients -> BOOLEAN]
           /\ MachineType /\ SinkType
<1>1. SideType /\ MachineType /\ SinkType /\ TypeOK
  BY AllTypeParts, BrowserParts DEF AInv, Typed
<1> QED
  BY <1>1 DEF SideType, MachineType, SinkType, TypeOK, EntryType, ClientType, BarrierType, HistoryType

LEMMA TurnsAlways ==
    ASSUME AInv, [AllNext]_allVars, NEW c \in Clients
    PROVE  Turns(c)
<1>0. nextTok \in Nat /\ blurred \in [Clients -> BOOLEAN] /\ mixed \in [Clients -> BOOLEAN]
  BY Tables
<1>1. ASSUME NEW d \in Clients, UserStep(d) PROVE Turns(c)
  BY <1>0, <1>1 DEF UserStep, ConnectDevice, DisconnectDevice, SelectPane, StartSelect, Draw, FocusPane, SubscribePanes,
     FetchPaneHistory, gateway, vars, notes, history, Turns
<1>2. ASSUME NEW d \in Clients, Read(d) PROVE Turns(c)
  BY <1>0, <1>2 DEF Read, HearsConnected, HearsDisconnected, HearsFrame, StartSelect, Draw, notes, history, Turns
<1>3. ASSUME NEW d \in Clients, SelectTimeout(d) \/ \E p \in Panes : HistoryGateTimeout(d, p) PROVE Turns(c)
  BY <1>0, <1>3 DEF SelectTimeout, HistoryGateTimeout, vars, notes, history, Turns
<1>a. ASSUME Blur, nextTok' = nextTok PROVE Turns(c)
  <2>1. nextTok <= nextTok'
    BY <1>0, <1>a
  <2>2. (blurred[c] => blurred'[c]) /\ (mixed'[c] => mixed[c] \/ blurred'[c])
    BY <1>a, Zenon DEF Blur
  <2> QED
    BY <2>1, <2>2 DEF Turns
<1>4. ASSUME NEW d \in Clients, Serve(d) PROVE Turns(c)
  BY <1>4, <1>a DEF Serve, Heeds, HandleDeviceConnect, HandleDeviceDisconnect, HandleFocusPane, HandleSubscribePanes, vars
<1>5. ASSUME NEW d \in Clients, LoseSocket(d) PROVE Turns(c)
  BY <1>0, <1>5 DEF LoseSocket, HandleClose, Turns
<1>6. ASSUME NEW d \in Clients, OpenSocket(d) PROVE Turns(c)
  BY <1>0, <1>6 DEF OpenSocket, HandleOpen, notes, history, Turns
<1>7. CASE GatewayStep
  BY <1>7, <1>a DEF GatewayStep, BroadcastTerminalOutput, BroadcastStateSnapshot, RetryConnection, TakeCapture,
     LiveTimerFires, BroadcastTerminalHistory, DropCapture, HandleConnectionClose, GiveUpConnection, HistoryTimerFires
<1>8. CASE UNCHANGED allVars
  BY <1>0, <1>8 DEF allVars, vars, notes, history, Turns
<1> QED
  BY <1>1, <1>2, <1>3, <1>4, <1>5, <1>6, <1>7, <1>8 DEF AllNext, BrowserStep

\* What the gateway keeps when it does nothing but hear of sockets.
LEMMA GatewayIsKept ==
    ASSUME NEW c \in Clients, UNCHANGED <<entry, client, barrier, emitted, history>>
    PROVE  GatewayKept(c)
BY DEF entry, client, barrier, history, GatewayKept, SwitchKept, FocusKept, FetchesKept, DeviceKept, StillHears

LEMMA BrowserIsKept ==
    ASSUME NEW c \in Clients, UNCHANGED browser
    PROVE  BrowserKept(c)
BY DEF browser, machine, BrowserKept, MachineKept, SinksKept

LEMMA UsersStayApart ==
    ASSUME AInv, NEW c \in Clients, NEW d \in Clients, c # d, UserStep(d)
    PROVE  Stays(c)
<1>1. GatewayKept(c) /\ WireKept(c)
  <2>1. UNCHANGED gateway
    BY DEF UserStep, ConnectDevice, DisconnectDevice, SelectPane, FocusPane, SubscribePanes, FetchPaneHistory, gateway, vars
  <2> QED
    BY <2>1, GatewayIsKept DEF gateway, WireKept
<1>2. QueueKept(c) /\ SideKept(c)
  <2>1. \E r : Ask(d, r)
    BY DEF UserStep, ConnectDevice, DisconnectDevice, SelectPane, StartSelect, FocusPane, SubscribePanes, FetchPaneHistory
  <2>2. QueueKept(c)
    BY <2>1, Tables DEF Ask, QueueKept
  <2>3. SideKept(c)
    BY Tables DEF UserStep, ConnectDevice, DisconnectDevice, SelectPane, StartSelect, FocusPane, SubscribePanes,
       FetchPaneHistory, SideKept, StoreKept, NotesKept, store, notes, Note
  <2> QED
    BY <2>2, <2>3
<1>3. MachineKept(c)
  BY Tables DEF UserStep, ConnectDevice, DisconnectDevice, SelectPane, StartSelect, FocusPane, SubscribePanes, FetchPaneHistory,
     FE!Cleanup, FE!EndTransaction, FE!SelectStart, browser, machine, MachineKept
<1>4. SinksKept(c)
  <2>1. UNCHANGED <<historyGates, screen>> \/ \E q \in Panes : \E t : FE!BeginPaneHistoryGate(d, q, t)
    BY DEF UserStep, ConnectDevice, DisconnectDevice, SelectPane, StartSelect, FocusPane, SubscribePanes, FetchPaneHistory,
       FE!SelectStart, FE!sinks, browser
  <2>2. ASSUME NEW q \in Panes, NEW t, FE!BeginPaneHistoryGate(d, q, t) PROVE SinksKept(c)
    BY <2>2, Tables DEF FE!BeginPaneHistoryGate, FE!Write, SinksKept
  <2> QED
    BY <2>1, <2>2 DEF SinksKept
<1> QED
  BY <1>1, <1>2, <1>3, <1>4 DEF Stays, BrowserKept

LEMMA AskAdds ==
    ASSUME AInv, NEW c \in Clients, NEW r \in Requests, Ask(c, r)
    PROVE  Added(requests[c], requests'[c], r)
<1>1. requests'[c] = Append(requests[c], r) /\ requests[c] \in Seq(Requests)
  BY Tables DEF Ask
<1> QED
  BY <1>1, AppendAdds

LEMMA WriteJoins ==
    ASSUME AInv, NEW c \in Clients, NEW p \in Panes, NEW ws \in Seq(FE!Item), FE!Write(c, p, ws)
    PROVE  Joined(screen[c][p], ws, screen'[c][p]) /\ \A q \in Panes : q # p => screen'[c][q] = screen[c][q]
<1>1. screen \in [Clients -> [Panes -> Seq(FE!Item)]] /\ screen[c] \in [Panes -> Seq(FE!Item)]
  BY Tables
<1>2. screen'[c] = [screen[c] EXCEPT ![p] = screen[c][p] \o ws]
  BY <1>1 DEF FE!Write
<1>3. Joined(screen[c][p], ws, screen[c][p] \o ws)
  BY <1>1, ConcatJoins
<1> QED
  BY <1>1, <1>2, <1>3

LEMMA EndsTransaction ==
    ASSUME AInv, NEW c \in Clients, FE!EndTransaction(c)
    PROVE  Ended(c)
BY Tables DEF FE!EndTransaction, FE!NoTransaction, FE!Flowing, Ended

LEMMA SelectEffect ==
    ASSUME AInv, NEW c \in Clients, NEW p \in Panes, StartSelect(c, p)
    PROVE  /\ nextTok' = nextTok + 1 /\ SinksKept(c)
           /\ tx'[c] = [tok |-> nextTok, pane |-> p, state |-> "SELECTING"] /\ held'[c].buf = << >>
           /\ want'[c] = p /\ ~missed'[c]
           /\ Added(requests[c], requests'[c], Request("SELECT", nextTok, p, {}))
<1>1. Added(requests[c], requests'[c], Request("SELECT", nextTok, p, {}))
  BY Tables, RequestTypes, AskAdds DEF StartSelect
<1> QED
  BY <1>1, Tables DEF StartSelect, Draw, FE!SelectStart, FE!sinks, SinksKept

LEMMA UserEffect ==
    ASSUME AInv, NEW c \in Clients, UserStep(c)
    PROVE  AsksSome(c)
<1>0. GatewayKept(c) /\ WireKept(c)
  <2>1. UNCHANGED gateway
    BY DEF UserStep, ConnectDevice, DisconnectDevice, SelectPane, FocusPane, SubscribePanes, FetchPaneHistory, gateway, vars
  <2> QED
    BY <2>1, GatewayIsKept DEF gateway, WireKept
<1>1. CASE ConnectDevice(c)
  <2>1. Added(requests[c], requests'[c], Connect)
    BY <1>1, RequestTypes, AskAdds DEF ConnectDevice
  <2>2. Connect.k = "CONNECT" /\ RequestOK(Connect)
    BY DEF Connect, Request, RequestOK
  <2>3. BrowserKept(c) /\ SideKept(c)
    BY <1>1, BrowserIsKept DEF ConnectDevice, notes, SideKept, StoreKept, NotesKept
  <2> QED
    BY <1>0, <2>1, <2>2, <2>3, RequestTypes DEF AsksSome, Asks
<1>2. CASE DisconnectDevice(c)
  <2>1. Added(requests[c], requests'[c], Disconnect)
    BY <1>2, RequestTypes, AskAdds DEF DisconnectDevice
  <2>2. Ended(c)
    BY <1>2, EndsTransaction DEF DisconnectDevice, FE!Cleanup
  <2>3. SinksKept(c) /\ SideKept(c)
    BY <1>2 DEF DisconnectDevice, notes, SinksKept, SideKept, StoreKept, NotesKept
  <2> QED
    BY <1>0, <2>1, <2>2, <2>3 DEF AsksSome, AsksLeave
<1>3. ASSUME NEW p \in Panes, SelectPane(c, p) PROVE AsksSome(c)
  <2>1. Selects(c, p)
    BY <1>0, <1>3, SelectEffect, Tables DEF SelectPane, Selects
  <2> QED
    BY <2>1 DEF AsksSome
<1>4. ASSUME NEW p \in Panes, FocusPane(c, p) PROVE AsksSome(c)
  <2>1. Added(requests[c], requests'[c], Request("FOCUS", 0, p, {}))
    BY <1>4, RequestTypes, AskAdds DEF FocusPane
  <2>2. BrowserKept(c)
    BY <1>4, BrowserIsKept DEF FocusPane
  <2>3. AsksFocus(c, p)
    BY <1>0, <1>4, <2>1, <2>2, Tables DEF FocusPane, AsksFocus, Note
  <2> QED
    BY <2>3 DEF AsksSome
<1>5. ASSUME NEW p \in Panes, FetchPaneHistory(c, p) PROVE AsksSome(c)
  <2>1. Added(requests[c], requests'[c], Request("FETCH", nextTok, p, {}))
    BY <1>5, Tables, RequestTypes, AskAdds DEF FetchPaneHistory
  <2>2. MachineKept(c) /\ SideKept(c) /\ nextTok' = nextTok + 1
    BY <1>5 DEF FetchPaneHistory, Draw, machine, store, notes, MachineKept, SideKept, StoreKept, NotesKept
  <2>3. historyGates[c][p].buf \in Seq(FE!Item)
    BY Tables, GateType
  <2>4. Joined(screen[c][p], historyGates[c][p].buf, screen'[c][p]) /\ \A q \in Panes : q # p => screen'[c][q] = screen[c][q]
    BY <1>5, <2>3, WriteJoins DEF FetchPaneHistory, FE!BeginPaneHistoryGate
  <2>5. historyGates'[c] = [historyGates[c] EXCEPT ![p] = [tok |-> nextTok, buf |-> << >>]]
    BY <1>5, Tables DEF FetchPaneHistory, FE!BeginPaneHistoryGate
  <2>6. /\ historyGates'[c][p] = [tok |-> nextTok, buf |-> << >>]
        /\ \A q \in Panes : q # p => historyGates'[c][q] = historyGates[c][q]
    BY <2>5, Tables
  <2>7. AsksHistory(c, p)
    BY <1>0, <2>1, <2>2, <2>4, <2>6 DEF AsksHistory, Elsewhere
  <2> QED
    BY <2>7 DEF AsksSome
<1>6. ASSUME NEW S \in SUBSET Panes, SubscribePanes(c, S) PROVE AsksSome(c)
  <2> DEFINE r == Request("SUBSCRIBE", 0, NoPane, S)
  <2>1. Added(requests[c], requests'[c], r) /\ r \in Requests
    BY <1>6, RequestTypes, AskAdds DEF SubscribePanes
  <2>2. r.k = "SUBSCRIBE" /\ RequestOK(r)
    BY DEF Request, RequestOK
  <2>3. BrowserKept(c) /\ SideKept(c)
    BY <1>6, BrowserIsKept DEF SubscribePanes, store, notes, SideKept, StoreKept, NotesKept
  <2> HIDE DEF r
  <2> QED
    BY <1>0, <2>1, <2>2, <2>3 DEF AsksSome, Asks
<1> QED
  BY <1>1, <1>2, <1>3, <1>4, <1>5, <1>6 DEF UserStep

LEMMA TimerEffect ==
    ASSUME AInv, NEW c \in Clients, NEW d \in Clients, SelectTimeout(d) \/ \E p \in Panes : HistoryGateTimeout(d, p)
    PROVE  Stays(c) \/ TimesOutSome(c)
<1>1. CASE SelectTimeout(d)
  <2>1. UNCHANGED vars /\ UNCHANGED store /\ UNCHANGED <<requests, missed>> /\ gap' = Note(gap, d) /\ FE!EndTransaction(d)
        /\ UNCHANGED <<historyGates, screen>>
    BY <1>1 DEF SelectTimeout, FE!Timeout, FE!sinks
  <2>2. GatewayKept(c) /\ WireKept(c) /\ QueueKept(c) /\ SinksKept(c) /\ StoreKept(c) /\ missed'[c] = missed[c]
    BY <2>1, GatewayIsKept DEF vars, store, WireKept, QueueKept, SinksKept, StoreKept
  <2>3. CASE c = d
    <3>1. Ended(c) /\ gap'[c]
      BY <2>1, <2>3, EndsTransaction, Tables DEF Note
    <3> QED
      BY <2>2, <3>1 DEF TimesOutSome, TimesOut
  <2>4. CASE c # d
    <3>1. MachineKept(c) /\ gap'[c] = gap[c]
      BY <2>1, <2>4, Tables DEF FE!EndTransaction, MachineKept, Note
    <3> QED
      BY <2>2, <3>1 DEF Stays, SideKept, NotesKept, BrowserKept
  <2> QED
    BY <2>3, <2>4
<1>2. ASSUME NEW p \in Panes, HistoryGateTimeout(d, p) PROVE Stays(c) \/ TimesOutSome(c)
  <2>1. UNCHANGED vars /\ UNCHANGED store /\ UNCHANGED requests /\ UNCHANGED notes /\ UNCHANGED machine
        /\ FE!Write(d, p, historyGates[d][p].buf) /\ historyGates' = [historyGates EXCEPT ![d][p] = FE!NoGate]
    BY <1>2 DEF HistoryGateTimeout, FE!HistoryGateTimeout
  <2>2. GatewayKept(c) /\ WireKept(c) /\ QueueKept(c) /\ SideKept(c) /\ MachineKept(c)
    BY <2>1, GatewayIsKept DEF vars, store, notes, machine, WireKept, QueueKept, MachineKept, SideKept, StoreKept, NotesKept
  <2>3. CASE c = d
    <3>1. historyGates[c][p].buf \in Seq(FE!Item)
      BY Tables, GateType
    <3>2. Joined(screen[c][p], historyGates[c][p].buf, screen'[c][p]) /\ \A q \in Panes : q # p => screen'[c][q] = screen[c][q]
      BY <2>1, <2>3, <3>1, WriteJoins
    <3>3. historyGates'[c] = [historyGates[c] EXCEPT ![p] = FE!NoGate]
      BY <2>1, <2>3, Tables
    <3>4. /\ historyGates'[c][p].tok = 0 /\ historyGates'[c][p].buf = << >>
          /\ \A q \in Panes : q # p => historyGates'[c][q] = historyGates[c][q]
      BY <3>3, Tables DEF FE!NoGate
    <3>5. GateTimesOut(c, p)
      BY <2>2, <3>2, <3>4 DEF GateTimesOut, Elsewhere
    <3> QED
      BY <3>5 DEF TimesOutSome
  <2>4. CASE c # d
    <3>1. SinksKept(c)
      BY <2>1, <2>4, Tables DEF FE!Write, SinksKept
    <3> QED
      BY <2>2, <3>1 DEF Stays, BrowserKept
  <2> QED
    BY <2>3, <2>4
<1> QED
  BY <1>1, <1>2

\* What the state machine does with a frame.
LEMMA AckEffect ==
    ASSUME AInv, NEW c \in Clients, NEW t \in Nat, FE!TakesAck(c, t), FE!SwitchAck(c, t)
    PROVE  /\ Advanced(c, "ACKED") /\ historyGates'[c] = historyGates[c] /\ screen'[c][tx[c].pane] = << >>
           /\ \A q \in Panes : q # tx[c].pane => screen'[c][q] = screen[c][q]
<1>1. /\ tx' = [tx EXCEPT ![c].state = "ACKED"] /\ screen' = [screen EXCEPT ![c][tx[c].pane] = << >>]
      /\ held' = held /\ historyGates' = historyGates
  BY DEF FE!SwitchAck
<1>2. tx[c].pane \in Panes
  BY Tables DEF FE!TakesAck, FE!Awaits, MachineType
<1>3. screen'[c] = [screen[c] EXCEPT ![tx[c].pane] = << >>] /\ screen[c] \in [Panes -> Seq(FE!Item)]
  BY <1>1, Tables
<1>4. tx'[c] = [tx[c] EXCEPT !.state = "ACKED"]
      /\ tx[c] \in [tok : Nat, pane : Panes \cup {NoPane}, state : {"STABLE", "SELECTING", "ACKED", "HISTORY_APPLIED"}]
  BY <1>1, Tables
<1> QED
  BY <1>1, <1>2, <1>3, <1>4 DEF Advanced

LEMMA HistoryEffect ==
    ASSUME AInv, NEW c \in Clients, NEW t \in Nat, NEW p \in Panes, NEW n \in Nat,
           FE!ForTransaction(c, t, p), FE!TermHistory(c, t, p, n)
    PROVE  /\ Advanced(c, "HISTORY_APPLIED") /\ historyGates'[c] = historyGates[c] /\ Elsewhere(c, tx[c].pane)
           /\ Added(screen[c][tx[c].pane], screen'[c][tx[c].pane], FE!Past(p, n))
<1>1. /\ tx' = [tx EXCEPT ![c].state = "HISTORY_APPLIED"] /\ FE!Write(c, tx[c].pane, <<FE!Past(p, n)>>)
      /\ held' = held /\ historyGates' = historyGates
  BY DEF FE!TermHistory, FE!ForTransaction
<1>2. tx[c].pane \in Panes
  BY Tables DEF FE!ForTransaction, FE!TakesHistory, FE!Awaits, MachineType
<1>3. tx'[c] = [tx[c] EXCEPT !.state = "HISTORY_APPLIED"]
      /\ tx[c] \in [tok : Nat, pane : Panes \cup {NoPane}, state : {"STABLE", "SELECTING", "ACKED", "HISTORY_APPLIED"}]
  BY <1>1, Tables
<1>4. <<FE!Past(p, n)>> \in Seq(FE!Item) /\ Len(<<FE!Past(p, n)>>) = 1 /\ <<FE!Past(p, n)>>[1] = FE!Past(p, n)
  BY ItemTypes
<1> DEFINE ws == <<FE!Past(p, n)>>
<1> HIDE DEF ws
<1>5. /\ Joined(screen[c][tx[c].pane], ws, screen'[c][tx[c].pane])
      /\ \A q \in Panes : q # tx[c].pane => screen'[c][q] = screen[c][q]
  BY <1>1, <1>2, <1>4, WriteJoins DEF ws
<1>6. Added(screen[c][tx[c].pane], screen'[c][tx[c].pane], FE!Past(p, n))
  <2>1. Len(ws) = 1 /\ ws[1] = FE!Past(p, n)
    BY <1>4 DEF ws
  <2> QED
    BY <1>5, <2>1, JoinedOne
<1> QED
  BY <1>1, <1>3, <1>5, <1>6 DEF Advanced, Elsewhere

LEMMA FetchedEffect ==
    ASSUME AInv, NEW c \in Clients, NEW p \in Panes, NEW n \in Nat, FE!DispatchPaneHistory(c, p, n)
    PROVE  /\ Elsewhere(c, p) /\ historyGates'[c][p].tok = 0 /\ historyGates'[c][p].buf = << >>
           /\ Fronted(historyGates[c][p].buf, screen'[c][p], FE!Past(p, n))
<1>1. historyGates[c][p].buf \in Seq(FE!Item) /\ FE!Past(p, n) \in FE!Item
  BY Tables, GateType, ItemTypes
<1>2. Fronted(historyGates[c][p].buf, <<FE!Past(p, n)>> \o historyGates[c][p].buf, FE!Past(p, n))
  BY <1>1, PushFronts
<1>3. /\ screen'[c] = [screen[c] EXCEPT ![p] = <<FE!Past(p, n)>> \o historyGates[c][p].buf]
      /\ historyGates'[c] = [historyGates[c] EXCEPT ![p] = FE!NoGate]
  BY Tables DEF FE!DispatchPaneHistory
<1>4. /\ screen[c] \in [Panes -> Seq(FE!Item)] /\ historyGates[c] \in [Panes -> [tok : Nat, buf : Seq(FE!Item)]]
  BY Tables
<1> QED
  BY <1>2, <1>3, <1>4 DEF Elsewhere, FE!NoGate

LEMMA DispatchEffect ==
    ASSUME AInv, NEW c \in Clients, NEW p \in Panes, NEW b \in Seq(FE!Item), FE!DispatchPaneOutput(c, p, b)
    PROVE  Dispatched(c, p, b)
<1>0. /\ historyGates[c] \in [Panes -> [tok : Nat, buf : Seq(FE!Item)]] /\ SinkType
  BY Tables
<1>1. CASE historyGates[c][p].tok # 0
  <2> DEFINE g == historyGates[c][p].buf
             r == FE!Latest(g \o b)
  <2>1. g \in Seq(FE!Item)
    BY <1>0, GateType
  <2>2. g \o b \in Seq(FE!Item) /\ Joined(g, b, g \o b)
    BY <2>1, ConcatJoins
  <2>3. Extended(g, b, r) /\ r \in Seq(FE!Item)
    BY <2>1, <2>2, LatestExtends, LatestKeepsEnd
  <2>4. historyGates' = [historyGates EXCEPT ![c][p].buf = r] /\ screen' = screen
    BY <1>1 DEF FE!DispatchPaneOutput
  <2>a. SinkType /\ r \in Seq(FE!Item) /\ historyGates' = [historyGates EXCEPT ![c][p].buf = r]
    BY <1>0, <2>3, <2>4
  <2> HIDE DEF r, g
  <2>5. historyGates'[c] = [historyGates[c] EXCEPT ![p] = [tok |-> historyGates[c][p].tok, buf |-> r]]
    <3>1. historyGates \in [Clients -> [Panes -> [tok : Nat, buf : Seq(FE!Item)]]]
      BY <2>a DEF SinkType
    <3>2. [historyGates[c][p] EXCEPT !.buf = r] = [tok |-> historyGates[c][p].tok, buf |-> r]
      BY <3>1
    <3>3. historyGates'[c] = [historyGates[c] EXCEPT ![p] = [historyGates[c][p] EXCEPT !.buf = r]]
      BY <2>a, <3>1
    <3> QED
      BY <3>2, <3>3
  <2>6. historyGates'[c][p].tok = historyGates[c][p].tok /\ historyGates'[c][p].buf = r
        /\ \A q \in Panes : q # p => historyGates'[c][q] = historyGates[c][q]
    BY <1>0, <2>5
  <2> QED
    BY <1>1, <2>3, <2>4, <2>6 DEF Dispatched, Elsewhere, g
<1>2. CASE historyGates[c][p].tok = 0
  <2>1. FE!Write(c, p, b) /\ historyGates' = historyGates
    BY <1>2 DEF FE!DispatchPaneOutput
  <2>2. Joined(screen[c][p], b, screen'[c][p]) /\ \A q \in Panes : q # p => screen'[c][q] = screen[c][q]
    BY <2>1, WriteJoins
  <2> QED
    BY <1>2, <2>1, <2>2 DEF Dispatched, Elsewhere
<1> QED
  BY <1>1, <1>2

LEMMA HoldEffect ==
    ASSUME AInv, NEW c \in Clients, NEW p \in Panes, NEW o \in Chunk, FE!HoldsBack(c, p), FE!TermOutput(c, p, o)
    PROVE  /\ SinksKept(c) /\ tx[c].tok # 0 /\ tx[c].pane = p /\ tx'[c] = tx[c]
           /\ Extended(held[c].buf, <<FE!Live(o)>>, held'[c].buf)
<1>1. held[c].on /\ tx[c].tok # 0 /\ held[c].buf \in Seq(FE!Item) /\ tx[c].pane = p /\ MachineType
  BY Tables DEF FE!HoldsBack, MachineType, FE!MachineOK
<1>2. FE!Live(o) \in FE!Item
  BY ItemTypes
<1> DEFINE x == FE!Live(o)
           a == Append(held[c].buf, x)
<1>3. a \in Seq(FE!Item) /\ Joined(held[c].buf, <<x>>, a) /\ <<x>> \in Seq(FE!Item)
  BY <1>1, <1>2, AppendJoins
<1>4. Extended(held[c].buf, <<x>>, FE!Latest(a)) /\ FE!Latest(a) \in Seq(FE!Item)
  BY <1>1, <1>3, LatestExtends, LatestKeepsEnd
<1>5. /\ held' = [held EXCEPT ![c].buf = FE!Latest(a)]
      /\ tx' = tx /\ timer' = timer /\ historyGates' = historyGates /\ screen' = screen
  BY DEF FE!TermOutput, FE!sinks
<1> HIDE DEF a, x
<1>6. held'[c].buf = FE!Latest(a)
  BY <1>1, <1>4, <1>5, HoldType
<1> QED
  BY <1>1, <1>4, <1>5, <1>6 DEF SinksKept, x

LEMMA FrameEffect ==
    ASSUME AInv, NEW c \in Clients, Reads(c), StoreKept(c), wire[c][1] \in Frame, FrameOK(wire[c][1]),
           HearsFrame(c, wire[c][1])
    PROVE  ReadsSome(c)
<1> DEFINE m == wire[c][1]
<1>1. m.tok \in Nat /\ m.n \in Nat
  BY DEF Frame
<1>2. m.k \in {"OUTPUT", "HISTORY"} => m.pane \in Panes /\ m.src \in Panes
  BY DEF FrameOK
<1>3. \/ m.k = "ACK" /\ FE!SwitchAck(c, m.tok)
      \/ m.k = "HISTORY" /\ FE!TermHistory(c, m.tok, m.pane, m.n)
      \/ m.k = "RESUME" /\ FE!LiveResume(c, m.tok)
      \/ m.k = "OUTPUT" /\ FE!TermOutput(c, m.pane, [src |-> m.src, n |-> m.n])
      \/ m.k = "RECONNECTING" /\ UNCHANGED browser
  BY DEF HearsFrame
<1>a. ASSUME UNCHANGED <<tx, timer, held, historyGates, screen>> PROVE BrowserKept(c)
  BY <1>a DEF BrowserKept, MachineKept, SinksKept
<1>4. CASE m.k = "ACK" /\ FE!SwitchAck(c, m.tok)
  <2>1. CASE FE!TakesAck(c, m.tok)
    BY <1>1, <1>4, <2>1, AckEffect DEF ReadsSome, ReadsAck
  <2>2. CASE ~FE!TakesAck(c, m.tok)
    <3>1. BrowserKept(c)
      BY <1>4, <1>a, <2>2 DEF FE!SwitchAck, FE!machine, FE!sinks
    <3> QED
      BY <1>4, <2>2, <3>1 DEF ReadsSome, Refuses
  <2> QED
    BY <2>1, <2>2
<1>5. CASE m.k = "HISTORY" /\ FE!TermHistory(c, m.tok, m.pane, m.n)
  <2>0. m.pane \in Panes
    BY <1>2, <1>5
  <2>1. CASE historyGates[c][m.pane].tok = m.tok
    <3>1. FE!DispatchPaneHistory(c, m.pane, m.n) /\ MachineKept(c)
      BY <1>5, <2>1 DEF FE!TermHistory, FE!ForTransaction, FE!machine, MachineKept
    <3> QED
      BY <1>1, <1>5, <2>0, <2>1, <3>1, FetchedEffect DEF ReadsSome, ReadsFetched
  <2>2. CASE FE!ForTransaction(c, m.tok, m.pane)
    <3>1. FE!TakesHistory(c, m.tok) /\ historyGates[c][m.pane].tok # m.tok
      BY <2>2 DEF FE!ForTransaction
    <3>2. /\ Advanced(c, "HISTORY_APPLIED") /\ historyGates'[c] = historyGates[c] /\ Elsewhere(c, tx[c].pane)
          /\ Added(screen[c][tx[c].pane], screen'[c][tx[c].pane], FE!Past(m.pane, m.n))
      BY <1>1, <1>5, <2>0, <2>2, HistoryEffect
    <3> QED
      BY <1>5, <3>1, <3>2 DEF ReadsSome, ReadsHistory
  <2>3. CASE historyGates[c][m.pane].tok # m.tok /\ ~FE!ForTransaction(c, m.tok, m.pane)
    <3>1. BrowserKept(c) /\ ~FE!TakesHistory(c, m.tok)
      BY <1>5, <1>a, <2>3 DEF FE!TermHistory, FE!ForTransaction, FE!machine, FE!sinks
    <3> QED
      BY <1>5, <2>3, <3>1 DEF ReadsSome, Refuses
  <2> QED
    BY <2>1, <2>2, <2>3
<1>6. CASE m.k = "RESUME" /\ FE!LiveResume(c, m.tok)
  <2>1. CASE FE!TakesResume(c, m.tok)
    <3>1. tx[c].pane \in Panes /\ held[c].buf \in Seq(FE!Item)
      BY <2>1, Tables DEF FE!TakesResume, FE!Awaits, MachineType
    <3>2. FE!EndTransaction(c) /\ FE!DispatchPaneOutput(c, tx[c].pane, held[c].buf)
      BY <1>6, <2>1 DEF FE!LiveResume
    <3> QED
      BY <1>6, <2>1, <3>1, <3>2, EndsTransaction, DispatchEffect DEF ReadsSome, ReadsResume
  <2>2. CASE ~FE!TakesResume(c, m.tok)
    <3>1. BrowserKept(c)
      BY <1>6, <1>a, <2>2 DEF FE!LiveResume, FE!machine, FE!sinks
    <3> QED
      BY <1>6, <2>2, <3>1 DEF ReadsSome, Refuses
  <2> QED
    BY <2>1, <2>2
<1>7. CASE m.k = "OUTPUT" /\ FE!TermOutput(c, m.pane, [src |-> m.src, n |-> m.n])
  <2> DEFINE o == [src |-> m.src, n |-> m.n]
  <2>0. m.pane \in Panes /\ o \in Chunk
    BY <1>1, <1>2, <1>7 DEF Chunk
  <2>a. FrameItem(m) = FE!Live(o) /\ FE!Live(o) \in FE!Item
    BY <2>0, ItemTypes DEF FrameItem
  <2> HIDE DEF o
  <2>1. CASE FE!HoldsBack(c, m.pane)
    <3>1. /\ SinksKept(c) /\ tx[c].tok # 0 /\ tx[c].pane = m.pane /\ tx'[c] = tx[c]
          /\ Extended(held[c].buf, <<FE!Live(o)>>, held'[c].buf)
      BY <1>7, <2>0, <2>1, HoldEffect DEF o
    <3> QED
      BY <1>7, <2>a, <3>1 DEF ReadsSome, Holds
  <2>2. CASE ~FE!HoldsBack(c, m.pane)
    <3>1. FE!DispatchPaneOutput(c, m.pane, <<FE!Live(o)>>) /\ MachineKept(c)
      BY <1>7, <2>2 DEF FE!TermOutput, FE!machine, MachineKept, o
    <3>2. <<FE!Live(o)>> \in Seq(FE!Item)
      BY <2>a
    <3>3. Dispatched(c, m.pane, <<FE!Live(o)>>)
      BY <2>0, <3>1, <3>2, DispatchEffect
    <3>4. tx[c].tok = 0 \/ tx[c].pane # m.pane
      BY <2>2, Tables DEF FE!HoldsBack, MachineType, FE!MachineOK
    <3> QED
      BY <1>7, <2>a, <3>1, <3>3, <3>4 DEF ReadsSome, Displays
  <2> QED
    BY <2>1, <2>2
<1>8. CASE m.k = "RECONNECTING" /\ UNCHANGED browser
  <2>1. ReadsStatus(c)
    BY <1>8, BrowserIsKept DEF ReadsStatus, StoreKept
  <2> QED
    BY <2>1 DEF ReadsSome
<1> QED
  BY <1>3, <1>4, <1>5, <1>6, <1>7, <1>8

LEMMA ReadEffect ==
    ASSUME AInv, NEW c \in Clients, Read(c)
    PROVE  ReadsSome(c) \/ \E p \in Panes : Selects(c, p)
<1> DEFINE m == wire[c][1]
<1>1. /\ Head(wire[c]) = m /\ m \in Frame /\ FrameOK(m) /\ Popped(wire[c], Tail(wire[c]))
      /\ wire'[c] = Tail(wire[c])
  BY FirstFrame, Tables DEF Read
<1>2. GatewayKept(c)
  <2>1. UNCHANGED <<entry, client, barrier, emitted, history>>
    BY DEF Read
  <2> QED
    BY <2>1, GatewayIsKept
<1>3. \/ m.k \in {"CONNECTED", "RECONNECTED"} /\ HearsConnected(c)
      \/ m.k \in {"DISCONNECTED", "LOST"} /\ HearsDisconnected(c, m.k)
      \/ HearsFrame(c, m)
  BY <1>1 DEF Read
<1>a. ASSUME UNCHANGED <<want, requests, notes>> PROVE Reads(c)
  BY <1>1, <1>2, <1>a DEF notes, Reads, NotesKept, QueueKept
<1>4. CASE m.k \in {"CONNECTED", "RECONNECTED"} /\ HearsConnected(c)
  <2>1. connected'[c]
    BY <1>4, Tables DEF HearsConnected, Note
  <2>2. CASE MayReselect(c) /\ StartSelect(c, want[c])
    <3>1. want[c] \in Panes /\ tx[c].tok = 0
      BY <2>2, Tables DEF MayReselect
    <3>2. Selects(c, want[c])
      BY <1>1, <1>2, <1>4, <2>1, <2>2, <3>1, SelectEffect DEF Selects
    <3> QED
      BY <3>1, <3>2
  <2>3. CASE UNCHANGED <<browser, want, requests, nextTok, notes>>
    <3>1. CASE MayReselect(c) /\ StartSelect(c, want[c])
      BY <2>2, <3>1
    <3>2. CASE ~MayReselect(c)
      <4>1. ~connected[c] => want[c] = NoPane
        BY <3>2 DEF MayReselect, AInv, Formed, FormedFor
      <4> QED
        BY <1>a, <1>4, <2>1, <2>3, <4>1, BrowserIsKept DEF ReadsSome, ReadsStatus
    <3> QED
      BY <1>4, <3>1, <3>2 DEF HearsConnected
  <2> QED
    BY <1>4, <2>2, <2>3 DEF HearsConnected
<1>5. CASE m.k \in {"DISCONNECTED", "LOST"} /\ HearsDisconnected(c, m.k)
  <2>1. ~connected'[c] /\ Ended(c) /\ screen'[c] = screen[c]
    BY <1>5, Tables, EndsTransaction DEF HearsDisconnected, FE!Cleanup, FE!CleanupDevicePaneState
  <2>2. \A p \in Panes : \/ historyGates'[c][p] = historyGates[c][p]
                         \/ historyGates'[c][p].tok = 0 /\ historyGates'[c][p].buf = << >>
    <3>1. CASE FE!CleanupDevicePaneState(c)
      <4>1. historyGates'[c] = [p \in Panes |-> FE!NoGate]
        BY <3>1, Tables DEF FE!CleanupDevicePaneState
      <4> QED
        BY <4>1 DEF FE!NoGate
    <3> QED
      BY <1>5, <3>1 DEF HearsDisconnected
  <2>3. Reads(c)
    BY <1>a, <1>5 DEF HearsDisconnected
  <2> QED
    BY <1>5, <2>1, <2>2, <2>3 DEF ReadsSome, ReadsLoss
<1>6. CASE HearsFrame(c, m)
  <2>1. Reads(c) /\ StoreKept(c)
    BY <1>a, <1>6 DEF HearsFrame, StoreKept, Reads
  <2> QED
    BY <1>1, <1>6, <2>1, FrameEffect
<1> QED
  BY <1>3, <1>4, <1>5, <1>6

LEMMA ReadersStayApart ==
    ASSUME AInv, NEW c \in Clients, NEW d \in Clients, c # d, Read(d)
    PROVE  Stays(c)
<1> DEFINE m == Head(wire[d])
<1>0. m \in Frame /\ FrameOK(m)
  BY FirstFrame DEF Read
<1>1. GatewayKept(c)
  <2>1. UNCHANGED <<entry, client, barrier, emitted, history>>
    BY DEF Read
  <2> QED
    BY <2>1, GatewayIsKept
<1>2. WireKept(c)
  BY Tables DEF Read, WireKept
<1>3. HearsConnected(d) \/ HearsDisconnected(d, m.k) \/ HearsFrame(d, m)
  BY DEF Read
<1>4. QueueKept(c) /\ SideKept(c)
  BY <1>3, Tables DEF HearsConnected, HearsDisconnected, HearsFrame, StartSelect, Ask, Note, notes, QueueKept, SideKept,
     StoreKept, NotesKept
<1>5. CASE HearsConnected(d)
  <2>1. BrowserKept(c)
    BY <1>5, Tables DEF HearsConnected, StartSelect, FE!SelectStart, FE!sinks, browser, machine, BrowserKept, MachineKept, SinksKept
  <2> QED
    BY <1>1, <1>2, <1>4, <2>1 DEF Stays
<1>6. CASE HearsDisconnected(d, m.k)
  <2>1. BrowserKept(c)
    BY <1>6, Tables DEF HearsDisconnected, FE!Cleanup, FE!EndTransaction, FE!CleanupDevicePaneState, BrowserKept, MachineKept, SinksKept
  <2> QED
    BY <1>1, <1>2, <1>4, <2>1 DEF Stays
<1>7. CASE HearsFrame(d, m)
  <2>1. tx'[c] = tx[c]
    BY <1>7, Tables DEF HearsFrame, FE!SwitchAck, FE!TermHistory, FE!LiveResume, FE!TermOutput, FE!EndTransaction, FE!machine,
       browser, machine
  <2>2. held'[c] = held[c]
    BY <1>7, Tables DEF HearsFrame, FE!SwitchAck, FE!TermHistory, FE!LiveResume, FE!TermOutput, FE!EndTransaction, FE!machine,
       browser, machine
  <2>3. historyGates'[c] = historyGates[c]
    BY <1>7, Tables DEF HearsFrame, FE!SwitchAck, FE!TermHistory, FE!DispatchPaneHistory, FE!LiveResume, FE!TermOutput,
       FE!DispatchPaneOutput, FE!sinks, browser
  <2>4. screen'[c] = screen[c]
    BY <1>7, Tables DEF HearsFrame, FE!SwitchAck, FE!TermHistory, FE!DispatchPaneHistory, FE!LiveResume, FE!TermOutput,
       FE!DispatchPaneOutput, FE!Write, FE!sinks, browser
  <2> QED
    BY <1>1, <1>2, <1>4, <2>1, <2>2, <2>3, <2>4 DEF Stays, BrowserKept, MachineKept, SinksKept
<1> QED
  BY <1>3, <1>5, <1>6, <1>7

LEMMA SocketEffect ==
    ASSUME AInv, NEW c \in Clients, NEW d \in Clients, LoseSocket(d) \/ OpenSocket(d)
    PROVE  Stays(c) \/ Loses(c) \/ Asks(c)
<1>1. CASE LoseSocket(d)
  <2>0. BrowserKept(c) /\ StoreKept(c) /\ emitted' = emitted
    BY <1>1, BrowserIsKept DEF LoseSocket, HandleClose, store, StoreKept
  <2>1. CASE c = d
    BY <1>1, <2>0, <2>1, Tables DEF LoseSocket, HandleClose, ForgetBarrier, NoTx, Note, Loses
  <2>2. CASE c # d
    <3>1. QueueKept(c) /\ WireKept(c) /\ SideKept(c) /\ SwitchKept(c) /\ FetchesKept(c)
      BY <1>1, <2>0, <2>2, Tables DEF LoseSocket, HandleClose, ForgetBarrier, Note, QueueKept, WireKept, SideKept, NotesKept,
         SwitchKept, FetchesKept
    <3>2. FocusKept(c)
      BY <1>1, <2>2, Tables DEF LoseSocket, HandleClose, FocusKept
    <3>3. StillHears(c)
      BY <1>1, <2>2 DEF LoseSocket, HandleClose, KeepEntryFor, StillHears
    <3> QED
      BY <2>0, <3>1, <3>2, <3>3 DEF Stays, GatewayKept, DeviceKept
  <2> QED
    BY <2>1, <2>2
<1>2. CASE OpenSocket(d)
  <2>0. GatewayKept(c) /\ BrowserKept(c) /\ SideKept(c) /\ WireKept(c)
    <3>1. UNCHANGED <<entry, client, barrier, emitted, history, wire>>
      BY <1>2 DEF OpenSocket, HandleOpen
    <3> QED
      BY <1>2, <3>1, GatewayIsKept, BrowserIsKept DEF OpenSocket, store, notes, WireKept, SideKept, StoreKept, NotesKept
  <2>1. CASE requests' = [requests EXCEPT ![d] = <<Connect>> \o @]
    <3>1. CASE c = d
      <4>1. requests'[c] = <<Connect>> \o requests[c] /\ requests[c] \in Seq(Requests) /\ Connect \in Requests
        BY <2>1, <3>1, Tables, RequestTypes
      <4>2. Fronted(requests[c], requests'[c], Connect)
        BY <4>1, PushFronts
      <4>3. Connect.k = "CONNECT" /\ RequestOK(Connect)
        BY DEF Connect, Request, RequestOK
      <4> QED
        BY <2>0, <4>1, <4>2, <4>3 DEF Asks
    <3>2. CASE c # d
      BY <2>0, <2>1, <3>2, Tables DEF Stays, QueueKept
    <3> QED
      BY <3>1, <3>2
  <2>2. CASE requests' = requests
    BY <2>0, <2>2 DEF Stays, QueueKept
  <2> QED
    BY <1>2, <2>1, <2>2 DEF OpenSocket
<1> QED
  BY <1>1, <1>2

LEMMA SendAdds ==
    ASSUME AInv, NEW c \in Clients, NEW m \in Frame, Send(c, m)
    PROVE  Added(wire[c], wire'[c], m)
<1>1. wire'[c] = Append(wire[c], m) /\ wire[c] \in Seq(Frame)
  BY Tables DEF Send
<1> QED
  BY <1>1, AppendAdds

LEMMA ServersStayApart ==
    ASSUME AInv, NEW c \in Clients, NEW d \in Clients, c # d, Serve(d)
    PROVE  Stays(c)
<1> DEFINE r == Head(requests[d])
<1>1. BrowserKept(c) /\ SideKept(c) /\ QueueKept(c)
  BY BrowserIsKept, Tables DEF Serve, store, Note, SideKept, StoreKept, NotesKept, QueueKept
<1>2. Heeds(d, r) \/ UNCHANGED vars
  BY DEF Serve
<1>3. WireKept(c) /\ GatewayKept(c)
  <2>1. CASE UNCHANGED vars
    BY <2>1, GatewayIsKept DEF vars, WireKept
  <2>2. CASE HandleDeviceConnect(d)
    BY <2>2, Tables DEF HandleDeviceConnect, Send, client, barrier, history, WireKept, GatewayKept, SwitchKept, FocusKept, FetchesKept,
       DeviceKept, StillHears
  <2>3. CASE HandleDeviceDisconnect(d)
    BY <2>3, Tables DEF HandleDeviceDisconnect, KeepEntryFor, Send, barrier, WireKept, GatewayKept, SwitchKept, FocusKept, FetchesKept,
       DeviceKept, StillHears
  <2>4. CASE HandleTmuxSelect(d, r.tok, r.pane, TRUE)
    BY <2>4, Tables DEF HandleTmuxSelect, Send, entry, WireKept, GatewayKept, SwitchKept, FocusKept, FetchesKept,
       DeviceKept, StillHears
  <2>5. CASE HandleFocusPane(d, r.pane)
    BY <2>5, Tables DEF HandleFocusPane, entry, barrier, WireKept, GatewayKept, SwitchKept, FocusKept, FetchesKept, DeviceKept, StillHears
  <2>6. CASE HandleSubscribePanes(d, r.panes)
    BY <2>6, GatewayIsKept DEF HandleSubscribePanes, entry, barrier, history, WireKept, GatewayKept, SwitchKept, FocusKept,
       FetchesKept, DeviceKept, StillHears
  <2>7. CASE HandleFetchPaneHistory(d, r.tok, r.pane)
    BY <2>7, Tables DEF HandleFetchPaneHistory, entry, barrier, history, WireKept, GatewayKept, SwitchKept, FocusKept, FetchesKept,
       DeviceKept, StillHears
  <2> QED
    BY <1>2, <2>1, <2>2, <2>3, <2>4, <2>5, <2>6, <2>7 DEF Heeds
<1> QED
  BY <1>1, <1>3 DEF Stays

LEMMA ServeEffect ==
    ASSUME AInv, NEW c \in Clients, Serve(c)
    PROVE  ServedSome(c)
<1> DEFINE r == requests[c][1]
<1>1. /\ Head(requests[c]) = r /\ r \in Requests /\ RequestOK(r) /\ Popped(requests[c], Tail(requests[c]))
      /\ requests'[c] = Tail(requests[c])
  BY FirstRequest, Tables DEF Serve
<1>2. Served(c)
  BY <1>1, BrowserIsKept DEF Serve, store, StoreKept, Served
<1>3. r.tok \in Nat /\ r.panes \in SUBSET Panes
  BY <1>1 DEF Requests
<1>4. \/ /\ Heeds(c, r)
         /\ gap' = IF r.k = "DISCONNECT" \/ HeedsDeaf(c, r) THEN Note(gap, c) ELSE gap
         /\ UNCHANGED missed
      \/ /\ Ignores(c, r)
         /\ missed' = IF r.k \in {"SELECT", "FOCUS"} THEN Note(missed, c) ELSE missed
         /\ gap' = IF r.k = "SELECT" THEN Note(gap, c) ELSE gap
         /\ UNCHANGED vars
  BY <1>1 DEF Serve
<1>5. Blur
  BY DEF Serve
<1> HIDE DEF r
<1>6. CASE Ignores(c, r) /\ missed' = (IF r.k \in {"SELECT", "FOCUS"} THEN Note(missed, c) ELSE missed)
           /\ gap' = (IF r.k = "SELECT" THEN Note(gap, c) ELSE gap) /\ UNCHANGED vars
  <2>1. GatewayKept(c) /\ WireKept(c)
    BY <1>6, GatewayIsKept DEF vars, WireKept
  <2>2. gap[c] => gap'[c]
    BY <1>6, Tables DEF Note
  <2>3. CASE r.k \in {"SELECT", "FOCUS"}
    <3>1. missed'[c]
      BY <1>6, <2>3, Tables DEF Note
    <3> QED
      BY <1>2, <2>1, <2>2, <2>3, <3>1 DEF ServedSome, Drops, r
  <2>4. CASE r.k \notin {"SELECT", "FOCUS"}
    <3>1. r.k \in {"SUBSCRIBE", "FETCH"} /\ missed' = missed
      BY <1>6, <2>4 DEF Ignores
    <3> QED
      BY <1>2, <2>1, <2>2, <3>1 DEF ServedSome, ServedQuietly, NotesKept, r
  <2> QED
    BY <2>3, <2>4
<1>7. CASE Heeds(c, r) /\ gap' = (IF r.k = "DISCONNECT" \/ HeedsDeaf(c, r) THEN Note(gap, c) ELSE gap) /\ missed' = missed
  <2>0. gap[c] => gap'[c]
    BY <1>7, Tables DEF Note
  <2>n. NotesKept(c)
    BY <1>7, <2>0 DEF NotesKept
  <2>1. CASE r.k = "CONNECT" /\ HandleDeviceConnect(c)
    <3>1. Added(wire[c], wire'[c], Status("CONNECTED"))
      BY <2>1, FrameTypes, SendAdds DEF HandleDeviceConnect
    <3>2. GatewayKept(c)
      BY <2>1 DEF HandleDeviceConnect, client, barrier, history, GatewayKept, SwitchKept, FocusKept, FetchesKept, DeviceKept, StillHears
    <3> QED
      BY <1>2, <2>1, <2>n, <3>1, <3>2 DEF ServedSome, ServedQuietly, r
  <2>2. CASE r.k = "DISCONNECT" /\ HandleDeviceDisconnect(c)
    <3>1. Added(wire[c], wire'[c], Status("DISCONNECTED"))
      BY <2>2, FrameTypes, SendAdds DEF HandleDeviceDisconnect
    <3>2. SwitchKept(c) /\ emitted' = emitted /\ \A p \in Panes : fetches'[c][p] = 0
      BY <2>2, Tables DEF HandleDeviceDisconnect, barrier, SwitchKept
    <3>3. gap'[c] /\ missed'[c] = missed[c]
      BY <1>7, <2>2, Tables DEF Note
    <3>4. MovedOff(c, NoPane) => mixed'[c]
      BY <2>2, Tables DEF HandleDeviceDisconnect
    <3> QED
      BY <1>2, <2>2, <3>1, <3>2, <3>3, <3>4 DEF ServedSome, ServedLeave, r
  <2>3. CASE r.k = "SELECT" /\ HandleTmuxSelect(c, r.tok, r.pane, TRUE)
    <3>1. r.pane \in Panes
      BY <1>1, <2>3 DEF RequestOK
    <3>2. Added(wire[c], wire'[c], Ack(r.tok, r.pane))
      BY <1>3, <2>3, <3>1, FrameTypes, SendAdds DEF HandleTmuxSelect
    <3>3. FetchesKept(c) /\ DeviceKept(c)
      BY <2>3 DEF HandleTmuxSelect, entry, FetchesKept, DeviceKept, StillHears
    <3>4. /\ pending'[c] = [tok |-> r.tok, pane |-> r.pane, want |-> TRUE]
          /\ sst'[c] = "ACKED" /\ buffer'[c] = << >> /\ selected'[c] = r.pane
          /\ base'[c] = IF up /\ c \in attached THEN emitted[r.pane] ELSE -1
      BY <2>3, Tables DEF HandleTmuxSelect
    <3>5. ~(up /\ c \in attached) => gap'[c]
      BY <1>7, <2>3, Tables DEF HeedsDeaf, Note
    <3> QED
      BY <1>2, <1>7, <2>0, <2>3, <3>2, <3>3, <3>4, <3>5 DEF ServedSome, ServedSelect, r
  <2>4. CASE r.k = "FOCUS" /\ HandleFocusPane(c, r.pane)
    <3>1. SwitchKept(c) /\ FetchesKept(c) /\ DeviceKept(c) /\ WireKept(c)
      BY <2>4 DEF HandleFocusPane, entry, barrier, SwitchKept, FetchesKept, DeviceKept, StillHears, WireKept
    <3>2. selected'[c] = r.pane /\ (MovedOff(c, r.pane) => mixed'[c])
      BY <2>4, Tables DEF HandleFocusPane
    <3> QED
      BY <1>2, <2>4, <2>n, <3>1, <3>2 DEF ServedSome, ServedFocus, r
  <2>5. CASE r.k = "SUBSCRIBE" /\ HandleSubscribePanes(c, r.panes)
    <3>1. GatewayKept(c) /\ WireKept(c)
      BY <2>5 DEF HandleSubscribePanes, entry, barrier, history, WireKept, GatewayKept, SwitchKept, FocusKept,
         FetchesKept, DeviceKept, StillHears
    <3> QED
      BY <1>2, <2>5, <2>n, <3>1 DEF ServedSome, ServedQuietly, r
  <2>6. CASE r.k = "FETCH" /\ HandleFetchPaneHistory(c, r.tok, r.pane)
    <3>1. SwitchKept(c) /\ FocusKept(c) /\ DeviceKept(c) /\ WireKept(c)
      BY <2>6 DEF HandleFetchPaneHistory, entry, barrier, history, SwitchKept, FocusKept, DeviceKept, StillHears, WireKept
    <3>2. fetches'[c] = [fetches[c] EXCEPT ![r.pane] = r.tok]
      BY <2>6, Tables DEF HandleFetchPaneHistory
    <3>3. r.pane \in Panes
      BY <1>1, <2>6 DEF RequestOK
    <3>4. fetches'[c][r.pane] = r.tok /\ \A q \in Panes : q # r.pane => fetches'[c][q] = fetches[c][q]
      BY <3>2, <3>3, Tables
    <3> QED
      BY <1>2, <2>6, <2>n, <3>1, <3>4 DEF ServedSome, ServedHistory, r
  <2> QED
    BY <1>7, <2>1, <2>2, <2>3, <2>4, <2>5, <2>6 DEF Heeds
<1> QED
  BY <1>4, <1>6, <1>7

\* The gateway's own steps leave the browsers alone.
LEMMA OutputEffect ==
    ASSUME AInv, NEW c \in Clients, Beyond(c), NotesKept(c), NEW p \in Panes, BroadcastTerminalOutput(p)
    PROVE  ActsSome(c)
<1> DEFINE o == Chunked(p)
           hears == c \in attached /\ up /\ Follows(c, p)
<1>1. o \in Chunk /\ Output(p, o) \in Frame
  <2>1. emitted[p] + 1 \in Nat
    BY Tables
  <2>2. o \in Chunk
    BY <2>1 DEF Chunked, Chunk
  <2> QED
    BY <2>2, FrameTypes
<1>2. Emitted(p) /\ FocusKept(c) /\ FetchesKept(c) /\ StillHears(c) /\ pending'[c] = pending[c] /\ sst'[c] = sst[c]
  BY DEF BroadcastTerminalOutput, entry, client, history, Emitted, FocusKept, FetchesKept, StillHears
<1>3. gate[c] = "BUFFERING" <=> pending[c].tok # 0
  BY DEF AInv, Typed, GateHasTimer, GateOK
<1>4. /\ buffer'[c] = IF hears /\ HeldBack(c, p) THEN PushBounded(buffer[c], o) ELSE buffer[c]
      /\ wire'[c] = IF hears /\ ~HeldBack(c, p) THEN Append(wire[c], Output(p, o)) ELSE wire[c]
  BY DEF BroadcastTerminalOutput, Chunked
<1>5. buffer[c] \in Seq(Chunk) /\ wire[c] \in Seq(Frame)
  BY Tables
<1> HIDE DEF o
<1>6. CASE hears /\ HeldBack(c, p)
  <2>1. Pushed(buffer[c], o, buffer'[c])
    BY <1>1, <1>4, <1>5, <1>6, PushPushes
  <2>2. HoldsBack(c, p)
    BY <1>2, <1>3, <1>4, <1>6, <2>1 DEF HoldsBack, HeldBack, WireKept, o
  <2> QED
    BY <2>2 DEF ActsSome
<1>7. CASE hears /\ ~HeldBack(c, p)
  <2>1. Added(wire[c], wire'[c], Output(p, o))
    BY <1>1, <1>4, <1>5, <1>7, AppendAdds
  <2>2. Sends(c, p)
    BY <1>2, <1>3, <1>4, <1>7, <2>1 DEF Sends, HeldBack, SwitchKept, o
  <2> QED
    BY <2>2 DEF ActsSome
<1>8. CASE ~hears
  <2>1. Unheard(c, p)
    BY <1>2, <1>4, <1>8 DEF Unheard, SwitchKept, WireKept, Follows
  <2> QED
    BY <2>1 DEF ActsSome
<1> QED
  BY <1>6, <1>7, <1>8

LEMMA HistoryAnswer ==
    ASSUME AInv, NEW c \in Clients, Beyond(c), NEW k \in captures, BroadcastTerminalHistory(k),
           gap' = [d \in Clients |-> gap[d] \/ (sst'[d] # sst[d] /\ k.upTo < base[d])]
    PROVE  Stays(c) \/ ActsSome(c)
<1> DEFINE barred == c \in attached /\ selected[c] = k.pane /\ TakesHistory(c, k.pane)
           asked == c \in attached /\ selected[c] # k.pane /\ fetches[c][k.pane] # 0
<1>0. k \in Capture /\ k.upTo \in Nat /\ k.pane \in Panes
  BY DEF AInv, Typed, AllTypeOK, TypeOK, BroadcastTerminalHistory, Capture
<1>1. /\ FocusKept(c) /\ DeviceKept(c) /\ (gap[c] => gap'[c]) /\ pending'[c] = pending[c] /\ buffer'[c] = buffer[c]
      /\ sst'[c] # sst[c] /\ k.upTo < base[c] => gap'[c]
  BY DEF BroadcastTerminalHistory, entry, history, FocusKept, DeviceKept, StillHears
<1>2. /\ sst'[c] = IF barred THEN "HISTORY_APPLIED" ELSE sst[c]
      /\ fetches'[c] = IF asked THEN [fetches[c] EXCEPT ![k.pane] = 0] ELSE fetches[c]
      /\ wire'[c] = IF barred THEN Append(wire[c], History(pending[c].tok, k))
                    ELSE IF asked THEN Append(wire[c], History(fetches[c][k.pane], k)) ELSE wire[c]
  BY DEF BroadcastTerminalHistory
<1>3. wire[c] \in Seq(Frame) /\ pending[c].tok \in Nat /\ fetches[c] \in [Panes -> Nat]
  BY SideTypes DEF AInv, Typed
<1>4. ASSUME NEW t \in Nat \ {0}
      PROVE  LET m == History(t, k) IN m \in Frame /\ m.k = "HISTORY" /\ m.tok = t /\ m.pane = k.pane /\ m.n = k.upTo /\ FrameOK(m)
  <2>1. History(t, k) \in Frame
    BY <1>0, FrameTypes
  <2> QED
    BY <1>0, <1>4, <2>1 DEF History, FrameOK, Answers
<1>5. CASE barred
  <2> DEFINE m == History(pending[c].tok, k)
  <2>1. pending[c].tok \in Nat \ {0} /\ sst[c] = "ACKED" /\ pending[c].pane = k.pane
    BY <1>3, <1>5 DEF TakesHistory
  <2>2. m \in Frame /\ m.k = "HISTORY" /\ m.tok = pending[c].tok /\ m.pane = k.pane /\ m.n = k.upTo /\ FrameOK(m)
    BY <1>4, <2>1
  <2> HIDE DEF m
  <2>3. Added(wire[c], wire'[c], m)
    BY <1>2, <1>3, <1>5, <2>2, AppendAdds DEF m
  <2>4. FetchesKept(c) /\ sst'[c] = "HISTORY_APPLIED" /\ (m.n < base[c] => gap'[c])
    BY <1>1, <1>2, <1>5, <2>1, <2>2 DEF FetchesKept
  <2>5. SendsHistory(c)
    BY <1>1, <1>5, <2>1, <2>2, <2>3, <2>4 DEF SendsHistory
  <2> QED
    BY <2>5 DEF ActsSome
<1>6. CASE asked
  <2> DEFINE m == History(fetches[c][k.pane], k)
  <2>1. fetches[c][k.pane] \in Nat \ {0}
    BY <1>0, <1>3, <1>6
  <2>2. m \in Frame /\ m.k = "HISTORY" /\ m.tok = fetches[c][k.pane] /\ m.pane = k.pane /\ FrameOK(m)
    BY <1>4, <2>1
  <2> HIDE DEF m
  <2>3. Added(wire[c], wire'[c], m)
    BY <1>2, <1>3, <1>6, <2>2, AppendAdds DEF m
  <2>4. SwitchKept(c) /\ fetches'[c] = [fetches[c] EXCEPT ![k.pane] = 0]
    BY <1>1, <1>2, <1>6 DEF SwitchKept
  <2>5. SendsFetched(c)
    BY <1>0, <1>1, <1>6, <2>1, <2>2, <2>3, <2>4 DEF SendsFetched
  <2> QED
    BY <2>5 DEF ActsSome
<1>7. CASE ~barred /\ ~asked
  BY <1>1, <1>2, <1>7 DEF Stays, Beyond, GatewayKept, SwitchKept, FetchesKept, SideKept, NotesKept, WireKept
<1> QED
  BY <1>5, <1>6, <1>7

LEMMA ReleaseEffect ==
    ASSUME AInv, NEW c \in Clients, NEW d \in Clients, Beyond(c),
           \/ LiveTimerFires(d) /\ gap' = gap
           \/ HistoryTimerFires(d) /\ gap' = Note(gap, d)
    PROVE  Stays(c) \/ Releases(c)
<1>0. /\ pending \in [Clients -> Transaction] /\ timers \in [Clients -> Seq(Timer)] /\ GateOK(d)
      /\ buffer[d] \in Seq(Chunk) /\ wire[d] \in Seq(Frame)
  BY DEF AInv, Typed, AllTypeOK, TypeOK, BarrierType, GateHasTimer
<1>1. pending[d].tok # 0 /\ Head(timers[d]).tok = pending[d].tok /\ sst[d] \in {"ACKED", "HISTORY_APPLIED"}
      /\ MayResume(d, Head(timers[d]).tok) /\ Head(timers[d]) = timers[d][1]
  BY <1>0 DEF LiveTimerFires, HistoryTimerFires, GateOK, MayResume
<1>2. SendLiveResume(d)
  BY <1>1 DEF LiveTimerFires, HistoryTimerFires
<1>3. FetchesKept(c) /\ DeviceKept(c) /\ selected'[c] = selected[c] /\ (gap[c] => gap'[c])
  <2>1. UNCHANGED <<entry, client, emitted>>
    BY DEF LiveTimerFires, HistoryTimerFires
  <2>2. gap[c] => gap'[c]
    BY Tables DEF Note
  <2> QED
    BY <2>1, <2>2 DEF entry, client, FetchesKept, DeviceKept, StillHears
<1>4. CASE c # d
  <2>1. SwitchKept(c) /\ WireKept(c) /\ base'[c] = base[c]
    BY <1>2, <1>4, Tables DEF SendLiveResume, LiveTimerFires, HistoryTimerFires, SwitchKept, WireKept
  <2> QED
    BY <1>3, <2>1 DEF Stays, Beyond, GatewayKept, FocusKept, SideKept, NotesKept
<1>5. CASE c = d
  <2>1. pending'[c].tok = 0 /\ buffer'[c] = << >>
    BY <1>2, <1>5, Tables DEF SendLiveResume, NoTx
  <2>2. sst[c] = "ACKED" => gap'[c]
    <3>1. pending[c].want
      BY <1>1, <1>5 DEF AInv, Formed, FormedFor
    <3>2. ASSUME sst[c] = "ACKED" PROVE timers[c][1].kind = "history"
      BY <1>0, <1>1, <1>5, <3>1, <3>2 DEF GateOK
    <3> QED
      BY <1>1, <1>5, <3>2, Tables DEF LiveTimerFires, Note
  <2> DEFINE b == buffer[c]
             w == wire[c]
             p == pending[c].pane
             m == Resumed(pending[c].tok, p)
             f == [i \in 1 .. Len(b) |-> Output(p, b[i])]
  <2>3. b \in Seq(Chunk) /\ w \in Seq(Frame) /\ p \in Panes \cup {NoPane} /\ pending[c].tok \in Nat /\ Len(b) \in Nat
    BY <1>0, <1>5, LenProperties DEF Transaction
  <2>4. f \in Seq(Frame) /\ m \in Frame
    BY <2>3, FlushType, FrameTypes
  <2>5. Len(f) = Len(b) /\ \A i \in 1 .. Len(b) : f[i] = Output(p, b[i])
    BY <2>3, <2>4
  <2>6. wire'[c] = Append(w, m) \o f
    BY <1>2, <1>5, Tables DEF SendLiveResume
  <2> HIDE DEF b, w, m, f, p
  <2>7. Append(w, m) \in Seq(Frame) /\ Added(w, Append(w, m), m)
    BY <2>3, <2>4, AppendAdds
  <2>8. Joined(Append(w, m), f, wire'[c])
    BY <2>4, <2>6, <2>7, ConcatJoins
  <2>9. /\ Len(wire'[c]) = Len(w) + 1 + Len(b) /\ Len(w) \in Nat
        /\ \A i \in 1 .. Len(w) : wire'[c][i] = w[i]
        /\ wire'[c][Len(w) + 1] = m
        /\ \A i \in 1 .. Len(b) : wire'[c][Len(w) + 1 + i] = f[i]
    BY <2>5, <2>7, <2>8 DEF Joined, Added
  <2> QED
    BY <1>1, <1>3, <1>5, <2>1, <2>2, <2>3, <2>5, <2>9 DEF Releases, b, w, m, p
<1> QED
  BY <1>4, <1>5

LEMMA GatewayEffect ==
    ASSUME AInv, NEW c \in Clients, GatewayStep
    PROVE  Stays(c) \/ ActsSome(c)
<1>0. Beyond(c)
  BY BrowserIsKept DEF GatewayStep, store, StoreKept, QueueKept, Beyond
<1>a. ASSUME UNCHANGED <<entry, client, barrier, emitted, history, wire>>, gap[c] => gap'[c] PROVE Stays(c)
  BY <1>0, <1>a, GatewayIsKept DEF Beyond, Stays, SideKept, NotesKept, WireKept
<1>b. ASSUME NEW s \in {"RECONNECTING", "RECONNECTED", "LOST"}, wire'[c] = Append(wire[c], Status(s))
      PROVE  Added(wire[c], wire'[c], Status(s))
  BY <1>b, Tables, FrameTypes, AppendAdds
<1>c. ASSUME gap' = [d \in Clients |-> TRUE] PROVE gap'[c]
  BY <1>c
<1>1. ASSUME NEW p \in Panes, BroadcastTerminalOutput(p), gap' = gap PROVE ActsSome(c)
  BY <1>0, <1>1, OutputEffect DEF NotesKept, Beyond
<1>2. ASSUME BroadcastStateSnapshot, gap' = gap PROVE Stays(c)
  <2>1. UNCHANGED <<attached, up, client, barrier, emitted, history, wire>>
    BY <1>2 DEF BroadcastStateSnapshot
  <2>2. GatewayKept(c)
    BY <2>1 DEF client, barrier, history, GatewayKept, SwitchKept, FocusKept, FetchesKept, DeviceKept, StillHears
  <2> QED
    BY <1>0, <1>2, <2>1, <2>2 DEF Beyond, Stays, SideKept, NotesKept, WireKept
<1>3. ASSUME RetryConnection, gap' = gap PROVE Stays(c) \/ ActsSome(c)
  <2>1. /\ ~up /\ UNCHANGED <<attached, client, barrier, emitted, history>>
        /\ wire'[c] = IF c \in attached THEN Append(wire[c], Status("RECONNECTED")) ELSE wire[c]
    BY <1>3 DEF RetryConnection
  <2>2. /\ SwitchKept(c) /\ FetchesKept(c) /\ emitted' = emitted /\ selected'[c] = selected[c] /\ base'[c] = base[c]
        /\ StillHears(c)
    BY <2>1 DEF client, barrier, history, SwitchKept, FetchesKept, StillHears
  <2>3. CASE c \in attached
    <3>1. Added(wire[c], wire'[c], Status("RECONNECTED"))
      BY <1>b, <2>1, <2>3
    <3> QED
      BY <1>0, <1>3, <2>2, <3>1 DEF ActsSome, Tells
  <2>4. CASE c \notin attached
    BY <1>0, <1>3, <2>1, <2>2, <2>4 DEF Beyond, Stays, GatewayKept, FocusKept, DeviceKept, SideKept, NotesKept, WireKept
  <2> QED
    BY <2>3, <2>4
<1>4. ASSUME NEW k \in captures, TakeCapture(k), gap' = gap PROVE Stays(c)
  BY <1>4, <1>a DEF TakeCapture
<1>5. ASSUME NEW d \in Clients, LiveTimerFires(d), gap' = gap PROVE Stays(c) \/ ActsSome(c)
  BY <1>0, <1>5, ReleaseEffect DEF ActsSome
<1>6. ASSUME NEW k \in captures, BroadcastTerminalHistory(k),
             gap' = [d \in Clients |-> gap[d] \/ (sst'[d] # sst[d] /\ k.upTo < base[d])] PROVE Stays(c) \/ ActsSome(c)
  BY <1>0, <1>6, HistoryAnswer
<1>7. ASSUME NEW k \in captures, DropCapture(k), gap' = [d \in Clients |-> TRUE] PROVE Stays(c) \/ ActsSome(c)
  <2>1. UNCHANGED <<entry, selected, barrier, emitted, wire, history>>
    BY <1>7 DEF DropCapture
  <2>2. \A p \in Panes : fetches'[c][p] \in {0, fetches[c][p]}
    <3>1. CASE fetches' = fetches
      BY <3>1
    <3>2. CASE fetches' = [fetches EXCEPT ![k.client][k.pane] = 0]
      <4>1. k.client \in Clients /\ k.pane \in Panes
        BY DEF AInv, Typed, AllTypeOK, TypeOK, Capture
      <4>2. fetches'[c] = IF c = k.client THEN [fetches[c] EXCEPT ![k.pane] = 0] ELSE fetches[c]
        BY <3>2, <4>1, Tables
      <4> QED
        BY <4>1, <4>2, Tables
    <3> QED
      BY <1>7, <3>1, <3>2 DEF DropCapture
  <2>3. SwitchKept(c) /\ FocusKept(c) /\ DeviceKept(c) /\ WireKept(c)
    BY <2>1 DEF entry, barrier, history, SwitchKept, FocusKept, DeviceKept, StillHears, WireKept
  <2>4. NotesKept(c)
    BY <1>0, <1>7, <1>c DEF NotesKept, Beyond
  <2> QED
    BY <1>0, <2>2, <2>3, <2>4 DEF ActsSome, Forgets
<1>8. ASSUME HandleConnectionClose, gap' = [d \in Clients |-> TRUE] PROVE Stays(c) \/ ActsSome(c)
  <2>1. /\ UNCHANGED <<attached, client, barrier, emitted, mixed>>
        /\ wire'[c] = IF c \in attached THEN Append(wire[c], Status("RECONNECTING")) ELSE wire[c]
    BY <1>8 DEF HandleConnectionClose
  <2>2. SwitchKept(c) /\ FetchesKept(c) /\ emitted' = emitted /\ selected'[c] = selected[c] /\ gap'[c]
    BY <1>8, <1>c, <2>1 DEF client, barrier, SwitchKept, FetchesKept
  <2>3. CASE c \in attached
    <3>1. Added(wire[c], wire'[c], Status("RECONNECTING"))
      BY <1>b, <2>1, <2>3
    <3> QED
      BY <1>0, <2>2, <3>1 DEF ActsSome, Tells
  <2>4. CASE c \notin attached
    BY <1>0, <2>1, <2>2, <2>4 DEF Beyond, Stays, GatewayKept, FocusKept, DeviceKept, StillHears, SideKept, NotesKept, WireKept
  <2> QED
    BY <2>3, <2>4
<1>9. ASSUME GiveUpConnection, gap' = [d \in Clients |-> TRUE] PROVE Stays(c) \/ ActsSome(c)
  <2>1. /\ UNCHANGED <<fetches, barrier, emitted>>
        /\ wire'[c] = IF c \in attached THEN Append(wire[c], Status("LOST")) ELSE wire[c]
        /\ selected'[c] = IF c \in attached THEN NoPane ELSE selected[c]
        /\ mixed'[c] = (mixed[c] \/ (c \in attached /\ MovedOff(c, NoPane)))
    BY <1>9 DEF GiveUpConnection
  <2>2. SwitchKept(c) /\ FetchesKept(c) /\ emitted' = emitted /\ gap'[c]
    BY <1>9, <1>c, <2>1 DEF barrier, SwitchKept, FetchesKept
  <2>3. CASE c \in attached
    <3>1. Added(wire[c], wire'[c], Status("LOST"))
      BY <1>b, <2>1, <2>3
    <3> QED
      BY <1>0, <2>1, <2>2, <2>3, <3>1 DEF ActsSome, GivesUp
  <2>4. CASE c \notin attached
    BY <1>0, <2>1, <2>2, <2>4 DEF Beyond, Stays, GatewayKept, FocusKept, DeviceKept, StillHears, SideKept, NotesKept, WireKept
  <2> QED
    BY <2>3, <2>4
<1>10. ASSUME NEW d \in Clients, HistoryTimerFires(d), gap' = Note(gap, d) PROVE Stays(c) \/ ActsSome(c)
  BY <1>0, <1>10, ReleaseEffect DEF ActsSome
<1> QED
  BY <1>1, <1>2, <1>3, <1>4, <1>5, <1>6, <1>7, <1>8, <1>9, <1>10 DEF GatewayStep

LEMMA EveryEffect ==
    ASSUME AInv, [AllNext]_allVars, NEW c \in Clients
    PROVE  Effect(c)
<1>1. ASSUME NEW d \in Clients, UserStep(d) PROVE Effect(c)
  BY <1>1, UserEffect, UsersStayApart DEF Effect
<1>2. ASSUME NEW d \in Clients, Read(d) PROVE Effect(c)
  BY <1>2, ReadEffect, ReadersStayApart DEF Effect, AsksSome
<1>3. ASSUME NEW d \in Clients, SelectTimeout(d) \/ \E p \in Panes : HistoryGateTimeout(d, p) PROVE Effect(c)
  BY <1>3, TimerEffect DEF Effect
<1>4. ASSUME NEW d \in Clients, Serve(d) PROVE Effect(c)
  BY <1>4, ServeEffect, ServersStayApart DEF Effect
<1>5. ASSUME NEW d \in Clients, LoseSocket(d) \/ OpenSocket(d) PROVE Effect(c)
  BY <1>5, SocketEffect DEF Effect, AsksSome
<1>6. CASE GatewayStep
  BY <1>6, GatewayEffect DEF Effect
<1>7. CASE UNCHANGED allVars
  <2>1. UNCHANGED <<entry, client, barrier, emitted, history, wire, browser, store, requests, notes>>
    BY <1>7 DEF allVars, vars
  <2>2. GatewayKept(c) /\ BrowserKept(c)
    BY <2>1, GatewayIsKept, BrowserIsKept
  <2>3. Stays(c)
    BY <2>1, <2>2 DEF store, notes, Stays, SideKept, StoreKept, NotesKept, QueueKept, WireKept
  <2> QED
    BY <2>3 DEF Effect
<1> QED
  BY <1>1, <1>2, <1>3, <1>4, <1>5, <1>6, <1>7 DEF AllNext, BrowserStep
-----------------------------------------------------------------------------
(* Requests and frames stay well formed.                                   *)

RequestsOK(s) == \A i \in 1 .. Len(s) : RequestOK(s[i])
FramesOK(s) == \A i \in 1 .. Len(s) : FrameOK(s[i])

LEMMA RequestsStayOK ==
    ASSUME NEW s, NEW r, RequestsOK(s)
    PROVE  /\ Popped(s, r) => RequestsOK(r)
           /\ \A m : (Added(s, r, m) \/ Fronted(s, r, m)) /\ RequestOK(m) => RequestsOK(r)
<1>1. ASSUME Popped(s, r) PROVE RequestsOK(r)
  BY <1>1 DEF RequestsOK, Popped
<1>2. ASSUME NEW m, Added(s, r, m), RequestOK(m) PROVE RequestsOK(r)
  BY <1>2 DEF RequestsOK, Added
<1>3. ASSUME NEW m, Fronted(s, r, m), RequestOK(m) PROVE RequestsOK(r)
  <2> SUFFICES ASSUME NEW i \in 1 .. Len(r) PROVE RequestOK(r[i])
    BY DEF RequestsOK
  <2>1. CASE i = 1
    BY <1>3, <2>1 DEF Fronted
  <2>2. CASE i # 1
    <3>1. i - 1 \in 1 .. Len(s) /\ (i - 1) + 1 = i
      BY <1>3, <2>2 DEF Fronted
    <3>2. r[(i - 1) + 1] = s[i - 1]
      BY <1>3, <3>1 DEF Fronted
    <3> QED
      BY <3>1, <3>2 DEF RequestsOK
  <2> QED
    BY <2>1, <2>2
<1> QED
  BY <1>1, <1>2, <1>3

LEMMA FramesStayOK ==
    ASSUME NEW s, NEW r, FramesOK(s)
    PROVE  /\ Popped(s, r) => FramesOK(r)
           /\ \A m : Added(s, r, m) /\ FrameOK(m) => FramesOK(r)
<1>1. ASSUME Popped(s, r) PROVE FramesOK(r)
  BY <1>1 DEF FramesOK, Popped
<1>2. ASSUME NEW m, Added(s, r, m), FrameOK(m) PROVE FramesOK(r)
  BY <1>2 DEF FramesOK, Added
<1> QED
  BY <1>1, <1>2

LEMMA MadeOK ==
    /\ RequestOK(Connect) /\ RequestOK(Disconnect)
    /\ \A t \in Nat \ {0}, p \in Panes : RequestOK(Request("SELECT", t, p, {})) /\ RequestOK(Request("FETCH", t, p, {}))
    /\ \A p \in Panes : RequestOK(Request("FOCUS", 0, p, {}))
    /\ \A t \in Nat \ {0}, p \in Panes : FrameOK(Ack(t, p)) /\ FrameOK(Resumed(t, p))
    /\ \A p \in Panes, o \in Chunk : FrameOK(Output(p, o))
    /\ \A s \in {"CONNECTED", "DISCONNECTED", "RECONNECTING", "RECONNECTED", "LOST"} : FrameOK(Status(s))
<1>1. \A p \in Panes, o \in Chunk : FrameOK(Output(p, o))
  BY DEF Output, Chunk, FrameOK, Answers
<1> QED
  BY <1>1 DEF Connect, Disconnect, Request, RequestOK, Ack, Resumed, Status, FrameOK, Answers

LEMMA KeepsFormed ==
    ASSUME AInv, NEW c \in Clients, Effect(c)
    PROVE  /\ RequestsOK(requests'[c]) /\ FramesOK(wire'[c])
           /\ pending'[c].tok # 0 => pending'[c].pane \in Panes /\ pending'[c].want
           /\ ~connected'[c] => tx'[c].tok = 0
<1> DEFINE Goal == /\ RequestsOK(requests'[c]) /\ FramesOK(wire'[c])
                   /\ pending'[c].tok # 0 => pending'[c].pane \in Panes /\ pending'[c].want
                   /\ ~connected'[c] => tx'[c].tok = 0
<1>0. /\ RequestsOK(requests[c]) /\ FramesOK(wire[c])
      /\ pending[c].tok # 0 => pending[c].pane \in Panes /\ pending[c].want
      /\ ~connected[c] => tx[c].tok = 0
  BY DEF AInv, Formed, FormedFor, RequestsOK, FramesOK
<1>t. nextTok \in Nat \ {0} /\ pending[c].tok \in Nat /\ buffer[c] \in Seq(Chunk)
  BY SideTypes DEF AInv, Typed
<1>1. CASE Stays(c)
  BY <1>0, <1>1 DEF Stays, GatewayKept, SwitchKept, BrowserKept, MachineKept, SideKept, StoreKept, QueueKept, WireKept
<1>2. CASE AsksSome(c)
  <2>1. SwitchKept(c)
    BY <1>2 DEF AsksSome, Asks, AsksLeave, Selects, AsksFocus, AsksHistory, GatewayKept
  <2>2. RequestsOK(requests'[c])
    BY <1>0, <1>2, <1>t, RequestsStayOK, MadeOK DEF AsksSome, Asks, AsksLeave, Selects, AsksFocus, AsksHistory
  <2>3. FramesOK(wire'[c])
    BY <1>0, <1>2, FramesStayOK DEF AsksSome, Asks, AsksLeave, Selects, AsksFocus, AsksHistory, WireKept
  <2>4. ~connected'[c] => tx'[c].tok = 0
    BY <1>0, <1>2 DEF AsksSome, Asks, AsksLeave, Selects, AsksFocus, AsksHistory, BrowserKept, MachineKept, SideKept, StoreKept, Ended
  <2> QED
    BY <1>0, <2>1, <2>2, <2>3, <2>4 DEF SwitchKept
<1>3. CASE TimesOutSome(c)
  BY <1>0, <1>3 DEF TimesOutSome, TimesOut, GateTimesOut, GatewayKept, SwitchKept, MachineKept, SideKept, StoreKept, QueueKept, WireKept, Ended
<1>4. CASE ReadsSome(c)
  <2>1. Reads(c)
    BY <1>4 DEF ReadsSome, ReadsStatus, ReadsLoss, Refuses, ReadsAck, ReadsHistory, ReadsFetched, ReadsResume, Holds, Displays
  <2>2. ~connected'[c] => tx'[c].tok = 0
    BY <1>0, <1>4 DEF ReadsSome, ReadsStatus, ReadsLoss, Refuses, ReadsAck, ReadsHistory, ReadsFetched, ReadsResume, Holds, Displays,
       BrowserKept, MachineKept, StoreKept, Ended, Advanced
  <2> QED
    BY <1>0, <2>1, <2>2, FramesStayOK DEF Reads, GatewayKept, SwitchKept, QueueKept
<1>5. CASE ServedSome(c)
  <2>1. Served(c)
    BY <1>5 DEF ServedSome, ServedQuietly, ServedLeave, ServedSelect, ServedFocus, ServedHistory, Drops
  <2>2. RequestsOK(requests'[c]) /\ (~connected'[c] => tx'[c].tok = 0)
    BY <1>0, <2>1, RequestsStayOK DEF Served, BrowserKept, MachineKept, StoreKept
  <2>3. CASE ServedSelect(c)
    <3> DEFINE r == requests[c][1]
    <3>1. r \in Requests /\ RequestOK(r) /\ r.tok \in Nat \ {0} /\ r.pane \in Panes
      <4>1. requests[c] # << >>
        BY <2>1, Tables, EmptySeq DEF Served, Popped
      <4>2. r \in Requests /\ RequestOK(r)
        BY <4>1, FirstRequest
      <4> QED
        BY <2>3, <4>2 DEF ServedSelect, RequestOK, Requests
    <3>2. FrameOK(Ack(r.tok, r.pane))
      BY <3>1, MadeOK
    <3> QED
      BY <1>0, <2>2, <2>3, <3>1, <3>2, FramesStayOK DEF ServedSelect
  <2>4. CASE ~ServedSelect(c)
    <3>1. SwitchKept(c)
      BY <1>5, <2>4 DEF ServedSome, ServedQuietly, ServedLeave, ServedFocus, ServedHistory, Drops, GatewayKept
    <3>2. FramesOK(wire'[c])
      BY <1>0, <1>5, <2>4, FramesStayOK, MadeOK DEF ServedSome, ServedQuietly, ServedLeave, ServedFocus, ServedHistory, Drops, WireKept
    <3> QED
      BY <1>0, <2>2, <3>1, <3>2 DEF SwitchKept
  <2> QED
    BY <2>3, <2>4
<1>6. CASE Loses(c)
  BY <1>0, <1>6 DEF Loses, BrowserKept, MachineKept, StoreKept, RequestsOK, FramesOK
<1>7. CASE ActsSome(c)
  <2>1. Beyond(c)
    BY <1>7 DEF ActsSome, Sends, HoldsBack, Unheard, SendsHistory, SendsFetched, Forgets, Tells, GivesUp, Releases
  <2>2. RequestsOK(requests'[c]) /\ (~connected'[c] => tx'[c].tok = 0)
    BY <1>0, <2>1 DEF Beyond, BrowserKept, MachineKept, StoreKept, QueueKept
  <2>3. pending'[c] = pending[c] \/ pending'[c].tok = 0
    BY <1>7 DEF ActsSome, Sends, HoldsBack, Unheard, SendsHistory, SendsFetched, Forgets, Tells, GivesUp, Releases, SwitchKept
  <2>4. FramesOK(wire'[c])
    <3>1. ASSUME NEW p \in Panes, Sends(c, p) PROVE FramesOK(wire'[c])
      <4>1. emitted[p] + 1 \in Nat
        BY Tables
      <4>2. Chunked(p) \in Chunk
        BY <4>1 DEF Chunked, Chunk
      <4>3. FrameOK(Output(p, Chunked(p)))
        BY <4>2, MadeOK
      <4> QED
        BY <1>0, <3>1, <4>3, FramesStayOK DEF Sends
    <3>2. CASE Releases(c)
      <4>1. FrameOK(Resumed(pending[c].tok, pending[c].pane))
        BY <1>0, <1>t, <3>2, MadeOK DEF Releases
      <4>2. \A i \in 1 .. Len(buffer[c]) : FrameOK(Output(pending[c].pane, buffer[c][i]))
        BY <1>0, <1>t, <3>2, MadeOK, ElementOfSeq DEF Releases
      <4>3. ASSUME NEW i \in 1 .. Len(wire'[c]) PROVE FrameOK(wire'[c][i])
        <5> DEFINE n == Len(wire[c])
                   b == Len(buffer[c])
        <5>0. n \in Nat /\ b \in Nat /\ i \in 1 .. n + 1 + b
          BY <3>2, <4>3 DEF Releases
        <5> HIDE DEF n, b
        <5>1. i \in 1 .. n \/ i = n + 1 \/ (i - (n + 1) \in 1 .. b /\ n + 1 + (i - (n + 1)) = i)
          BY <5>0
        <5> QED
          BY <1>0, <3>2, <4>1, <4>2, <5>1 DEF Releases, FramesOK, n, b
      <4> QED
        BY <4>3 DEF FramesOK
    <3>3. CASE Tells(c, "RECONNECTING") \/ Tells(c, "RECONNECTED") \/ GivesUp(c)
      BY <1>0, <3>3, FramesStayOK, MadeOK DEF Tells, GivesUp
    <3>4. CASE SendsHistory(c) \/ SendsFetched(c)
      BY <1>0, <3>4, FramesStayOK DEF SendsHistory, SendsFetched
    <3> QED
      BY <1>0, <1>7, <3>1, <3>2, <3>3, <3>4 DEF ActsSome, HoldsBack, Unheard, Forgets, WireKept
  <2> QED
    BY <1>0, <2>2, <2>3, <2>4
<1> QED
  BY <1>1, <1>2, <1>3, <1>4, <1>5, <1>6, <1>7 DEF Effect

LEMMA NextAInv == AInv /\ [AllNext]_allVars => AInv'
<1> SUFFICES ASSUME AInv, [AllNext]_allVars PROVE AInv'
  OBVIOUS
<1>1. Typed'
  BY NextTyped
<1>2. Formed'
  <2> SUFFICES ASSUME NEW c \in Clients PROVE FormedFor(c)'
    BY DEF Formed
  <2>1. Effect(c) /\ Turns(c)
    BY EveryEffect, TurnsAlways
  <2>2. mixed'[c] => blurred'[c]
    BY <2>1 DEF AInv, Formed, FormedFor, Turns
  <2> QED
    BY <2>1, <2>2, KeepsFormed DEF FormedFor, RequestsOK, FramesOK
<1> QED
  BY <1>1, <1>2 DEF AInv

LEMMA InitAInv == AllInit => AInv
<1> SUFFICES ASSUME AllInit PROVE AInv
  OBVIOUS
<1>1. IInv /\ BrowserInv
  BY InitIInv, InitBrowser DEF AllInit
<1>2. AllTypeOK
  BY <1>1, EmptySeq DEF AllInit, AllTypeOK, IInv, BrowserInv
<1>3. Formed
  <2> SUFFICES ASSUME NEW c \in Clients PROVE FormedFor(c)
    BY DEF Formed
  <2>1. requests[c] = << >> /\ wire[c] = << >> /\ pending[c].tok = 0 /\ tx[c].tok = 0 /\ ~mixed[c]
    BY DEF AllInit, Init, Fresh, FE!Init, NoTx, FE!NoTransaction
  <2> QED
    BY <2>1 DEF FormedFor
<1> QED
  BY <1>1, <1>2, <1>3 DEF AInv, Typed, IInv

\* Every variable of the composed system keeps its type, through every switch
\* of every browser, lost sockets and lost devices (SelectStateMachine,
\* PaneSinkRegistry, client.send and the gateway's handlers).
THEOREM AllTypeCorrect == AllSpec => []AllTypeOK
<1>1. AInv => AllTypeOK
  BY DEF AInv, Typed
<1> QED
  BY InitAInv, NextAInv, <1>1, PTL DEF AllSpec

\* The browser's gate is never on without an open transaction and the timer of
\* its stage (handleSelectStart, handleSwitchAck, handleHistory,
\* handleLiveResume, handleTimeout, cleanup): it opens by itself, whatever the
\* gateway sends or fails to send.
THEOREM MachineIsTimed == AllSpec => []MachineNeverSticks
<1>1. AInv => MachineNeverSticks
  BY DEF AInv, Typed, BrowserInv, MachineNeverSticks
<1> QED
  BY InitAInv, NextAInv, <1>1, PTL DEF AllSpec
-----------------------------------------------------------------------------
(* The focus: the last request that moves it asks for the pane the browser *)
(* wants, or none is under way and the gateway has it, unless the device   *)
(* is being left.                                                          *)

Aims(r) == r.k \in {"SELECT", "FOCUS"}
NoAims(rq, i) == \A j \in 1 .. Len(rq) : Aims(rq[j]) => j <= i
AimedAt(rq, p, s) ==
    \/ \E i \in 1 .. Len(rq) : Aims(rq[i]) /\ rq[i].pane = p /\ NoAims(rq, i)
    \/ s = p /\ NoAims(rq, 0)
Leaves(rq) == \E i \in 1 .. Len(rq) : rq[i].k = "DISCONNECT"
Parts(w) == \E i \in 1 .. Len(w) : w[i].k \in {"DISCONNECTED", "LOST"}
Lossy(c) == ~connected[c] \/ Leaves(requests[c]) \/ Parts(wire[c])
FocusFor(c) == ~missed[c] /\ want[c] # NoPane => AimedAt(requests[c], want[c], selected[c]) \/ Lossy(c)
FocusInv == \A c \in Clients : FocusFor(c)

LEMMA AddedAims ==
    ASSUME NEW s, NEW r, NEW m, Added(s, r, m)
    PROVE  /\ \A i \in 0 .. Len(s) : ~Aims(m) /\ NoAims(s, i) => NoAims(r, i)
           /\ \A p, f : ~Aims(m) /\ AimedAt(s, p, f) => AimedAt(r, p, f)
           /\ \A f : Aims(m) => AimedAt(r, m.pane, f)
           /\ Leaves(s) \/ m.k = "DISCONNECT" => Leaves(r)
           /\ Parts(s) \/ m.k \in {"DISCONNECTED", "LOST"} => Parts(r)
<1>0. Len(s) \in Nat /\ Len(r) = Len(s) + 1 /\ r[Len(s) + 1] = m /\ \A i \in 1 .. Len(s) : r[i] = s[i]
  BY DEF Added
<1>a. Len(s) + 1 \in 1 .. Len(r) /\ 1 .. Len(s) \subseteq 1 .. Len(r)
      /\ \A j \in 1 .. Len(r) : j \in 1 .. Len(s) \/ j = Len(s) + 1
  BY <1>0
<1>1. ASSUME ~Aims(m), NEW i \in 0 .. Len(s), NoAims(s, i) PROVE NoAims(r, i)
  BY <1>0, <1>1, <1>a DEF NoAims
<1>2. ASSUME ~Aims(m), NEW p, NEW f, AimedAt(s, p, f) PROVE AimedAt(r, p, f)
  <2>1. CASE f = p /\ NoAims(s, 0)
    BY <1>0, <1>1, <1>2, <2>1 DEF AimedAt
  <2>2. ASSUME NEW i \in 1 .. Len(s), Aims(s[i]), s[i].pane = p, NoAims(s, i) PROVE AimedAt(r, p, f)
    <3>1. i \in 0 .. Len(s) /\ i \in 1 .. Len(r) /\ r[i] = s[i]
      BY <1>0, <1>a
    <3> QED
      BY <1>1, <1>2, <2>2, <3>1 DEF AimedAt
  <2> QED
    BY <1>2, <2>1, <2>2 DEF AimedAt
<1>3. ASSUME Aims(m), NEW f PROVE AimedAt(r, m.pane, f)
  <2>1. NoAims(r, Len(s) + 1)
    BY <1>0, <1>a DEF NoAims
  <2> QED
    BY <1>0, <1>3, <1>a, <2>1 DEF AimedAt
<1>4. Leaves(s) \/ m.k = "DISCONNECT" => Leaves(r)
  BY <1>0, <1>a DEF Leaves
<1>5. Parts(s) \/ m.k \in {"DISCONNECTED", "LOST"} => Parts(r)
  BY <1>0, <1>a DEF Parts
<1> QED
  BY <1>1, <1>2, <1>3, <1>4, <1>5

LEMMA FrontedAims ==
    ASSUME NEW s, NEW r, NEW m, Fronted(s, r, m), ~Aims(m)
    PROVE  /\ NoAims(s, 0) => NoAims(r, 0)
           /\ \A i \in 1 .. Len(s) : NoAims(s, i) => NoAims(r, i + 1)
           /\ \A p, f : AimedAt(s, p, f) => AimedAt(r, p, f)
           /\ Leaves(s) => Leaves(r)
<1>0. Len(s) \in Nat /\ Len(r) = Len(s) + 1 /\ r[1] = m /\ \A i \in 1 .. Len(s) : r[i + 1] = s[i] /\ i + 1 \in 1 .. Len(r)
  BY DEF Fronted
<1>a. ASSUME NEW j \in 1 .. Len(r) PROVE j = 1 \/ (j - 1 \in 1 .. Len(s) /\ r[j] = s[j - 1])
  <2>1. CASE j # 1
    <3>1. j - 1 \in 1 .. Len(s) /\ (j - 1) + 1 = j
      BY <1>0, <2>1
    <3> QED
      BY <1>0, <3>1
  <2> QED
    BY <2>1
<1>1. ASSUME NoAims(s, 0) PROVE NoAims(r, 0)
  BY <1>0, <1>1, <1>a DEF NoAims
<1>2. ASSUME NEW i \in 1 .. Len(s), NoAims(s, i) PROVE NoAims(r, i + 1)
  <2> SUFFICES ASSUME NEW j \in 1 .. Len(r), Aims(r[j]) PROVE j <= i + 1
    BY DEF NoAims
  <2>1. j - 1 \in 1 .. Len(s) /\ Aims(s[j - 1])
    BY <1>0, <1>a
  <2>2. j - 1 <= i
    BY <1>2, <2>1 DEF NoAims
  <2> QED
    BY <1>0, <2>1, <2>2
<1>3. ASSUME NEW p, NEW f, AimedAt(s, p, f) PROVE AimedAt(r, p, f)
  BY <1>0, <1>1, <1>2, <1>3 DEF AimedAt
<1>4. Leaves(s) => Leaves(r)
  BY <1>0 DEF Leaves
<1> QED
  BY <1>1, <1>2, <1>3, <1>4

LEMMA PoppedAims ==
    ASSUME NEW s, NEW r, Popped(s, r)
    PROVE  /\ \A i \in 1 .. Len(s) : NoAims(s, i) => NoAims(r, i - 1)
           /\ NoAims(s, 0) => ~Aims(s[1]) /\ NoAims(r, 0)
           /\ \A p, f : ~Aims(s[1]) /\ AimedAt(s, p, f) => AimedAt(r, p, f)
           /\ \A p, f : Aims(s[1]) /\ AimedAt(s, p, f) => AimedAt(r, p, s[1].pane)
           /\ Leaves(s) => s[1].k = "DISCONNECT" \/ Leaves(r)
           /\ Parts(s) => s[1].k \in {"DISCONNECTED", "LOST"} \/ Parts(r)
<1>0. Len(s) \in Nat \ {0} /\ Len(r) = Len(s) - 1 /\ \A i \in 1 .. Len(r) : r[i] = s[i + 1] /\ i + 1 \in 1 .. Len(s)
  BY DEF Popped
<1>a. ASSUME NEW j \in 1 .. Len(s) PROVE j = 1 \/ (j - 1 \in 1 .. Len(r) /\ r[j - 1] = s[j])
  <2>1. CASE j # 1
    <3>1. j - 1 \in 1 .. Len(r) /\ (j - 1) + 1 = j
      BY <1>0, <2>1
    <3> QED
      BY <1>0, <3>1
  <2> QED
    BY <2>1
<1>1. ASSUME NEW i \in 1 .. Len(s), NoAims(s, i) PROVE NoAims(r, i - 1)
  <2> SUFFICES ASSUME NEW j \in 1 .. Len(r), Aims(r[j]) PROVE j <= i - 1
    BY DEF NoAims
  <2>1. j + 1 <= i
    BY <1>0, <1>1 DEF NoAims
  <2> QED
    BY <1>0, <2>1
<1>2. ASSUME NoAims(s, 0) PROVE ~Aims(s[1]) /\ NoAims(r, 0)
  <2>1. \A j \in 1 .. Len(s) : ~Aims(s[j])
    BY <1>0, <1>2 DEF NoAims
  <2>2. 1 \in 1 .. Len(s)
    BY <1>0
  <2> QED
    BY <1>0, <2>1, <2>2 DEF NoAims
<1>3. ASSUME NEW p, NEW f, NEW i \in 1 .. Len(s), Aims(s[i]), s[i].pane = p, NoAims(s, i), i # 1, NEW g PROVE AimedAt(r, p, g)
  <2>1. i - 1 \in 1 .. Len(r) /\ r[i - 1] = s[i] /\ NoAims(r, i - 1)
    BY <1>1, <1>3, <1>a
  <2> QED
    BY <1>3, <2>1 DEF AimedAt
<1>4. ASSUME NEW p, NEW f, ~Aims(s[1]), AimedAt(s, p, f) PROVE AimedAt(r, p, f)
  <2>1. CASE f = p /\ NoAims(s, 0)
    BY <1>2, <2>1 DEF AimedAt
  <2>2. ASSUME NEW i \in 1 .. Len(s), Aims(s[i]), s[i].pane = p, NoAims(s, i) PROVE AimedAt(r, p, f)
    BY <1>3, <1>4, <2>2
  <2> QED
    BY <1>4, <2>1, <2>2 DEF AimedAt
<1>5. ASSUME NEW p, NEW f, Aims(s[1]), AimedAt(s, p, f) PROVE AimedAt(r, p, s[1].pane)
  <2>1. PICK i \in 1 .. Len(s) : Aims(s[i]) /\ s[i].pane = p /\ NoAims(s, i)
    BY <1>2, <1>5 DEF AimedAt
  <2>2. CASE i = 1
    <3>1. NoAims(r, 0)
      BY <1>1, <2>1, <2>2
    <3> QED
      BY <2>1, <2>2, <3>1 DEF AimedAt
  <2>3. CASE i # 1
    BY <1>3, <2>1, <2>3
  <2> QED
    BY <2>2, <2>3
<1>6. Leaves(s) => s[1].k = "DISCONNECT" \/ Leaves(r)
  BY <1>a DEF Leaves
<1>7. Parts(s) => s[1].k \in {"DISCONNECTED", "LOST"} \/ Parts(r)
  BY <1>a DEF Parts
<1> QED
  BY <1>1, <1>2, <1>4, <1>5, <1>6, <1>7

\* The first request is there, when one was served; the first frame, when one was read.
LEMMA PoppedRequest ==
    ASSUME AInv, NEW c \in Clients, NEW r, Popped(requests[c], r)
    PROVE  1 \in 1 .. Len(requests[c]) /\ requests[c][1] \in Requests /\ RequestOK(requests[c][1])
<1>1. requests[c] # << >>
  BY EmptySeq DEF Popped
<1> QED
  BY <1>1, FirstRequest

LEMMA PoppedFrame ==
    ASSUME AInv, NEW c \in Clients, NEW r, Popped(wire[c], r)
    PROVE  1 \in 1 .. Len(wire[c]) /\ wire[c][1] \in Frame /\ FrameOK(wire[c][1])
<1>1. wire[c] # << >>
  BY EmptySeq DEF Popped
<1> QED
  BY <1>1, FirstFrame

LEMMA ReadsAny ==
    ASSUME NEW c, ReadsSome(c)
    PROVE  /\ Reads(c)
           /\ connected'[c] = connected[c] \/ ReadsStatus(c) \/ ReadsLoss(c)
BY DEF ReadsSome, ReadsStatus, ReadsLoss, Refuses, ReadsAck, ReadsHistory, ReadsFetched, ReadsResume, Holds, Displays, StoreKept

LEMMA ServedAny ==
    ASSUME NEW c, ServedSome(c)
    PROVE  Served(c)
BY DEF ServedSome, ServedQuietly, ServedLeave, ServedSelect, ServedFocus, ServedHistory, Drops

LEMMA ActsAny ==
    ASSUME NEW c, ActsSome(c)
    PROVE  Beyond(c) /\ (gap[c] => gap'[c])
BY DEF ActsSome, Sends, HoldsBack, Unheard, SendsHistory, SendsFetched, Forgets, Tells, GivesUp, Releases, NotesKept

LEMMA KeepsFocus ==
    ASSUME AInv, NEW c \in Clients, FocusFor(c), Effect(c), want'[c] \in Panes \cup {NoPane}
    PROVE  FocusFor(c)'
<1> SUFFICES ASSUME ~missed'[c], want'[c] # NoPane
             PROVE  AimedAt(requests'[c], want'[c], selected'[c]) \/ ~connected'[c] \/ Leaves(requests'[c]) \/ Parts(wire'[c])
  BY DEF FocusFor, Lossy, AimedAt, NoAims, Leaves, Parts
<1>0. ASSUME missed'[c] = missed[c], want'[c] = want[c]
      PROVE  AimedAt(requests[c], want[c], selected[c]) \/ ~connected[c] \/ Leaves(requests[c]) \/ Parts(wire[c])
  BY <1>0 DEF FocusFor, Lossy
<1> DEFINE Goal == AimedAt(requests'[c], want'[c], selected'[c]) \/ ~connected'[c] \/ Leaves(requests'[c]) \/ Parts(wire'[c])
<1>1. CASE Stays(c)
  BY <1>0, <1>1 DEF Stays, GatewayKept, FocusKept, SideKept, StoreKept, NotesKept, QueueKept, WireKept
<1>2. CASE AsksSome(c)
  <2>1. CASE Asks(c)
    <3>1. /\ selected'[c] = selected[c] /\ want'[c] = want[c] /\ connected'[c] = connected[c] /\ missed'[c] = missed[c]
          /\ wire'[c] = wire[c]
      BY <2>1 DEF Asks, GatewayKept, FocusKept, SideKept, StoreKept, NotesKept, WireKept
    <3>2. PICK r \in Requests : /\ r.k \in {"CONNECT", "SUBSCRIBE"}
                                /\ Added(requests[c], requests'[c], r) \/ Fronted(requests[c], requests'[c], r)
      BY <2>1 DEF Asks
    <3>3. ~Aims(r)
      BY <3>2 DEF Aims
    <3>4. /\ AimedAt(requests[c], want[c], selected[c]) => AimedAt(requests'[c], want[c], selected[c])
          /\ Leaves(requests[c]) => Leaves(requests'[c])
      BY <3>2, <3>3, AddedAims, FrontedAims
    <3> QED
      BY <1>0, <3>1, <3>4
  <2>2. CASE AsksLeave(c)
    <3>1. Added(requests[c], requests'[c], Disconnect) /\ Disconnect.k = "DISCONNECT"
      BY <2>2 DEF AsksLeave, Disconnect, Request
    <3> QED
      BY <3>1, AddedAims
  <2>3. ASSUME NEW p \in Panes, Selects(c, p) PROVE Goal
    <3> DEFINE r == Request("SELECT", nextTok, p, {})
    <3>1. Added(requests[c], requests'[c], r) /\ Aims(r) /\ r.pane = p /\ want'[c] = p
      BY <2>3 DEF Selects, Request, Aims
    <3> HIDE DEF r
    <3>2. AimedAt(requests'[c], r.pane, selected'[c])
      BY <3>1, AddedAims
    <3> QED
      BY <3>1, <3>2
  <2>4. ASSUME NEW p \in Panes, AsksFocus(c, p) PROVE Goal
    <3> DEFINE r == Request("FOCUS", 0, p, {})
    <3>1. Added(requests[c], requests'[c], r) /\ Aims(r) /\ r.pane = p /\ want'[c] = p
      BY <2>4 DEF AsksFocus, Request, Aims
    <3> HIDE DEF r
    <3>2. AimedAt(requests'[c], r.pane, selected'[c])
      BY <3>1, AddedAims
    <3> QED
      BY <3>1, <3>2
  <2>5. ASSUME NEW p \in Panes, AsksHistory(c, p) PROVE Goal
    <3> DEFINE r == Request("FETCH", nextTok, p, {})
    <3>1. /\ selected'[c] = selected[c] /\ want'[c] = want[c] /\ connected'[c] = connected[c] /\ missed'[c] = missed[c]
          /\ wire'[c] = wire[c]
      BY <2>5 DEF AsksHistory, GatewayKept, FocusKept, SideKept, StoreKept, NotesKept, WireKept
    <3>2. Added(requests[c], requests'[c], r) /\ ~Aims(r)
      BY <2>5 DEF AsksHistory, Request, Aims
    <3> HIDE DEF r
    <3>3. /\ AimedAt(requests[c], want[c], selected[c]) => AimedAt(requests'[c], want[c], selected[c])
          /\ Leaves(requests[c]) => Leaves(requests'[c])
      BY <3>2, AddedAims
    <3> QED
      BY <1>0, <3>1, <3>3
  <2> QED
    BY <1>2, <2>1, <2>2, <2>3, <2>4, <2>5 DEF AsksSome
<1>3. CASE TimesOutSome(c)
  BY <1>0, <1>3 DEF TimesOutSome, TimesOut, GateTimesOut, GatewayKept, FocusKept, SideKept, StoreKept, NotesKept, QueueKept, WireKept
<1>4. CASE ReadsSome(c)
  <2>1. /\ selected'[c] = selected[c] /\ want'[c] = want[c] /\ missed'[c] = missed[c] /\ requests'[c] = requests[c]
        /\ Popped(wire[c], wire'[c])
    BY <1>4, ReadsAny DEF Reads, GatewayKept, FocusKept, NotesKept, QueueKept
  <2>2. CASE ReadsLoss(c)
    BY <2>2 DEF ReadsLoss
  <2>3. CASE ReadsStatus(c)
    <3>1. wire[c][1].k \notin {"DISCONNECTED", "LOST"} /\ (~connected[c] => ~connected'[c])
      BY <2>1, <2>3, Tables DEF ReadsStatus
    <3> QED
      BY <1>0, <2>1, <3>1, PoppedAims
  <2>4. CASE ~ReadsLoss(c) /\ ~ReadsStatus(c)
    <3>1. connected'[c] = connected[c] /\ wire[c][1].k \notin {"DISCONNECTED", "LOST"}
      BY <1>4, <2>4, ReadsAny DEF ReadsSome, Refuses, ReadsAck, ReadsHistory, ReadsFetched, ReadsResume, Holds, Displays
    <3> QED
      BY <1>0, <2>1, <3>1, PoppedAims
  <2> QED
    BY <2>2, <2>3, <2>4
<1>5. CASE ServedSome(c)
  <2>1. /\ want'[c] = want[c] /\ connected'[c] = connected[c] /\ Popped(requests[c], requests'[c])
    BY <1>5, ServedAny DEF Served, StoreKept
  <2>2. ~Drops(c)
    BY DEF Drops
  <2>3. missed'[c] = missed[c]
    BY <1>5, <2>2 DEF ServedSome, ServedQuietly, ServedLeave, ServedSelect, ServedFocus, ServedHistory, NotesKept
  <2>4. CASE ServedLeave(c)
    <3>1. Added(wire[c], wire'[c], Status("DISCONNECTED")) /\ Status("DISCONNECTED").k = "DISCONNECTED"
      BY <2>4 DEF ServedLeave, Status
    <3> QED
      BY <3>1, AddedAims
  <2>5. Parts(wire[c]) => Parts(wire'[c])
    BY <1>5, <2>2, AddedAims DEF ServedSome, ServedQuietly, ServedLeave, ServedSelect, ServedFocus, ServedHistory, WireKept
  <2>6. CASE ServedSelect(c) \/ ServedFocus(c)
    <3>1. Aims(requests[c][1]) /\ selected'[c] = requests[c][1].pane /\ requests[c][1].k # "DISCONNECT"
      BY <2>6 DEF ServedSelect, ServedFocus, Aims
    <3> QED
      BY <1>0, <2>1, <2>3, <2>5, <3>1, PoppedAims
  <2>7. CASE ServedQuietly(c) \/ ServedHistory(c)
    <3>1. ~Aims(requests[c][1]) /\ selected'[c] = selected[c] /\ requests[c][1].k # "DISCONNECT"
      BY <2>7 DEF ServedQuietly, ServedHistory, Aims, GatewayKept, FocusKept
    <3> QED
      BY <1>0, <2>1, <2>3, <2>5, <3>1, PoppedAims
  <2> QED
    BY <1>5, <2>2, <2>4, <2>6, <2>7 DEF ServedSome
<1>6. CASE Loses(c)
  BY <1>6 DEF Loses
<1>7. CASE ActsSome(c)
  <2>1. /\ want'[c] = want[c] /\ connected'[c] = connected[c] /\ missed'[c] = missed[c] /\ requests'[c] = requests[c]
    BY <1>7, ActsAny DEF Beyond, StoreKept, QueueKept
  <2>2. CASE GivesUp(c)
    <3>1. Added(wire[c], wire'[c], Status("LOST")) /\ Status("LOST").k = "LOST"
      BY <2>2 DEF GivesUp, Status
    <3> QED
      BY <3>1, AddedAims
  <2>3. CASE ~GivesUp(c)
    <3>1. selected'[c] = selected[c]
      BY <1>7, <2>3 DEF ActsSome, Sends, HoldsBack, Unheard, SendsHistory, SendsFetched, Forgets, Tells, Releases, FocusKept
    <3>2. Parts(wire[c]) => Parts(wire'[c])
      <4>1. CASE Releases(c)
        <5> DEFINE n == Len(wire[c])
                   b == Len(buffer[c])
        <5>0. /\ n \in Nat /\ b \in Nat /\ Len(wire'[c]) = n + 1 + b
              /\ \A i \in 1 .. n : wire'[c][i] = wire[c][i]
          BY <4>1 DEF Releases
        <5> HIDE DEF n, b
        <5>1. \A i \in 1 .. n : i \in 1 .. Len(wire'[c])
          BY <5>0
        <5> QED
          BY <5>0, <5>1 DEF Parts, n
      <4> QED
        BY <1>7, <2>3, <4>1, AddedAims
           DEF ActsSome, Sends, HoldsBack, Unheard, SendsHistory, SendsFetched, Forgets, Tells, WireKept
    <3> QED
      BY <1>0, <2>1, <3>1, <3>2
  <2> QED
    BY <2>2, <2>3
<1> QED
  BY <1>1, <1>2, <1>3, <1>4, <1>5, <1>6, <1>7 DEF Effect

\* Whenever the two sides are at rest they agree on the focus, unless a request
\* was lost with its socket or ignored (selectPane, focusPane,
\* maybeReselectCurrentPane; handleTmuxSelect, handleFocusPane).
THEOREM FocusIsAgreed == AllSpec => []FocusAgrees
<1>1. AllInit => FocusInv
  BY DEF AllInit, FocusInv, FocusFor
<1>2. AInv /\ FocusInv /\ [AllNext]_allVars => FocusInv'
  <2> SUFFICES ASSUME AInv, FocusInv, [AllNext]_allVars, NEW c \in Clients PROVE FocusFor(c)'
    BY DEF FocusInv
  <2>1. Effect(c) /\ FocusFor(c)
    BY EveryEffect DEF FocusInv
  <2>2. want'[c] \in Panes \cup {NoPane}
    BY NextTyped DEF Typed, AllTypeOK
  <2> QED
    BY <2>1, <2>2, KeepsFocus
<1>3. AInv /\ FocusInv => FocusAgrees
  <2> SUFFICES ASSUME AInv, FocusInv, NEW c \in Clients, AtRest(c), want[c] # NoPane, ~missed[c] PROVE selected[c] = want[c]
    BY DEF FocusAgrees
  <2>1. Len(requests[c]) = 0 /\ Len(wire[c]) = 0 /\ connected[c]
    BY DEF AtRest
  <2>2. ~Lossy(c)
    BY <2>1 DEF Lossy, Leaves, Parts
  <2>3. AimedAt(requests[c], want[c], selected[c])
    BY <2>2 DEF FocusInv, FocusFor
  <2> QED
    BY <2>1, <2>3 DEF AimedAt
<1> QED
  BY InitAInv, NextAInv, <1>1, <1>2, <1>3, PTL DEF AllSpec
-----------------------------------------------------------------------------
(* The tokens: what is under way under the token t of the browser's open   *)
(* transaction is one request, or the frames of one switch in their order. *)

RankOf(k) == IF k = "ACK" THEN 1 ELSE IF k = "HISTORY" THEN 2 ELSE IF k = "RESUME" THEN 3 ELSE 0
Stage(s) == IF s = "ACKED" THEN 1 ELSE IF s = "HISTORY_APPLIED" THEN 2 ELSE 0

Below(q, n) == \A i \in 1 .. Len(q) : q[i].tok < n
Free(q, t) == \A i \in 1 .. Len(q) : q[i].tok # t
\* The select under t is the last one, and the only request under t.
OneSelect(rq, t, p) ==
    /\ \A i \in 1 .. Len(rq) : rq[i].tok = t => rq[i].k = "SELECT" /\ rq[i].pane = p
    /\ \A i \in 1 .. Len(rq) : rq[i].k = "SELECT" => \E j \in 1 .. Len(rq) : i <= j /\ rq[j].tok = t
    /\ \A i, j \in 1 .. Len(rq) : rq[i].tok = t /\ rq[j].tok = t => i = j
\* The frames under t are of pane p, beyond the stage lo, and in order, the
\* ACK before the others.
InTurn(w, t, p, lo) ==
    /\ \A i \in 1 .. Len(w) : w[i].tok = t => w[i].pane = p /\ lo < RankOf(w[i].k)
    /\ \A i, j \in 1 .. Len(w) : i < j /\ w[i].tok = t /\ w[j].tok = t => RankOf(w[i].k) < RankOf(w[j].k)
    /\ lo = 0 => \A i \in 1 .. Len(w) : w[i].tok = t =>
                    \E j \in 1 .. Len(w) : j <= i /\ w[j].tok = t /\ w[j].k = "ACK"
UpTo(w, t, hi) == \A i \in 1 .. Len(w) : w[i].tok = t => RankOf(w[i].k) <= hi
Resuming(w, t) == \E i \in 1 .. Len(w) : w[i].tok = t /\ w[i].k = "RESUME"

\* The browser's transaction x, what it has sent (rq) and will be sent (w), and
\* the gateway's switch (pd, s).
TokenOK(x, rq, w, pd, s) ==
    /\ x.state # "STABLE"
    /\ OneSelect(rq, x.tok, x.pane)
    /\ Free(rq, x.tok) \/ (pd.tok # x.tok /\ x.state = "SELECTING" /\ Free(w, x.tok))
    /\ InTurn(w, x.tok, x.pane, Stage(x.state))
    /\ pd.tok = x.tok =>
          /\ pd.pane = x.pane /\ Stage(x.state) <= Stage(s) /\ UpTo(w, x.tok, Stage(s))
          /\ x.state = "SELECTING" => ~Free(w, x.tok)
Answered(t, rq, w, pd) == ~Free(rq, t) \/ pd.tok = t \/ Resuming(w, t)

DrawnFor(c) ==
    /\ Below(requests[c], nextTok) /\ Below(wire[c], nextTok)
    /\ tx[c].tok < nextTok /\ pending[c].tok < nextTok
    /\ \A p \in Panes : fetches[c][p] < nextTok /\ historyGates[c][p].tok < nextTok
CurrentFor(c) == tx[c].tok # 0 =>
    /\ TokenOK(tx[c], requests[c], wire[c], pending[c], sst[c])
    /\ \A p \in Panes : fetches[c][p] # tx[c].tok /\ historyGates[c][p].tok # tx[c].tok
    /\ ~missed[c] => Answered(tx[c].tok, requests[c], wire[c], pending[c])
TokenInv == \A c \in Clients : DrawnFor(c) /\ CurrentFor(c)

\* r is to the token t what s was.
RequestsAlike(s, r, t) ==
    /\ Free(r, t) <=> Free(s, t)
    /\ \A p : OneSelect(s, t, p) => OneSelect(r, t, p)
FramesAlike(s, r, t) ==
    /\ Free(r, t) <=> Free(s, t)
    /\ \A p, lo : InTurn(s, t, p, lo) => InTurn(r, t, p, lo)
    /\ \A hi : UpTo(s, t, hi) => UpTo(r, t, hi)
    /\ Resuming(s, t) => Resuming(r, t)

\* r holds the items of s at the places moved by d, and no other under t.
Moved(s, r, t, d) ==
    /\ Len(s) \in Nat /\ Len(r) \in Nat /\ d \in Int
    /\ \A i \in 1 .. Len(s) : (s[i].tok = t \/ i + d \in 1 .. Len(r)) => i + d \in 1 .. Len(r) /\ r[i + d] = s[i]
    /\ \A i \in 1 .. Len(r) : r[i].tok = t => i - d \in 1 .. Len(s) /\ r[i] = s[i - d]

LEMMA MovedAlike ==
    ASSUME NEW s, NEW r, NEW t, NEW d, Moved(s, r, t, d)
    PROVE  FramesAlike(s, r, t)
<1>0. Len(s) \in Nat /\ Len(r) \in Nat /\ d \in Int
  BY DEF Moved
<1>1. ASSUME NEW i \in 1 .. Len(s), s[i].tok = t PROVE i + d \in 1 .. Len(r) /\ r[i + d] = s[i]
  BY <1>1 DEF Moved
<1>2. ASSUME NEW i \in 1 .. Len(r), r[i].tok = t PROVE i - d \in 1 .. Len(s) /\ s[i - d] = r[i]
  BY <1>2 DEF Moved
<1>3. Free(r, t) <=> Free(s, t)
  BY <1>1, <1>2 DEF Free
<1>4. ASSUME NEW p, NEW lo, InTurn(s, t, p, lo) PROVE InTurn(r, t, p, lo)
  <2>1. ASSUME NEW i \in 1 .. Len(r), r[i].tok = t PROVE r[i].pane = p /\ lo < RankOf(r[i].k)
    BY <1>2, <1>4, <2>1 DEF InTurn
  <2>2. ASSUME NEW i \in 1 .. Len(r), NEW j \in 1 .. Len(r), i < j, r[i].tok = t, r[j].tok = t
        PROVE  RankOf(r[i].k) < RankOf(r[j].k)
    <3>1. i - d < j - d
      BY <1>0, <2>2
    <3> QED
      BY <1>2, <1>4, <2>2, <3>1 DEF InTurn
  <2>3. ASSUME lo = 0, NEW i \in 1 .. Len(r), r[i].tok = t
        PROVE  \E j \in 1 .. Len(r) : j <= i /\ r[j].tok = t /\ r[j].k = "ACK"
    <3>1. PICK j \in 1 .. Len(s) : j <= i - d /\ s[j].tok = t /\ s[j].k = "ACK"
      BY <1>2, <1>4, <2>3 DEF InTurn
    <3>2. j + d <= i
      BY <1>0, <3>1
    <3> QED
      BY <1>1, <3>1, <3>2
  <2> QED
    BY <2>1, <2>2, <2>3 DEF InTurn
<1>5. ASSUME NEW hi, UpTo(s, t, hi) PROVE UpTo(r, t, hi)
  BY <1>2, <1>5 DEF UpTo
<1>6. Resuming(s, t) => Resuming(r, t)
  BY <1>1 DEF Resuming
<1> QED
  BY <1>3, <1>4, <1>5, <1>6 DEF FramesAlike
LEMMA MovedRequestsAlike ==
    ASSUME NEW s, NEW r, NEW t, NEW d, Moved(s, r, t, d),
           \A i \in 1 .. Len(r) : r[i].k = "SELECT" => i - d \in 1 .. Len(s) /\ s[i - d] = r[i]
    PROVE  RequestsAlike(s, r, t)
<1>0. Len(s) \in Nat /\ Len(r) \in Nat /\ d \in Int
  BY DEF Moved
<1>1. ASSUME NEW i \in 1 .. Len(s), s[i].tok = t PROVE i + d \in 1 .. Len(r) /\ r[i + d] = s[i]
  BY <1>1 DEF Moved
<1>2. ASSUME NEW i \in 1 .. Len(r), r[i].tok = t PROVE i - d \in 1 .. Len(s) /\ s[i - d] = r[i]
  BY <1>2 DEF Moved
<1>3. Free(r, t) <=> Free(s, t)
  BY <1>1, <1>2 DEF Free
<1>4. ASSUME NEW p, OneSelect(s, t, p) PROVE OneSelect(r, t, p)
  <2>1. ASSUME NEW i \in 1 .. Len(r), r[i].tok = t PROVE r[i].k = "SELECT" /\ r[i].pane = p
    BY <1>2, <1>4, <2>1 DEF OneSelect
  <2>2. ASSUME NEW i \in 1 .. Len(r), r[i].k = "SELECT" PROVE \E j \in 1 .. Len(r) : i <= j /\ r[j].tok = t
    <3>1. PICK j \in 1 .. Len(s) : i - d <= j /\ s[j].tok = t
      BY <1>4, <2>2 DEF OneSelect
    <3>2. i <= j + d
      BY <1>0, <3>1
    <3> QED
      BY <1>1, <3>1, <3>2
  <2>3. ASSUME NEW i \in 1 .. Len(r), NEW j \in 1 .. Len(r), r[i].tok = t, r[j].tok = t PROVE i = j
    <3>1. i - d = j - d
      BY <1>2, <1>4, <2>3 DEF OneSelect
    <3> QED
      BY <1>0, <3>1
  <2> QED
    BY <2>1, <2>2, <2>3 DEF OneSelect
<1> QED
  BY <1>3, <1>4 DEF RequestsAlike

\* What is added or taken away under another token changes nothing.
LEMMA AddedAlike ==
    ASSUME NEW s, NEW r, NEW m, Added(s, r, m)
    PROVE  /\ \A t : m.tok # t => FramesAlike(s, r, t)
           /\ \A t : m.tok # t /\ m.k # "SELECT" => RequestsAlike(s, r, t)
           /\ \A n : Below(s, n) /\ m.tok < n => Below(r, n)
<1>0. Len(s) \in Nat /\ Len(r) = Len(s) + 1 /\ r[Len(s) + 1] = m /\ \A i \in 1 .. Len(s) : r[i] = s[i]
  BY DEF Added
<1>1. /\ \A i \in 1 .. Len(s) : i + 0 \in 1 .. Len(r) /\ r[i + 0] = s[i]
      /\ \A i \in 1 .. Len(r) : i = Len(s) + 1 \/ (i - 0 \in 1 .. Len(s) /\ r[i] = s[i - 0])
  BY <1>0
<1>2. ASSUME NEW t, m.tok # t PROVE Moved(s, r, t, 0)
  BY <1>0, <1>1, <1>2 DEF Moved
<1>3. ASSUME NEW t, m.tok # t, m.k # "SELECT" PROVE RequestsAlike(s, r, t)
  <2>1. \A i \in 1 .. Len(r) : r[i].k = "SELECT" => i - 0 \in 1 .. Len(s) /\ s[i - 0] = r[i]
    BY <1>0, <1>1, <1>3
  <2> QED
    BY <1>2, <1>3, <2>1, MovedRequestsAlike
<1>4. ASSUME NEW n, Below(s, n), m.tok < n PROVE Below(r, n)
  BY <1>0, <1>1, <1>4 DEF Below
<1> QED
  BY <1>2, <1>3, <1>4, MovedAlike

LEMMA PoppedAlike ==
    ASSUME NEW s, NEW r, Popped(s, r)
    PROVE  /\ \A t : s[1].tok # t => FramesAlike(s, r, t) /\ RequestsAlike(s, r, t)
           /\ \A n : Below(s, n) => Below(r, n)
<1>0. Len(s) \in Nat \ {0} /\ Len(r) = Len(s) - 1 /\ \A i \in 1 .. Len(r) : r[i] = s[i + 1]
  BY DEF Popped
<1>1. /\ \A i \in 1 .. Len(r) : i - (-1) \in 1 .. Len(s) /\ r[i] = s[i - (-1)]
      /\ \A i \in 1 .. Len(s) : i = 1 \/ i + (-1) \in 1 .. Len(r)
      /\ \A i \in 1 .. Len(s) : i + (-1) \in 1 .. Len(r) => r[i + (-1)] = s[i]
  <2>1. \A i \in 1 .. Len(r) : i - (-1) \in 1 .. Len(s) /\ i + 1 = i - (-1)
    BY <1>0
  <2>2. \A i \in 1 .. Len(s) : (i = 1 \/ i + (-1) \in 1 .. Len(r)) /\ (i + (-1)) + 1 = i
    BY <1>0
  <2>3. \A i \in 1 .. Len(s) : i + (-1) \in 1 .. Len(r) => r[i + (-1)] = s[(i + (-1)) + 1]
    BY <1>0
  <2> QED
    BY <1>0, <2>1, <2>2, <2>3
<1>2. ASSUME NEW t, s[1].tok # t PROVE Moved(s, r, t, -1)
  <2>1. \A i \in 1 .. Len(s) : (s[i].tok = t \/ i + (-1) \in 1 .. Len(r)) => i + (-1) \in 1 .. Len(r) /\ r[i + (-1)] = s[i]
    BY <1>1, <1>2
  <2>2. \A i \in 1 .. Len(r) : r[i].tok = t => i - (-1) \in 1 .. Len(s) /\ r[i] = s[i - (-1)]
    BY <1>1
  <2>3. Len(s) \in Nat /\ Len(r) \in Nat /\ -1 \in Int
    BY <1>0
  <2> QED
    BY <2>1, <2>2, <2>3 DEF Moved
<1>3. ASSUME NEW t, s[1].tok # t PROVE RequestsAlike(s, r, t)
  <2>1. \A i \in 1 .. Len(r) : r[i].k = "SELECT" => i - (-1) \in 1 .. Len(s) /\ s[i - (-1)] = r[i]
    BY <1>1
  <2> QED
    BY <1>2, <1>3, <2>1, MovedRequestsAlike
<1>4. ASSUME NEW n, Below(s, n) PROVE Below(r, n)
  BY <1>1, <1>4 DEF Below
<1> QED
  BY <1>2, <1>3, <1>4, MovedAlike

LEMMA FrontedAlike ==
    ASSUME NEW s, NEW r, NEW m, Fronted(s, r, m), m.k # "SELECT"
    PROVE  /\ \A t : m.tok # t => RequestsAlike(s, r, t)
           /\ \A n : Below(s, n) /\ m.tok < n => Below(r, n)
<1>0. Len(s) \in Nat /\ Len(r) = Len(s) + 1 /\ r[1] = m /\ \A i \in 1 .. Len(s) : r[i + 1] = s[i]
  BY DEF Fronted
<1>1. /\ \A i \in 1 .. Len(s) : i + 1 \in 1 .. Len(r) /\ r[i + 1] = s[i]
      /\ \A i \in 1 .. Len(r) : i = 1 \/ (i - 1 \in 1 .. Len(s) /\ r[i] = s[i - 1])
  <2>1. \A i \in 1 .. Len(r) : i = 1 \/ (i - 1 \in 1 .. Len(s) /\ (i - 1) + 1 = i)
    BY <1>0
  <2>2. \A i \in 1 .. Len(r) : i - 1 \in 1 .. Len(s) => r[(i - 1) + 1] = s[i - 1]
    BY <1>0
  <2> QED
    BY <1>0, <2>1, <2>2
<1>3. ASSUME NEW t, m.tok # t PROVE RequestsAlike(s, r, t)
  <2>1. Moved(s, r, t, 1)
    BY <1>0, <1>1, <1>3 DEF Moved
  <2>2. \A i \in 1 .. Len(r) : r[i].k = "SELECT" => i - 1 \in 1 .. Len(s) /\ s[i - 1] = r[i]
    BY <1>0, <1>1
  <2> QED
    BY <2>1, <2>2, MovedRequestsAlike
<1>4. ASSUME NEW n, Below(s, n), m.tok < n PROVE Below(r, n)
  BY <1>0, <1>1, <1>4 DEF Below
<1> QED
  BY <1>3, <1>4
\* A frame of the switch is added, or read.
LEMMA AddedInTurn ==
    ASSUME NEW s, NEW r, NEW m, Added(s, r, m), NEW p, NEW lo \in Nat, NEW hi \in Nat,
           InTurn(s, m.tok, p, lo), UpTo(s, m.tok, hi), m.pane = p, lo < RankOf(m.k), hi < RankOf(m.k),
           lo = 0 /\ m.k # "ACK" => ~Free(s, m.tok)
    PROVE  InTurn(r, m.tok, p, lo) /\ UpTo(r, m.tok, RankOf(m.k)) /\ ~Free(r, m.tok) /\ (m.k = "RESUME" => Resuming(r, m.tok))
<1> DEFINE n == Len(s) + 1
           t == m.tok
           k == RankOf(m.k)
<1>0. Len(s) \in Nat /\ n \in Nat /\ Len(r) = n /\ r[n] = m /\ n \in 1 .. Len(r) /\ \A i \in 1 .. Len(s) : r[i] = s[i] /\ i < n /\ i \in 1 .. Len(r)
  BY DEF Added
<1>a. \A i \in 1 .. Len(r) : i = n \/ (i \in 1 .. Len(s) /\ i < n)
  BY <1>0
<1>b. k \in Nat /\ \A i \in 1 .. Len(s) : RankOf(s[i].k) \in Nat
  BY DEF RankOf
<1> HIDE DEF n, t, k
<1>1. ASSUME NEW i \in 1 .. Len(r), r[i].tok = t PROVE r[i].pane = p /\ lo < RankOf(r[i].k)
  BY <1>0, <1>1, <1>a DEF InTurn, t
<1>2. ASSUME NEW i \in 1 .. Len(r), NEW j \in 1 .. Len(r), i < j, r[i].tok = t, r[j].tok = t
      PROVE  RankOf(r[i].k) < RankOf(r[j].k)
  <2>1. i # n
    BY <1>0, <1>2, <1>a
  <2>2. i \in 1 .. Len(s) /\ r[i] = s[i]
    BY <1>0, <1>a, <2>1
  <2>3. CASE j = n
    <3>1. RankOf(s[i].k) <= hi /\ RankOf(r[j].k) = k
      BY <1>0, <1>2, <2>2, <2>3 DEF UpTo, t, k
    <3> QED
      BY <1>b, <2>2, <3>1 DEF k
  <2>4. CASE j # n
    BY <1>0, <1>2, <1>a, <2>2, <2>4 DEF InTurn, t
  <2> QED
    BY <2>3, <2>4
<1>3. ASSUME lo = 0, NEW i \in 1 .. Len(r), r[i].tok = t
      PROVE  \E j \in 1 .. Len(r) : j <= i /\ r[j].tok = t /\ r[j].k = "ACK"
  <2>1. CASE i # n
    <3>1. i \in 1 .. Len(s) /\ s[i].tok = t
      BY <1>0, <1>3, <1>a, <2>1
    <3>2. PICK j \in 1 .. Len(s) : j <= i /\ s[j].tok = t /\ s[j].k = "ACK"
      BY <1>3, <3>1 DEF InTurn, t
    <3> QED
      BY <1>0, <3>2
  <2>2. CASE i = n /\ m.k = "ACK"
    BY <1>0, <1>3, <2>2
  <2>3. CASE i = n /\ m.k # "ACK"
    <3>1. PICK h \in 1 .. Len(s) : s[h].tok = t
      BY <1>3, <2>3 DEF Free, t
    <3>2. PICK j \in 1 .. Len(s) : j <= h /\ s[j].tok = t /\ s[j].k = "ACK"
      BY <1>3, <3>1 DEF InTurn, t
    <3>3. j \in 1 .. Len(r) /\ j <= i /\ r[j] = s[j]
      BY <1>0, <2>3
    <3> QED
      BY <3>2, <3>3
  <2> QED
    BY <2>1, <2>2, <2>3
<1>4. InTurn(r, t, p, lo)
  BY <1>1, <1>2, <1>3 DEF InTurn
<1>5. UpTo(r, t, k)
  <2> SUFFICES ASSUME NEW i \in 1 .. Len(r), r[i].tok = t PROVE RankOf(r[i].k) <= k
    BY DEF UpTo
  <2>1. CASE i = n
    BY <1>0, <1>b, <2>1 DEF k
  <2>2. CASE i # n
    <3>1. RankOf(r[i].k) \in Nat /\ RankOf(r[i].k) <= hi /\ hi < k
      BY <1>0, <1>a, <1>b, <2>2 DEF UpTo, t, k
    <3> QED
      BY <1>b, <3>1
  <2> QED
    BY <2>1, <2>2
<1>6. ~Free(r, t)
  BY <1>0 DEF Free, t
<1>7. m.k = "RESUME" => Resuming(r, t)
  BY <1>0 DEF Resuming, t
<1> QED
  BY <1>4, <1>5, <1>6, <1>7 DEF t, k

LEMMA PoppedInTurn ==
    ASSUME NEW s, NEW r, Popped(s, r), NEW p, NEW lo \in Nat, NEW t, s[1].tok = t, InTurn(s, t, p, lo)
    PROVE  /\ s[1].pane = p /\ lo < RankOf(s[1].k) /\ InTurn(r, t, p, RankOf(s[1].k))
           /\ lo = 0 => s[1].k = "ACK"
           /\ \A hi : UpTo(s, t, hi) => RankOf(s[1].k) <= hi /\ UpTo(r, t, hi)
           /\ Resuming(s, t) /\ s[1].k # "RESUME" => Resuming(r, t)
<1>0. Len(s) \in Nat \ {0} /\ Len(r) = Len(s) - 1 /\ 1 \in 1 .. Len(s)
      /\ \A i \in 1 .. Len(r) : r[i] = s[i + 1] /\ i + 1 \in 1 .. Len(s) /\ 1 < i + 1
  BY DEF Popped
<1>a. \A j \in 1 .. Len(s) : j = 1 \/ (j - 1 \in 1 .. Len(r) /\ (j - 1) + 1 = j)
  BY <1>0
<1>1. s[1].pane = p /\ lo < RankOf(s[1].k)
  BY <1>0 DEF InTurn
<1>b. RankOf(s[1].k) # 0
  BY <1>1 DEF RankOf
<1>2. ASSUME NEW i \in 1 .. Len(r), r[i].tok = t PROVE r[i].pane = p /\ RankOf(s[1].k) < RankOf(r[i].k)
  BY <1>0, <1>2 DEF InTurn
<1>3. ASSUME NEW i \in 1 .. Len(r), NEW j \in 1 .. Len(r), i < j, r[i].tok = t, r[j].tok = t
      PROVE  RankOf(r[i].k) < RankOf(r[j].k)
  <2>1. i + 1 < j + 1
    BY <1>0, <1>3
  <2> QED
    BY <1>0, <1>3, <2>1 DEF InTurn
<1>4. InTurn(r, t, p, RankOf(s[1].k))
  BY <1>2, <1>3, <1>b DEF InTurn
<1>5. ASSUME lo = 0 PROVE s[1].k = "ACK"
  <2>1. PICK j \in 1 .. Len(s) : j <= 1 /\ s[j].tok = t /\ s[j].k = "ACK"
    BY <1>0, <1>5 DEF InTurn
  <2>2. j = 1
    BY <1>0, <2>1
  <2> QED
    BY <2>1, <2>2
<1>6. \A hi : UpTo(s, t, hi) => RankOf(s[1].k) <= hi /\ UpTo(r, t, hi)
  BY <1>0 DEF UpTo
<1>7. ASSUME Resuming(s, t), s[1].k # "RESUME" PROVE Resuming(r, t)
  <2>1. PICK j \in 1 .. Len(s) : s[j].tok = t /\ s[j].k = "RESUME"
    BY <1>7 DEF Resuming
  <2>2. j - 1 \in 1 .. Len(r) /\ r[j - 1] = s[j]
    BY <1>0, <1>7, <1>a, <2>1
  <2> QED
    BY <2>1, <2>2 DEF Resuming
<1> QED
  BY <1>1, <1>4, <1>5, <1>6, <1>7

\* The request under t is served: it was the last select.
LEMMA PoppedSelect ==
    ASSUME NEW s, NEW r, Popped(s, r), NEW t, NEW p, s[1].tok = t, OneSelect(s, t, p)
    PROVE  s[1].k = "SELECT" /\ s[1].pane = p /\ Free(r, t) /\ OneSelect(r, t, p)
<1>0. Len(s) \in Nat \ {0} /\ Len(r) = Len(s) - 1 /\ 1 \in 1 .. Len(s)
      /\ \A i \in 1 .. Len(r) : r[i] = s[i + 1] /\ i + 1 \in 1 .. Len(s) /\ 1 # i + 1 /\ ~(i + 1 <= 1)
  BY DEF Popped
<1>1. s[1].k = "SELECT" /\ s[1].pane = p
  BY <1>0 DEF OneSelect
<1>2. \A i \in 1 .. Len(r) : r[i].tok # t
  BY <1>0 DEF OneSelect
<1>3. ASSUME NEW i \in 1 .. Len(r) PROVE r[i].k # "SELECT"
  <2>1. SUFFICES ASSUME s[i + 1].k = "SELECT" PROVE FALSE
    BY <1>0
  <2>2. PICK j \in 1 .. Len(s) : i + 1 <= j /\ s[j].tok = t
    BY <1>0, <2>1 DEF OneSelect
  <2>3. j = 1
    BY <1>0, <2>2 DEF OneSelect
  <2> QED
    BY <1>0, <2>2, <2>3
<1> QED
  BY <1>1, <1>2, <1>3 DEF Free, OneSelect

\* A select under another token is served: the one under t is still to come.
LEMMA PoppedEarlier ==
    ASSUME NEW s, NEW r, Popped(s, r), NEW t, NEW p, s[1].k = "SELECT", OneSelect(s, t, p)
    PROVE  ~Free(s, t)
<1>1. 1 \in 1 .. Len(s)
  BY DEF Popped
<1> QED
  BY <1>1 DEF OneSelect, Free

\* A new select is the last request.
LEMMA AddedSelect ==
    ASSUME NEW s, NEW r, NEW m, Added(s, r, m), m.k = "SELECT", Free(s, m.tok)
    PROVE  OneSelect(r, m.tok, m.pane) /\ ~Free(r, m.tok)
<1> DEFINE n == Len(s) + 1
<1>0. Len(s) \in Nat /\ n \in Nat /\ Len(r) = n /\ r[n] = m /\ n \in 1 .. Len(r) /\ \A i \in 1 .. Len(s) : r[i] = s[i]
  BY DEF Added
<1>a. \A i \in 1 .. Len(r) : i <= n /\ (i = n \/ i \in 1 .. Len(s))
  BY <1>0
<1> HIDE DEF n
<1>1. \A i \in 1 .. Len(r) : r[i].tok = m.tok => i = n
  BY <1>0, <1>a DEF Free
<1> QED
  BY <1>0, <1>1, <1>a DEF OneSelect, Free

\* What the gateway sends when it releases a switch (pd) and the outputs b it held back.
Flushed(s, r, b, pd) ==
    /\ Len(s) \in Nat /\ Len(b) \in Nat /\ Len(r) = Len(s) + 1 + Len(b)
    /\ \A i \in 1 .. Len(s) : r[i] = s[i]
    /\ r[Len(s) + 1] = Resumed(pd.tok, pd.pane)
    /\ \A i \in 1 .. Len(b) : r[Len(s) + 1 + i] = Output(pd.pane, b[i])

LEMMA FlushedParts ==
    ASSUME NEW s, NEW r, NEW b, NEW pd, Flushed(s, r, b, pd)
    PROVE  /\ Len(s) + 1 \in 1 .. Len(r) /\ Len(s) \in Nat /\ Len(r) \in Nat
           /\ \A i \in 1 .. Len(s) : i \in 1 .. Len(r) /\ i < Len(s) + 1
           /\ \A i \in 1 .. Len(r) :
                 \/ i \in 1 .. Len(s) /\ r[i] = s[i]
                 \/ i = Len(s) + 1 /\ r[i] = Resumed(pd.tok, pd.pane)
                 \/ /\ i > Len(s) + 1 /\ i - (Len(s) + 1) \in 1 .. Len(b)
                    /\ r[i] = Output(pd.pane, b[i - (Len(s) + 1)]) /\ r[i].tok = 0
           /\ \A i \in 1 .. Len(b) : Len(s) + 1 + i \in 1 .. Len(r)
<1> DEFINE n == Len(s) + 1
           d == Len(b)
<1>0. Len(s) \in Nat /\ n \in Nat /\ d \in Nat /\ Len(r) = n + d /\ Len(s) < n /\ Len(s) = n - 1
  BY DEF Flushed
<1> HIDE DEF n, d
<1>1. /\ n \in 1 .. n + d /\ n + d \in Nat
      /\ \A i \in 1 .. n - 1 : i \in 1 .. n + d /\ i < n
      /\ \A i \in 1 .. d : n + i \in 1 .. n + d
      /\ \A i \in 1 .. n + d : i \in 1 .. n - 1 \/ i = n \/ (i > n /\ i - n \in 1 .. d /\ n + (i - n) = i)
  BY <1>0
<1>2. ASSUME NEW i \in 1 .. Len(r)
      PROVE  \/ i \in 1 .. Len(s) /\ r[i] = s[i]
             \/ i = n /\ r[i] = Resumed(pd.tok, pd.pane)
             \/ i > n /\ i - n \in 1 .. d /\ r[i] = Output(pd.pane, b[i - n])
  <2>1. i \in 1 .. n - 1 \/ i = n \/ (i > n /\ i - n \in 1 .. d /\ n + (i - n) = i)
    BY <1>0, <1>1
  <2>2. CASE i \in 1 .. n - 1
    BY <1>0, <2>2 DEF Flushed
  <2>3. CASE i = n
    BY <2>3 DEF Flushed, n
  <2>4. CASE i > n /\ i - n \in 1 .. d /\ n + (i - n) = i
    <3>1. r[n + (i - n)] = Output(pd.pane, b[i - n])
      BY <2>4 DEF Flushed, n, d
    <3> QED
      BY <2>4, <3>1
  <2> QED
    BY <2>1, <2>2, <2>3, <2>4
<1>3. \A q, o : Output(q, o).tok = 0
  BY DEF Output
<1> QED
  BY <1>0, <1>1, <1>2, <1>3 DEF n, d

LEMMA FlushedAlike ==
    ASSUME NEW s, NEW r, NEW b, NEW pd, Flushed(s, r, b, pd), NEW t, t # 0, pd.tok # t
    PROVE  FramesAlike(s, r, t)
<1>1. Moved(s, r, t, 0)
  <2>1. Len(s) \in Nat /\ Len(r) \in Nat /\ 0 \in Int
    BY FlushedParts
  <2>2. ASSUME NEW i \in 1 .. Len(s) PROVE i + 0 \in 1 .. Len(r) /\ r[i + 0] = s[i]
    <3>1. i \in 1 .. Len(r) /\ r[i] = s[i]
      BY FlushedParts DEF Flushed
    <3>2. i + 0 = i
      BY <2>1
    <3> QED
      BY <3>1, <3>2
  <2>3. ASSUME NEW i \in 1 .. Len(r), r[i].tok = t PROVE i - 0 \in 1 .. Len(s) /\ r[i] = s[i - 0]
    <3>1. Resumed(pd.tok, pd.pane).tok # t
      BY DEF Resumed
    <3>2. i \in 1 .. Len(s) /\ r[i] = s[i]
      BY <2>3, <3>1, FlushedParts
    <3>3. i - 0 = i
      BY <2>1
    <3> QED
      BY <3>2, <3>3
  <2> QED
    BY <2>1, <2>2, <2>3 DEF Moved
<1> QED
  BY <1>1, MovedAlike

LEMMA FlushedInTurn ==
    ASSUME NEW s, NEW r, NEW b, NEW pd, Flushed(s, r, b, pd), pd.tok # 0, NEW lo \in 0 .. 2, InTurn(s, pd.tok, pd.pane, lo),
           UpTo(s, pd.tok, 2), lo = 0 => ~Free(s, pd.tok)
    PROVE  InTurn(r, pd.tok, pd.pane, lo) /\ Resuming(r, pd.tok)
<1> DEFINE t == pd.tok
           n == Len(s) + 1
           m == Resumed(pd.tok, pd.pane)
<1>m. m.tok = t /\ m.pane = pd.pane /\ m.k = "RESUME" /\ RankOf(m.k) = 3
  BY DEF Resumed, RankOf
<1>0. ASSUME NEW i \in 1 .. Len(r), r[i].tok = t PROVE (i \in 1 .. Len(s) /\ r[i] = s[i] /\ i < n) \/ (i = n /\ r[i] = m)
  BY <1>0, FlushedParts
<1>n. n \in 1 .. Len(r) /\ n \in Nat /\ r[n] = m /\ \A i \in 1 .. Len(s) : i \in 1 .. Len(r) /\ i < n /\ r[i] = s[i]
  BY FlushedParts DEF Flushed
<1>b. \A i \in 1 .. Len(s) : RankOf(s[i].k) \in Nat
  BY DEF RankOf
<1> HIDE DEF n, t, m
<1>1. ASSUME NEW i \in 1 .. Len(r), r[i].tok = t PROVE r[i].pane = pd.pane /\ lo < RankOf(r[i].k)
  <2>1. CASE i = n
    BY <1>m, <1>n, <2>1
  <2>2. CASE i # n
    BY <1>0, <1>1, <2>2 DEF InTurn, t
  <2> QED
    BY <2>1, <2>2
<1>2. ASSUME NEW i \in 1 .. Len(r), NEW j \in 1 .. Len(r), i < j, r[i].tok = t, r[j].tok = t
      PROVE  RankOf(r[i].k) < RankOf(r[j].k)
  <2>1. i # n
    BY <1>0, <1>2, <1>n
  <2>2. i \in 1 .. Len(s) /\ r[i] = s[i]
    BY <1>0, <1>2, <2>1
  <2>3. CASE j = n
    <3>1. RankOf(s[i].k) <= 2 /\ RankOf(r[j].k) = 3
      BY <1>2, <1>m, <1>n, <2>2, <2>3 DEF UpTo, t
    <3> QED
      BY <1>b, <2>2, <3>1
  <2>4. CASE j # n
    BY <1>0, <1>2, <2>2, <2>4 DEF InTurn, t
  <2> QED
    BY <2>3, <2>4
<1>3. ASSUME lo = 0, NEW i \in 1 .. Len(r), r[i].tok = t
      PROVE  \E j \in 1 .. Len(r) : j <= i /\ r[j].tok = t /\ r[j].k = "ACK"
  <2>1. PICK h \in 1 .. Len(s) : h <= i /\ s[h].tok = t
    <3>1. CASE i # n
      BY <1>0, <1>3, <3>1
    <3>2. CASE i = n
      <4>1. PICK h \in 1 .. Len(s) : s[h].tok = t
        BY <1>3 DEF Free, t
      <4>2. h <= i
        BY <1>n, <3>2
      <4> QED
        BY <4>1, <4>2
    <3> QED
      BY <3>1, <3>2
  <2>2. PICK j \in 1 .. Len(s) : j <= h /\ s[j].tok = t /\ s[j].k = "ACK"
    BY <1>3, <2>1 DEF InTurn, t
  <2>3. j \in 1 .. Len(r) /\ j <= i /\ r[j] = s[j]
    BY <1>n, <2>1, <2>2
  <2> QED
    BY <2>2, <2>3
<1>4. InTurn(r, t, pd.pane, lo)
  BY <1>1, <1>2, <1>3 DEF InTurn
<1>5. Resuming(r, t)
  BY <1>m, <1>n DEF Resuming
<1> QED
  BY <1>4, <1>5 DEF t
\* Reading opens no history gate; the gateway's steps begin no fetch.
LEMMA GatesKept ==
    ASSUME AInv, NEW c \in Clients, ReadsSome(c)
    PROVE  \A p \in Panes : historyGates'[c][p].tok \in {0, historyGates[c][p].tok}
<1> SUFFICES ASSUME NEW p \in Panes PROVE historyGates'[c][p].tok \in {0, historyGates[c][p].tok}
  OBVIOUS
<1>1. CASE ReadsFetched(c)
  <2> DEFINE m == wire[c][1]
  <2>1. Elsewhere(c, m.pane) /\ historyGates'[c][m.pane].tok = 0
    BY <1>1 DEF ReadsFetched
  <2> QED
    BY <2>1 DEF Elsewhere
<1>2. ASSUME NEW q, NEW b, Dispatched(c, q, b) PROVE historyGates'[c][p].tok \in {0, historyGates[c][p].tok}
  BY <1>2 DEF Dispatched, Elsewhere
<1>3. CASE ReadsResume(c) \/ Displays(c)
  BY <1>2, <1>3 DEF ReadsResume, Displays
<1>4. CASE ReadsLoss(c)
  BY <1>4 DEF ReadsLoss
<1>5. CASE ReadsStatus(c) \/ Refuses(c) \/ ReadsAck(c) \/ ReadsHistory(c) \/ Holds(c)
  <2>1. historyGates'[c] = historyGates[c]
    BY <1>5 DEF ReadsStatus, Refuses, ReadsAck, ReadsHistory, Holds, BrowserKept, SinksKept
  <2> QED
    BY <2>1
<1> QED
  BY <1>1, <1>3, <1>4, <1>5 DEF ReadsSome

LEMMA FetchesFall ==
    ASSUME AInv, NEW c \in Clients, ActsSome(c)
    PROVE  \A p \in Panes : fetches'[c][p] \in {0, fetches[c][p]}
<1>1. CASE SendsFetched(c)
  <2>1. PICK q \in Panes : fetches'[c] = [fetches[c] EXCEPT ![q] = 0]
    BY <1>1 DEF SendsFetched
  <2>2. fetches[c] \in [Panes -> Nat]
    BY Tables
  <2> QED
    BY <2>1, <2>2
<1>2. CASE Forgets(c)
  BY <1>2 DEF Forgets
<1>3. CASE ~SendsFetched(c) /\ ~Forgets(c)
  BY <1>3 DEF ActsSome, Sends, HoldsBack, Unheard, SendsHistory, Tells, GivesUp, Releases, FetchesKept
<1> QED
  BY <1>1, <1>2, <1>3

LEMMA KeepsDrawn ==
    ASSUME AInv, NEW c \in Clients, DrawnFor(c), Effect(c), nextTok <= nextTok', nextTok' \in Nat
    PROVE  DrawnFor(c)'
<1> DEFINE n == nextTok'
<1>t. /\ nextTok \in Nat \ {0} /\ tx[c].tok \in Nat /\ pending[c].tok \in Nat
      /\ \A p \in Panes : fetches[c][p] \in Nat /\ historyGates[c][p].tok \in Nat
  BY SideTypes, Tables DEF AInv, Typed
<1>0. /\ n \in Nat /\ 0 < n /\ tx[c].tok < n /\ pending[c].tok < n
      /\ \A p \in Panes : fetches[c][p] < n /\ historyGates[c][p].tok < n
  BY <1>t DEF DrawnFor
<1>r. Below(requests[c], n)
  <2> SUFFICES ASSUME NEW i \in 1 .. Len(requests[c]) PROVE requests[c][i].tok < n
    BY DEF Below
  <2>1. requests[c] \in Seq(Requests) /\ requests[c][i].tok < nextTok
    BY Tables DEF DrawnFor, Below
  <2>3. requests[c][i] \in Requests
    BY <2>1, ElementOfSeq
  <2>2. requests[c][i].tok \in Nat
    BY <2>3 DEF Requests
  <2> QED
    BY <1>t, <2>1, <2>2
<1>w. Below(wire[c], n)
  <2> SUFFICES ASSUME NEW i \in 1 .. Len(wire[c]) PROVE wire[c][i].tok < n
    BY DEF Below
  <2>1. wire[c] \in Seq(Frame) /\ wire[c][i].tok < nextTok
    BY Tables DEF DrawnFor, Below
  <2>3. wire[c][i] \in Frame
    BY <2>1, ElementOfSeq
  <2>2. wire[c][i].tok \in Nat
    BY <2>3 DEF Frame
  <2> QED
    BY <1>t, <2>1, <2>2
<1>n. nextTok' = nextTok + 1 => nextTok < n
  BY <1>t
<1> HIDE DEF n
<1> DEFINE Goal == /\ Below(requests'[c], n) /\ Below(wire'[c], n) /\ tx'[c].tok < n /\ pending'[c].tok < n
                   /\ \A p \in Panes : fetches'[c][p] < n /\ historyGates'[c][p].tok < n
<1> SUFFICES Goal
  BY DEF DrawnFor, n, Below
<1>1. CASE Stays(c)
  BY <1>0, <1>r, <1>w, <1>1 DEF Stays, GatewayKept, SwitchKept, FetchesKept, BrowserKept, MachineKept, SinksKept, QueueKept, WireKept
<1>2. CASE AsksSome(c)
  <2>1. wire'[c] = wire[c] \/ \E p \in Panes : Selects(c, p)
    BY <1>2 DEF AsksSome, Asks, AsksLeave, AsksFocus, AsksHistory, WireKept
  <2>2. Below(wire'[c], n)
    BY <1>w, <2>1, PoppedAlike DEF Selects, WireKept
  <2>3. pending'[c].tok < n /\ \A p \in Panes : fetches'[c][p] < n
    BY <1>0, <1>2 DEF AsksSome, Asks, AsksLeave, Selects, AsksFocus, AsksHistory, GatewayKept, SwitchKept, FetchesKept
  <2>4. CASE Asks(c)
    <3>1. tx'[c].tok < n /\ \A p \in Panes : historyGates'[c][p].tok < n
      BY <1>0, <2>4 DEF Asks, BrowserKept, MachineKept, SinksKept
    <3>2. PICK r \in Requests : /\ r.k \in {"CONNECT", "SUBSCRIBE"} /\ RequestOK(r)
                                /\ Added(requests[c], requests'[c], r) \/ Fronted(requests[c], requests'[c], r)
      BY <2>4 DEF Asks
    <3>3. r.tok < n /\ r.k # "SELECT"
      BY <1>0, <3>2 DEF RequestOK
    <3> QED
      BY <1>r, <2>2, <2>3, <3>1, <3>2, <3>3, AddedAlike, FrontedAlike
  <2>5. CASE AsksLeave(c)
    <3>1. tx'[c].tok < n /\ \A p \in Panes : historyGates'[c][p].tok < n
      BY <1>0, <2>5 DEF AsksLeave, Ended, SinksKept
    <3>2. Disconnect.tok < n
      BY <1>0 DEF Disconnect, Request
    <3> QED
      BY <1>r, <2>2, <2>3, <2>5, <3>1, <3>2, AddedAlike DEF AsksLeave
  <2>6. ASSUME NEW p \in Panes, Selects(c, p) PROVE Goal
    <3>1. tx'[c].tok < n /\ \A q \in Panes : historyGates'[c][q].tok < n
      BY <1>0, <1>n, <2>6 DEF Selects, SinksKept
    <3>2. Request("SELECT", nextTok, p, {}).tok < n
      BY <1>n, <2>6 DEF Request, Selects
    <3> QED
      BY <1>r, <2>2, <2>3, <2>6, <3>1, <3>2, AddedAlike DEF Selects
  <2>7. ASSUME NEW p \in Panes, AsksFocus(c, p) PROVE Goal
    <3>1. tx'[c].tok < n /\ \A q \in Panes : historyGates'[c][q].tok < n
      BY <1>0, <2>7 DEF AsksFocus, BrowserKept, MachineKept, SinksKept
    <3>2. Request("FOCUS", 0, p, {}).tok < n
      BY <1>0 DEF Request
    <3> QED
      BY <1>r, <2>2, <2>3, <2>7, <3>1, <3>2, AddedAlike DEF AsksFocus
  <2>8. ASSUME NEW p \in Panes, AsksHistory(c, p) PROVE Goal
    <3>1. tx'[c].tok < n /\ \A q \in Panes : historyGates'[c][q].tok < n
      BY <1>0, <1>n, <2>8 DEF AsksHistory, MachineKept, Elsewhere
    <3>2. Request("FETCH", nextTok, p, {}).tok < n
      BY <1>n, <2>8 DEF Request, AsksHistory
    <3> QED
      BY <1>r, <2>2, <2>3, <2>8, <3>1, <3>2, AddedAlike DEF AsksHistory
  <2> QED
    BY <1>2, <2>4, <2>5, <2>6, <2>7, <2>8 DEF AsksSome
<1>3. CASE TimesOutSome(c)
  BY <1>0, <1>r, <1>w, <1>3 DEF TimesOutSome, TimesOut, GateTimesOut, GatewayKept, SwitchKept, FetchesKept, MachineKept, SinksKept,
     Ended, Elsewhere, QueueKept, WireKept
<1>4. CASE ReadsSome(c)
  <2>1. Below(requests'[c], n) /\ Below(wire'[c], n) /\ pending'[c].tok < n /\ \A p \in Panes : fetches'[c][p] < n
    BY <1>0, <1>r, <1>w, <1>4, ReadsAny, PoppedAlike DEF Reads, GatewayKept, SwitchKept, FetchesKept, QueueKept
  <2>2. tx'[c].tok < n
    BY <1>0, <1>4 DEF ReadsSome, ReadsStatus, ReadsLoss, Refuses, ReadsAck, ReadsHistory, ReadsFetched, ReadsResume, Holds, Displays,
       BrowserKept, MachineKept, Ended, Advanced
  <2>3. \A p \in Panes : historyGates'[c][p].tok \in {0, historyGates[c][p].tok}
    BY <1>4, GatesKept
  <2> QED
    BY <1>0, <2>1, <2>2, <2>3
<1>5. CASE ServedSome(c)
  <2>1. Served(c)
    BY <1>5, ServedAny
  <2>2. requests[c][1].tok < n
    BY <1>r, <2>1, PoppedRequest DEF Served, Below
  <2>3. Below(requests'[c], n) /\ tx'[c].tok < n /\ \A p \in Panes : historyGates'[c][p].tok < n
    BY <1>0, <1>r, <2>1, PoppedAlike DEF Served, BrowserKept, MachineKept, SinksKept
  <2>4. pending'[c].tok < n
    BY <1>0, <1>5, <2>2 DEF ServedSome, ServedQuietly, ServedLeave, ServedSelect, ServedFocus, ServedHistory, Drops, GatewayKept, SwitchKept
  <2>5. \A p \in Panes : fetches'[c][p] < n
    BY <1>0, <1>5, <2>2 DEF ServedSome, ServedQuietly, ServedLeave, ServedSelect, ServedFocus, ServedHistory, Drops, GatewayKept, FetchesKept
  <2>6. Below(wire'[c], n)
    <3>1. Status("CONNECTED").tok < n /\ Status("DISCONNECTED").tok < n /\ Ack(requests[c][1].tok, requests[c][1].pane).tok < n
      BY <1>0, <2>2 DEF Status, Ack
    <3> QED
      BY <1>w, <1>5, <3>1, AddedAlike DEF ServedSome, ServedQuietly, ServedLeave, ServedSelect, ServedFocus, ServedHistory, Drops, WireKept
  <2> QED
    BY <2>3, <2>4, <2>5, <2>6
<1>6. CASE Loses(c)
  BY <1>0, <1>6 DEF Loses, BrowserKept, MachineKept, SinksKept, Below
<1>7. CASE ActsSome(c)
  <2>1. Below(requests'[c], n) /\ tx'[c].tok < n /\ \A p \in Panes : historyGates'[c][p].tok < n
    BY <1>0, <1>r, <1>7, ActsAny DEF Beyond, BrowserKept, MachineKept, SinksKept, QueueKept
  <2>2. pending'[c].tok < n
    BY <1>0, <1>7 DEF ActsSome, Sends, HoldsBack, Unheard, SendsHistory, SendsFetched, Forgets, Tells, GivesUp, Releases, SwitchKept
  <2>3. \A p \in Panes : fetches'[c][p] \in {0, fetches[c][p]}
    BY <1>7, FetchesFall
  <2>4. Below(wire'[c], n)
    <3>1. ASSUME NEW p \in Panes, Sends(c, p) PROVE Below(wire'[c], n)
      <4>1. Output(p, Chunked(p)).tok < n
        BY <1>0 DEF Output
      <4> QED
        BY <1>w, <3>1, <4>1, AddedAlike DEF Sends
    <3>2. CASE Tells(c, "RECONNECTING") \/ Tells(c, "RECONNECTED") \/ GivesUp(c)
      <4>1. \A s : Status(s).tok < n
        BY <1>0 DEF Status
      <4> QED
        BY <1>w, <3>2, <4>1, AddedAlike DEF Tells, GivesUp
    <3>3. CASE SendsHistory(c) \/ SendsFetched(c)
      BY <1>0, <1>w, <3>3, AddedAlike DEF SendsHistory, SendsFetched
    <3>4. CASE Releases(c)
      <4>1. Flushed(wire[c], wire'[c], buffer[c], pending[c])
        BY <3>4 DEF Releases, Flushed
      <4>2. ASSUME NEW i \in 1 .. Len(wire'[c]) PROVE wire'[c][i].tok < n
        <5>1. Resumed(pending[c].tok, pending[c].pane).tok < n
          BY <1>0 DEF Resumed
        <5>2. \/ i \in 1 .. Len(wire[c]) /\ wire'[c][i] = wire[c][i]
              \/ wire'[c][i] = Resumed(pending[c].tok, pending[c].pane)
              \/ wire'[c][i].tok = 0
          BY <4>1, <4>2, FlushedParts
        <5> QED
          BY <1>0, <1>w, <5>1, <5>2 DEF Below
      <4> QED
        BY <4>2 DEF Below
    <3> QED
      BY <1>w, <1>7, <3>1, <3>2, <3>3, <3>4 DEF ActsSome, HoldsBack, Unheard, Forgets, WireKept
  <2> QED
    BY <1>0, <2>1, <2>2, <2>3, <2>4
<1> QED
  BY <1>1, <1>2, <1>3, <1>4, <1>5, <1>6, <1>7 DEF Effect
LEMMA SelfAlike == \A q, t : RequestsAlike(q, q, t) /\ FramesAlike(q, q, t)
BY DEF RequestsAlike, FramesAlike

LEMMA TokenAlike ==
    ASSUME NEW x, NEW y, NEW rq, NEW rr, NEW w, NEW v, NEW pd, NEW qd, NEW s, NEW u,
           TokenOK(x, rq, w, pd, s), y.tok = x.tok, y.pane = x.pane, y.state = x.state,
           RequestsAlike(rq, rr, x.tok), FramesAlike(w, v, x.tok),
           (qd = pd /\ u = s) \/ qd.tok # x.tok
    PROVE  TokenOK(y, rr, v, qd, u)
BY DEF TokenOK, RequestsAlike, FramesAlike

LEMMA AnsweredAlike ==
    ASSUME NEW t, NEW rq, NEW rr, NEW w, NEW v, NEW pd, NEW qd, Answered(t, rq, w, pd),
           RequestsAlike(rq, rr, t), FramesAlike(w, v, t), qd = pd
    PROVE  Answered(t, rr, v, qd)
BY DEF Answered, RequestsAlike, FramesAlike

\* A step that leaves the transaction, the switch, and what is under way under
\* the transaction's token.
Undisturbed(c) ==
    /\ tx'[c].tok = tx[c].tok /\ tx'[c].pane = tx[c].pane /\ tx'[c].state = tx[c].state
    /\ RequestsAlike(requests[c], requests'[c], tx[c].tok) /\ FramesAlike(wire[c], wire'[c], tx[c].tok)
    /\ pending'[c] = pending[c] /\ sst'[c] = sst[c]
    /\ \A p \in Panes : fetches'[c][p] # tx[c].tok /\ historyGates'[c][p].tok # tx[c].tok

LEMMA UndisturbedCurrent ==
    ASSUME NEW c \in Clients, CurrentFor(c), Undisturbed(c), ~missed'[c] => ~missed[c], tx[c].tok # 0
    PROVE  CurrentFor(c)'
<1>1. /\ TokenOK(tx[c], requests[c], wire[c], pending[c], sst[c])
      /\ ~missed[c] => Answered(tx[c].tok, requests[c], wire[c], pending[c])
  BY DEF CurrentFor
<1>2. TokenOK(tx'[c], requests'[c], wire'[c], pending'[c], sst'[c])
  BY <1>1, TokenAlike DEF Undisturbed
<1>3. ~missed[c] => Answered(tx'[c].tok, requests'[c], wire'[c], pending'[c])
  BY <1>1, AnsweredAlike DEF Undisturbed
<1> QED
  BY <1>2, <1>3 DEF CurrentFor, Undisturbed

LEMMA RequestToken ==
    ASSUME AInv, NEW c \in Clients, tx[c].tok # 0, CurrentFor(c), NEW i \in 1 .. Len(requests[c]), requests[c][i].k # "SELECT"
    PROVE  requests[c][i].tok # tx[c].tok
BY DEF CurrentFor, TokenOK, OneSelect

\* The user's and the timers' steps.
LEMMA AsksKeepCurrent ==
    ASSUME AInv, NEW c \in Clients, DrawnFor(c), CurrentFor(c), AsksSome(c) \/ TimesOutSome(c)
    PROVE  CurrentFor(c)'
<1>t. nextTok \in Nat /\ nextTok # 0
  BY Tables
<1>1. CASE AsksLeave(c) \/ TimesOut(c)
  BY <1>1 DEF AsksLeave, TimesOut, Ended, CurrentFor
<1>2. ASSUME NEW p \in Panes, Selects(c, p) PROVE CurrentFor(c)'
  <2> DEFINE t == nextTok
             m == Request("SELECT", t, p, {})
             x == [tok |-> t, pane |-> p, state |-> "SELECTING"]
  <2>1. m.tok = t /\ m.pane = p /\ m.k = "SELECT" /\ x.tok = t /\ x.pane = p /\ x.state = "SELECTING" /\ Stage(x.state) = 0
    BY DEF Request, Stage
  <2>2. tx'[c] = x /\ Added(requests[c], requests'[c], m) /\ pending'[c] = pending[c] /\ sst'[c] = sst[c]
    BY <1>2 DEF Selects, GatewayKept, SwitchKept
  <2>3. Below(requests[c], t) /\ Below(wire[c], t) /\ pending[c].tok < t
        /\ \A q \in Panes : fetches[c][q] < t /\ historyGates[c][q].tok < t
    BY DEF DrawnFor
  <2>4. Below(wire'[c], t)
    BY <1>2, <2>3, PoppedAlike DEF Selects, WireKept
  <2>5. Free(requests[c], t) /\ Free(wire'[c], t) /\ pending'[c].tok # t
    <3>1. ASSUME NEW q, Below(q, t) PROVE Free(q, t)
      BY <1>t, <3>1 DEF Below, Free
    <3> QED
      BY <1>t, <2>2, <2>3, <2>4, <3>1
  <2>6. \A q \in Panes : fetches'[c][q] # t /\ historyGates'[c][q].tok # t
    BY <1>t, <1>2, <2>3 DEF Selects, GatewayKept, FetchesKept, SinksKept
  <2> HIDE DEF m, x, t
  <2>7. OneSelect(requests'[c], t, p) /\ ~Free(requests'[c], t)
    BY <2>1, <2>2, <2>5, AddedSelect
  <2>8. InTurn(wire'[c], t, p, 0)
    BY <2>5 DEF Free, InTurn
  <2>9. TokenOK(x, requests'[c], wire'[c], pending'[c], sst'[c])
    BY <2>1, <2>5, <2>7, <2>8 DEF TokenOK
  <2> QED
    BY <2>1, <2>2, <2>6, <2>7, <2>9 DEF CurrentFor, Answered
<1>3. CASE tx[c].tok = 0 /\ ~(AsksLeave(c) \/ TimesOut(c)) /\ ~(\E p \in Panes : Selects(c, p))
  BY <1>3 DEF AsksSome, TimesOutSome, Asks, AsksFocus, AsksHistory, GateTimesOut, BrowserKept, MachineKept, CurrentFor
<1>4. CASE tx[c].tok # 0 /\ ~(AsksLeave(c) \/ TimesOut(c)) /\ ~(\E p \in Panes : Selects(c, p))
  <2> DEFINE t == tx[c].tok
  <2>1. tx[c].tok \in Nat /\ t < nextTok /\ t # 0
    BY <1>4, Tables DEF DrawnFor
  <2>2. /\ tx'[c] = tx[c] /\ pending'[c] = pending[c] /\ sst'[c] = sst[c] /\ fetches'[c] = fetches[c]
        /\ FramesAlike(wire[c], wire'[c], t) /\ missed'[c] = missed[c]
    BY <1>4, SelfAlike DEF AsksSome, TimesOutSome, Asks, AsksFocus, AsksHistory, GateTimesOut, BrowserKept, MachineKept,
       GatewayKept, SwitchKept, FetchesKept, WireKept, SideKept, NotesKept
  <2>3. \A p \in Panes : historyGates'[c][p].tok \in {0, nextTok, historyGates[c][p].tok}
    BY <1>4 DEF AsksSome, TimesOutSome, Asks, AsksFocus, AsksHistory, GateTimesOut, BrowserKept, SinksKept, Elsewhere
  <2>4. \A p \in Panes : fetches[c][p] # t /\ historyGates[c][p].tok # t
    BY <1>4 DEF CurrentFor
  <2>5. \A p \in Panes : fetches'[c][p] # t /\ historyGates'[c][p].tok # t
    BY <1>t, <2>1, <2>2, <2>3, <2>4
  <2>6. RequestsAlike(requests[c], requests'[c], t)
    <3>1. CASE Asks(c)
      <4>1. PICK r \in Requests : /\ r.k \in {"CONNECT", "SUBSCRIBE"} /\ RequestOK(r)
                                  /\ Added(requests[c], requests'[c], r) \/ Fronted(requests[c], requests'[c], r)
        BY <3>1 DEF Asks
      <4>2. r.tok # t /\ r.k # "SELECT"
        BY <2>1, <4>1 DEF RequestOK
      <4> QED
        BY <4>1, <4>2, AddedAlike, FrontedAlike
    <3>2. ASSUME NEW p \in Panes, AsksFocus(c, p) PROVE RequestsAlike(requests[c], requests'[c], t)
      <4>1. Request("FOCUS", 0, p, {}).tok # t /\ Request("FOCUS", 0, p, {}).k # "SELECT"
        BY <2>1 DEF Request
      <4> QED
        BY <3>2, <4>1, AddedAlike DEF AsksFocus
    <3>3. ASSUME NEW p \in Panes, AsksHistory(c, p) PROVE RequestsAlike(requests[c], requests'[c], t)
      <4>1. Request("FETCH", nextTok, p, {}).tok # t /\ Request("FETCH", nextTok, p, {}).k # "SELECT"
        BY <1>t, <2>1 DEF Request
      <4> QED
        BY <3>3, <4>1, AddedAlike DEF AsksHistory
    <3>4. ASSUME NEW p \in Panes, GateTimesOut(c, p) PROVE RequestsAlike(requests[c], requests'[c], t)
      BY <3>4, SelfAlike DEF GateTimesOut, QueueKept
    <3> QED
      BY <1>4, <3>1, <3>2, <3>3, <3>4 DEF AsksSome, TimesOutSome
  <2>7. Undisturbed(c)
    BY <2>2, <2>5, <2>6 DEF Undisturbed
  <2> QED
    BY <1>4, <2>2, <2>7, UndisturbedCurrent
<1> QED
  BY <1>1, <1>2, <1>3, <1>4
\* The frames the browser expects next.
LEMMA ExpectsFrame ==
    ASSUME AInv, NEW c \in Clients, CurrentFor(c), tx[c].tok # 0, NEW v, Popped(wire[c], v), wire[c][1].tok = tx[c].tok
    PROVE  LET m == wire[c][1] IN
           \/ m.k = "ACK" /\ FE!TakesAck(c, m.tok)
           \/ m.k = "HISTORY" /\ FE!TakesHistory(c, m.tok)
           \/ m.k = "RESUME" /\ FE!TakesResume(c, m.tok)
<1> DEFINE m == wire[c][1]
           lo == Stage(tx[c].state)
<1>1. FrameOK(m)
  BY PoppedFrame
<1>2. m.k \in Answers
  BY <1>1 DEF FrameOK
<1>3. tx[c].state \in {"SELECTING", "ACKED", "HISTORY_APPLIED"}
  BY Tables DEF CurrentFor, TokenOK
<1>4. lo \in Nat /\ (lo = 0 => tx[c].state = "SELECTING") /\ (tx[c].state = "SELECTING" => lo = 0)
      /\ (tx[c].state = "ACKED" => lo = 1) /\ (tx[c].state = "HISTORY_APPLIED" => lo = 2)
  BY <1>3 DEF Stage
<1>5. InTurn(wire[c], tx[c].tok, tx[c].pane, lo)
  BY DEF CurrentFor, TokenOK
<1> HIDE DEF lo
<1>6. lo < RankOf(m.k) /\ (lo = 0 => m.k = "ACK")
  BY <1>4, <1>5, PoppedInTurn
<1>7. CASE m.k = "ACK"
  <2>1. lo < 1
    BY <1>6, <1>7 DEF RankOf
  <2>2. tx[c].state = "SELECTING"
    BY <1>4, <2>1
  <2> QED
    BY <1>7, <2>2 DEF FE!TakesAck, FE!Awaits
<1>8. CASE m.k = "HISTORY"
  <2>1. lo < 2 /\ lo # 0
    BY <1>6, <1>8 DEF RankOf
  <2>2. tx[c].state = "ACKED"
    BY <1>3, <1>4, <2>1
  <2> QED
    BY <1>8, <2>2 DEF FE!TakesHistory, FE!Awaits
<1>9. CASE m.k = "RESUME"
  <2>1. lo # 0
    BY <1>6, <1>9
  <2>2. tx[c].state \in {"ACKED", "HISTORY_APPLIED"}
    BY <1>3, <1>4, <2>1
  <2> QED
    BY <1>9, <2>2 DEF FE!TakesResume, FE!Awaits
<1> QED
  BY <1>2, <1>7, <1>8, <1>9 DEF Answers

LEMMA ReadsKeepCurrent ==
    ASSUME AInv, NEW c \in Clients, CurrentFor(c), ReadsSome(c)
    PROVE  CurrentFor(c)'
<1> DEFINE m == wire[c][1]
           t == tx[c].tok
<1>0. /\ pending'[c] = pending[c] /\ sst'[c] = sst[c] /\ fetches'[c] = fetches[c] /\ missed'[c] = missed[c]
      /\ requests'[c] = requests[c] /\ Popped(wire[c], wire'[c])
  BY ReadsAny DEF Reads, GatewayKept, SwitchKept, FetchesKept, NotesKept, QueueKept
<1>1. CASE ReadsLoss(c) \/ ReadsResume(c)
  BY <1>1 DEF ReadsLoss, ReadsResume, Ended, CurrentFor
<1>2. CASE ReadsAck(c) \/ ReadsHistory(c)
  <2>0. t # 0 /\ m.tok = t
    BY <1>2 DEF ReadsAck, ReadsHistory, FE!TakesAck, FE!TakesHistory, FE!Awaits
  <2>1. PICK s \in {"ACKED", "HISTORY_APPLIED"} :
            /\ tx'[c].tok = t /\ tx'[c].pane = tx[c].pane /\ tx'[c].state = s
            /\ Stage(s) = RankOf(m.k) /\ Stage(s) # 0 /\ m.k # "RESUME"
    BY <1>2 DEF ReadsAck, ReadsHistory, Advanced, Stage, RankOf
  <2>2. /\ TokenOK(tx[c], requests[c], wire[c], pending[c], sst[c])
        /\ \A p \in Panes : fetches[c][p] # t /\ historyGates[c][p].tok # t
        /\ ~missed[c] => Answered(t, requests[c], wire[c], pending[c])
    BY <2>0 DEF CurrentFor
  <2>3. Stage(tx[c].state) \in Nat
    BY DEF Stage
  <2>4. /\ InTurn(wire'[c], t, tx[c].pane, Stage(s))
        /\ \A hi : UpTo(wire[c], t, hi) => Stage(s) <= hi /\ UpTo(wire'[c], t, hi)
        /\ Resuming(wire[c], t) => Resuming(wire'[c], t)
    <3>1. InTurn(wire[c], t, tx[c].pane, Stage(tx[c].state))
      BY <2>2 DEF TokenOK
    <3> QED
      BY <1>0, <2>0, <2>1, <2>3, <3>1, PoppedInTurn
  <2>5. Free(requests[c], t)
    <3>1. ~Free(wire[c], t)
      BY <1>0, <2>0, PoppedFrame DEF Free
    <3> QED
      BY <2>2, <3>1 DEF TokenOK
  <2>6. TokenOK(tx'[c], requests'[c], wire'[c], pending'[c], sst'[c])
    BY <1>0, <2>1, <2>2, <2>4, <2>5 DEF TokenOK
  <2>7. ~missed'[c] => Answered(t, requests'[c], wire'[c], pending'[c])
    BY <1>0, <2>2, <2>4 DEF Answered
  <2>8. historyGates'[c] = historyGates[c]
    BY <1>2 DEF ReadsAck, ReadsHistory
  <2> QED
    BY <1>0, <2>1, <2>2, <2>6, <2>7, <2>8 DEF CurrentFor
<1>3. CASE ~(ReadsLoss(c) \/ ReadsResume(c) \/ ReadsAck(c) \/ ReadsHistory(c))
  <2>1. tx'[c] = tx[c]
    BY <1>3 DEF ReadsSome, ReadsStatus, Refuses, ReadsFetched, Holds, Displays, BrowserKept, MachineKept
  <2>2. CASE t = 0
    BY <2>1, <2>2 DEF CurrentFor
  <2>3. CASE t # 0
    <3>1. \A p \in Panes : fetches[c][p] # t /\ historyGates[c][p].tok # t
      BY <2>3 DEF CurrentFor
    <3>2. \A p \in Panes : historyGates'[c][p].tok # t
      BY <2>3, <3>1, GatesKept
    <3>3. m.tok # t
      <4> SUFFICES ASSUME m.tok = t PROVE FALSE
        OBVIOUS
      <4>1. /\ FrameOK(m) /\ m \in Frame
            /\ \/ m.k = "ACK" /\ FE!TakesAck(c, m.tok)
               \/ m.k = "HISTORY" /\ FE!TakesHistory(c, m.tok)
               \/ m.k = "RESUME" /\ FE!TakesResume(c, m.tok)
        BY <1>0, <2>3, ExpectsFrame, PoppedFrame
      <4>2. CASE ReadsFetched(c)
        <5>1. historyGates[c][m.pane].tok = t /\ m.pane \in Panes
          BY <4>1, <4>2 DEF ReadsFetched, FrameOK
        <5> QED
          BY <3>1, <5>1
      <4> QED
        BY <1>3, <4>1, <4>2 DEF ReadsSome, ReadsStatus, Refuses, Holds, Displays
    <3>4. Undisturbed(c)
      BY <1>0, <2>1, <3>1, <3>2, <3>3, PoppedAlike, SelfAlike DEF Undisturbed
    <3> QED
      BY <1>0, <2>3, <3>4, UndisturbedCurrent
  <2> QED
    BY <2>2, <2>3
<1> QED
  BY <1>1, <1>2, <1>3

\* The gateway serves a request.
LEMMA ServesKeepCurrent ==
    ASSUME AInv, NEW c \in Clients, CurrentFor(c), ServedSome(c)
    PROVE  CurrentFor(c)'
<1> DEFINE r == requests[c][1]
           t == tx[c].tok
<1>0. /\ tx'[c] = tx[c] /\ historyGates'[c] = historyGates[c] /\ Popped(requests[c], requests'[c])
      /\ r \in Requests /\ RequestOK(r) /\ 1 \in 1 .. Len(requests[c])
  BY ServedAny, PoppedRequest DEF Served, BrowserKept, MachineKept, SinksKept
<1>1. CASE t = 0
  BY <1>0, <1>1 DEF CurrentFor
<1>2. CASE t # 0
  <2>0. /\ TokenOK(tx[c], requests[c], wire[c], pending[c], sst[c])
        /\ \A p \in Panes : fetches[c][p] # t /\ historyGates[c][p].tok # t
        /\ ~missed[c] => Answered(t, requests[c], wire[c], pending[c])
        /\ OneSelect(requests[c], t, tx[c].pane)
    BY <1>2 DEF CurrentFor, TokenOK
  <2>1. r.k # "SELECT" => r.tok # t
    BY <1>0, <1>2, RequestToken
  <2>2. \A p \in Panes : fetches'[c][p] # t
    <3>1. \A p \in Panes : fetches'[c][p] = fetches[c][p] \/ fetches'[c][p] = 0 \/ (r.k = "FETCH" /\ fetches'[c][p] = r.tok)
      BY DEF ServedSome, ServedQuietly, ServedLeave, ServedSelect, ServedFocus, ServedHistory, Drops, GatewayKept, FetchesKept
    <3> QED
      BY <1>2, <2>0, <2>1, <3>1
  <2>3. CASE ServedSelect(c) /\ r.tok = t
    <3> DEFINE m == Ack(t, r.pane)
    <3>1. Free(wire[c], t) /\ tx[c].state = "SELECTING"
      <4>1. ~Free(requests[c], t)
        BY <1>0, <2>3 DEF Free
      <4> QED
        BY <2>0, <4>1 DEF TokenOK
    <3>2. r.pane = tx[c].pane /\ Free(requests'[c], t) /\ OneSelect(requests'[c], t, tx[c].pane)
      BY <1>0, <2>0, <2>3, PoppedSelect
    <3>3. Added(wire[c], wire'[c], m) /\ m.tok = t /\ m.pane = tx[c].pane /\ m.k = "ACK" /\ RankOf(m.k) = 1
      BY <2>3, <3>2 DEF ServedSelect, Ack, RankOf
    <3>4. InTurn(wire[c], t, tx[c].pane, 0) /\ UpTo(wire[c], t, 0)
      BY <3>1 DEF Free, InTurn, UpTo
    <3>5. /\ pending'[c].tok = t /\ pending'[c].pane = tx[c].pane /\ sst'[c] = "ACKED"
      BY <2>3, <3>2 DEF ServedSelect
    <3> HIDE DEF m
    <3>6. InTurn(wire'[c], t, tx[c].pane, 0) /\ UpTo(wire'[c], t, 1) /\ ~Free(wire'[c], t)
      BY <3>3, <3>4, AddedInTurn
    <3>7. Stage(tx[c].state) = 0 /\ Stage(sst'[c]) = 1
      BY <3>1, <3>5 DEF Stage
    <3>8. TokenOK(tx'[c], requests'[c], wire'[c], pending'[c], sst'[c])
      BY <1>0, <3>1, <3>2, <3>5, <3>6, <3>7 DEF TokenOK
    <3>9. Answered(t, requests'[c], wire'[c], pending'[c])
      BY <3>5 DEF Answered
    <3> QED
      BY <1>0, <2>0, <2>2, <3>8, <3>9 DEF CurrentFor
  <2>4. CASE ServedSelect(c) /\ r.tok # t
    <3> DEFINE m == Ack(r.tok, r.pane)
    <3>1. RequestsAlike(requests[c], requests'[c], t) /\ ~Free(requests[c], t)
      BY <1>0, <2>0, <2>4, PoppedAlike, PoppedEarlier DEF ServedSelect
    <3>2. Added(wire[c], wire'[c], m) /\ m.tok # t /\ pending'[c].tok # t /\ missed'[c] = missed[c]
      BY <2>4 DEF ServedSelect, Ack
    <3> HIDE DEF m
    <3>3. FramesAlike(wire[c], wire'[c], t)
      BY <3>2, AddedAlike
    <3>4. TokenOK(tx'[c], requests'[c], wire'[c], pending'[c], sst'[c])
      BY <1>0, <2>0, <3>1, <3>2, <3>3, TokenAlike
    <3>5. Answered(t, requests'[c], wire'[c], pending'[c])
      BY <3>1 DEF Answered, RequestsAlike
    <3> QED
      BY <1>0, <2>0, <2>2, <3>4, <3>5 DEF CurrentFor
  <2>5. CASE Drops(c) /\ r.tok = t
    <3>1. Free(requests'[c], t) /\ OneSelect(requests'[c], t, tx[c].pane)
      BY <1>0, <2>0, <2>5, PoppedSelect
    <3>2. pending'[c] = pending[c] /\ sst'[c] = sst[c] /\ wire'[c] = wire[c] /\ missed'[c]
      BY <2>5 DEF Drops, GatewayKept, SwitchKept, WireKept
    <3>3. TokenOK(tx'[c], requests'[c], wire'[c], pending'[c], sst'[c])
      BY <1>0, <2>0, <3>1, <3>2 DEF TokenOK
    <3> QED
      BY <1>0, <2>0, <2>2, <3>2, <3>3 DEF CurrentFor
  <2>6. CASE ~ServedSelect(c) /\ ~(Drops(c) /\ r.tok = t)
    <3>1. /\ pending'[c] = pending[c] /\ sst'[c] = sst[c]
          /\ missed'[c] = missed[c] \/ missed'[c]
      BY <2>6 DEF ServedSome, ServedQuietly, ServedLeave, ServedFocus, ServedHistory, Drops, GatewayKept, SwitchKept, NotesKept
    <3>2. r.tok # t
      BY <2>1, <2>6 DEF ServedSome, ServedQuietly, ServedLeave, ServedFocus, ServedHistory
    <3>3. Status("CONNECTED").tok # t /\ Status("DISCONNECTED").tok # t
      BY <1>2 DEF Status
    <3>4. FramesAlike(wire[c], wire'[c], t)
      BY <2>6, <3>3, AddedAlike, SelfAlike DEF ServedSome, ServedQuietly, ServedLeave, ServedFocus, ServedHistory, Drops, WireKept
    <3>5. RequestsAlike(requests[c], requests'[c], t)
      BY <1>0, <3>2, PoppedAlike
    <3>6. Undisturbed(c)
      BY <1>0, <2>0, <2>2, <3>1, <3>4, <3>5 DEF Undisturbed
    <3> QED
      BY <1>2, <3>1, <3>6, UndisturbedCurrent
  <2> QED
    BY <2>3, <2>4, <2>5, <2>6
<1> QED
  BY <1>1, <1>2
\* The gateway's own steps.
LEMMA ActsKeepCurrent ==
    ASSUME AInv, NEW c \in Clients, CurrentFor(c), ActsSome(c)
    PROVE  CurrentFor(c)'
<1> DEFINE t == tx[c].tok
           p == tx[c].pane
<1>0. /\ tx'[c] = tx[c] /\ historyGates'[c] = historyGates[c] /\ requests'[c] = requests[c] /\ missed'[c] = missed[c]
  BY ActsAny DEF Beyond, BrowserKept, MachineKept, SinksKept, QueueKept
<1>1. CASE t = 0
  BY <1>0, <1>1 DEF CurrentFor
<1>2. CASE t # 0
  <2>0. /\ TokenOK(tx[c], requests[c], wire[c], pending[c], sst[c])
        /\ \A q \in Panes : fetches[c][q] # t /\ historyGates[c][q].tok # t
        /\ ~missed[c] => Answered(t, requests[c], wire[c], pending[c])
    BY <1>2 DEF CurrentFor
  <2>1. \A q \in Panes : fetches'[c][q] # t
    BY <1>2, <2>0, FetchesFall
  <2>2. CASE SendsHistory(c) /\ pending[c].tok = t
    <3>1. PICK m \in Frame : /\ m.k = "HISTORY" /\ m.tok = t /\ m.pane = pending[c].pane
                             /\ Added(wire[c], wire'[c], m)
      BY <2>2 DEF SendsHistory
    <3>2. /\ m.pane = p /\ Stage(tx[c].state) <= 1 /\ UpTo(wire[c], t, 1) /\ Stage(sst'[c]) = 2
          /\ tx[c].state = "SELECTING" => ~Free(wire[c], t)
      BY <2>0, <2>2, <3>1 DEF TokenOK, SendsHistory, Stage
    <3>3. /\ Stage(tx[c].state) \in Nat /\ (Stage(tx[c].state) = 0 => tx[c].state = "SELECTING") /\ RankOf(m.k) = 2
      BY <2>0, <3>1, Tables DEF TokenOK, Stage, RankOf
    <3>4. InTurn(wire[c], t, p, Stage(tx[c].state))
      BY <2>0 DEF TokenOK
    <3>5. InTurn(wire'[c], t, p, Stage(tx[c].state)) /\ UpTo(wire'[c], t, 2) /\ ~Free(wire'[c], t)
      BY <3>1, <3>2, <3>3, <3>4, AddedInTurn
    <3>6. pending'[c] = pending[c]
      BY <2>2 DEF SendsHistory
    <3>7. Free(requests[c], t) /\ pending[c].pane = p
      BY <2>0, <2>2 DEF TokenOK
    <3>8. Stage(tx[c].state) <= 2
      BY <3>2, <3>3
    <3>9. TokenOK(tx'[c], requests'[c], wire'[c], pending'[c], sst'[c])
      BY <1>0, <2>0, <2>2, <3>2, <3>5, <3>6, <3>7, <3>8 DEF TokenOK
    <3>10. Answered(t, requests'[c], wire'[c], pending'[c])
      BY <2>2, <3>6 DEF Answered
    <3> QED
      BY <1>0, <2>0, <2>1, <3>9, <3>10 DEF CurrentFor
  <2>3. CASE Releases(c)
    <3>1. Flushed(wire[c], wire'[c], buffer[c], pending[c]) /\ pending'[c].tok = 0 /\ pending[c].tok # 0
      BY <2>3 DEF Releases, Flushed
    <3>2. CASE pending[c].tok = t
      <4>1. /\ pending[c].pane = p /\ UpTo(wire[c], t, Stage(sst[c])) /\ Free(requests[c], t)
            /\ tx[c].state = "SELECTING" => ~Free(wire[c], t)
            /\ InTurn(wire[c], t, p, Stage(tx[c].state))
        BY <2>0, <3>2 DEF TokenOK
      <4>2. /\ Stage(tx[c].state) \in 0 .. 2 /\ (Stage(tx[c].state) = 0 => tx[c].state = "SELECTING")
            /\ Stage(sst[c]) \in 0 .. 2
        BY <2>0, Tables DEF TokenOK, Stage
      <4>3. UpTo(wire[c], t, 2)
        <5> SUFFICES ASSUME NEW i \in 1 .. Len(wire[c]), wire[c][i].tok = t PROVE RankOf(wire[c][i].k) <= 2
          BY DEF UpTo
        <5>1. RankOf(wire[c][i].k) <= Stage(sst[c]) /\ RankOf(wire[c][i].k) \in Nat
          BY <4>1 DEF UpTo, RankOf
        <5> QED
          BY <4>2, <5>1
      <4>4. InTurn(wire'[c], t, p, Stage(tx[c].state)) /\ Resuming(wire'[c], t)
        BY <1>2, <3>1, <3>2, <4>1, <4>2, <4>3, FlushedInTurn
      <4>5. TokenOK(tx'[c], requests'[c], wire'[c], pending'[c], sst'[c])
        BY <1>0, <1>2, <2>0, <3>1, <4>1, <4>4 DEF TokenOK
      <4> QED
        BY <1>0, <2>0, <2>1, <4>4, <4>5 DEF CurrentFor, Answered
    <3>3. CASE pending[c].tok # t
      <4>1. FramesAlike(wire[c], wire'[c], t) /\ RequestsAlike(requests[c], requests'[c], t)
        BY <1>0, <1>2, <3>1, <3>3, FlushedAlike, SelfAlike
      <4>2. TokenOK(tx'[c], requests'[c], wire'[c], pending'[c], sst'[c])
        BY <1>0, <1>2, <2>0, <3>1, <4>1, TokenAlike
      <4>3. ~missed[c] => Answered(t, requests'[c], wire'[c], pending'[c])
        BY <2>0, <3>3, <4>1 DEF Answered, FramesAlike, RequestsAlike
      <4> QED
        BY <1>0, <2>0, <2>1, <4>2, <4>3 DEF CurrentFor
    <3> QED
      BY <3>2, <3>3
  <2>4. CASE ~(SendsHistory(c) /\ pending[c].tok = t) /\ ~Releases(c)
    <3>1. FramesAlike(wire[c], wire'[c], t)
      <4>1. ASSUME NEW q \in Panes, Sends(c, q) PROVE FramesAlike(wire[c], wire'[c], t)
        <5>1. Output(q, Chunked(q)).tok # t
          BY <1>2 DEF Output
        <5> QED
          BY <4>1, <5>1, AddedAlike DEF Sends
      <4>2. CASE Tells(c, "RECONNECTING") \/ Tells(c, "RECONNECTED") \/ GivesUp(c)
        <5>1. \A s : Status(s).tok # t
          BY <1>2 DEF Status
        <5> QED
          BY <4>2, <5>1, AddedAlike DEF Tells, GivesUp
      <4>3. CASE SendsHistory(c)
        BY <2>4, <4>3, AddedAlike DEF SendsHistory
      <4>4. CASE SendsFetched(c)
        BY <2>0, <4>4, AddedAlike DEF SendsFetched
      <4> QED
        BY <2>4, <4>1, <4>2, <4>3, <4>4, SelfAlike DEF ActsSome, HoldsBack, Unheard, Forgets, WireKept
    <3>2. RequestsAlike(requests[c], requests'[c], t)
      BY <1>0, SelfAlike
    <3>3. (pending'[c] = pending[c] /\ sst'[c] = sst[c]) \/ pending'[c].tok # t
      BY <2>4 DEF ActsSome, Sends, HoldsBack, Unheard, SendsHistory, SendsFetched, Forgets, Tells, GivesUp, SwitchKept
    <3>4. pending'[c] = pending[c]
      BY <2>4 DEF ActsSome, Sends, HoldsBack, Unheard, SendsHistory, SendsFetched, Forgets, Tells, GivesUp, SwitchKept
    <3>5. TokenOK(tx'[c], requests'[c], wire'[c], pending'[c], sst'[c])
      BY <1>0, <2>0, <3>1, <3>2, <3>3, TokenAlike
    <3>6. ~missed[c] => Answered(t, requests'[c], wire'[c], pending'[c])
      BY <2>0, <3>1, <3>2, <3>4, AnsweredAlike
    <3> QED
      BY <1>0, <2>0, <2>1, <3>5, <3>6 DEF CurrentFor
  <2> QED
    BY <2>2, <2>3, <2>4
<1> QED
  BY <1>1, <1>2

LEMMA KeepsCurrent ==
    ASSUME AInv, NEW c \in Clients, DrawnFor(c), CurrentFor(c), Effect(c)
    PROVE  CurrentFor(c)'
<1>1. CASE Stays(c)
  <2>1. CASE tx[c].tok = 0
    BY <1>1, <2>1 DEF Stays, BrowserKept, MachineKept, CurrentFor
  <2>2. CASE tx[c].tok # 0
    <3>1. Undisturbed(c)
      BY <1>1, <2>2, SelfAlike DEF Stays, BrowserKept, MachineKept, SinksKept, GatewayKept, SwitchKept, FetchesKept, QueueKept, WireKept,
         CurrentFor, Undisturbed
    <3> QED
      BY <1>1, <2>2, <3>1, UndisturbedCurrent DEF Stays, SideKept, NotesKept
  <2> QED
    BY <2>1, <2>2
<1>2. CASE Loses(c)
  <2>1. CASE tx[c].tok = 0
    BY <1>2, <2>1 DEF Loses, BrowserKept, MachineKept, CurrentFor
  <2>2. CASE tx[c].tok # 0
    <3>1. tx'[c] = tx[c] /\ historyGates'[c] = historyGates[c] /\ missed'[c]
      BY <1>2 DEF Loses, BrowserKept, MachineKept, SinksKept
    <3>2. Len(requests'[c]) = 0 /\ Len(wire'[c]) = 0 /\ pending'[c].tok = 0 /\ \A p \in Panes : fetches'[c][p] = 0
      BY <1>2 DEF Loses
    <3>3. \A i : i \notin 1 .. 0
      OBVIOUS
    <3>4. OneSelect(requests'[c], tx[c].tok, tx[c].pane) /\ Free(requests'[c], tx[c].tok)
          /\ InTurn(wire'[c], tx[c].tok, tx[c].pane, Stage(tx[c].state))
      BY <3>2, <3>3 DEF OneSelect, Free, InTurn
    <3>5. TokenOK(tx'[c], requests'[c], wire'[c], pending'[c], sst'[c])
      BY <2>2, <3>1, <3>2, <3>4 DEF CurrentFor, TokenOK
    <3> QED
      BY <2>2, <3>1, <3>2, <3>5 DEF CurrentFor
  <2> QED
    BY <2>1, <2>2
<1> QED
  BY <1>1, <1>2, AsksKeepCurrent, ReadsKeepCurrent, ServesKeepCurrent, ActsKeepCurrent DEF Effect

LEMMA InitTokenInv == AllInit => TokenInv
<1> SUFFICES ASSUME AllInit, NEW c \in Clients PROVE DrawnFor(c) /\ CurrentFor(c)
  BY DEF TokenInv
<1>1. /\ requests[c] = << >> /\ wire[c] = << >> /\ tx[c].tok = 0 /\ pending[c].tok = 0 /\ nextTok = 1
      /\ \A p \in Panes : fetches[c][p] = 0 /\ historyGates[c][p].tok = 0
  BY DEF AllInit, Init, Fresh, FE!Init, NoTx, FE!NoTransaction, FE!NoGate
<1> QED
  BY <1>1 DEF DrawnFor, CurrentFor, Below

LEMMA NextTokenInv == AInv /\ TokenInv /\ [AllNext]_allVars => TokenInv'
<1> SUFFICES ASSUME AInv, TokenInv, [AllNext]_allVars, NEW c \in Clients PROVE DrawnFor(c)' /\ CurrentFor(c)'
  BY DEF TokenInv
<1>1. Effect(c) /\ DrawnFor(c) /\ CurrentFor(c)
  BY EveryEffect DEF TokenInv
<1>2. nextTok <= nextTok'
  BY TurnsAlways DEF Turns
<1>3. nextTok' \in Nat
  BY NextTyped DEF Typed, AllTypeOK, TypeOK
<1> QED
  BY <1>1, <1>2, <1>3, KeepsDrawn, KeepsCurrent

\* A frame of the switch the browser has begun is one its transaction expects:
\* the ACK first, the history only after it, LIVE_RESUME last, whatever is
\* replaced, lost or late in between (handleSwitchAck, handleHistory,
\* handleLiveResume; switch-barrier.ts).
THEOREM FramesAreExpected == AllSpec => []NoFrameRefused
<1>1. AInv /\ TokenInv => NoFrameRefused
  <2> SUFFICES ASSUME AInv, TokenInv, NEW c \in Clients, wire[c] # << >>, tx[c].tok # 0, Head(wire[c]).tok = tx[c].tok
               PROVE  LET m == Head(wire[c]) IN
                      \/ m.k = "ACK" /\ FE!TakesAck(c, m.tok)
                      \/ m.k = "HISTORY" /\ FE!TakesHistory(c, m.tok)
                      \/ m.k = "RESUME" /\ FE!TakesResume(c, m.tok)
    BY DEF NoFrameRefused
  <2>1. Popped(wire[c], Tail(wire[c])) /\ Head(wire[c]) = wire[c][1]
    BY FirstFrame
  <2>2. CurrentFor(c)
    BY DEF TokenInv
  <2> QED
    BY <2>1, <2>2, ExpectsFrame
<1> QED
  BY InitAInv, NextAInv, InitTokenInv, NextTokenInv, <1>1, PTL DEF AllSpec

\* A browser whose request was neither lost nor ignored does not wait in vain:
\* the gateway has the request, or its switch, or LIVE_RESUME is on its way
\* (selectPane, handleTmuxSelect, sendLiveResume): the two halves cannot wait
\* for one another.
THEOREM WaitIsAnswered == AllSpec => []WaitsForSomething
<1>1. AInv /\ TokenInv => WaitsForSomething
  <2> SUFFICES ASSUME AInv, TokenInv, NEW c \in Clients, tx[c].tok # 0, ~missed[c]
               PROVE  \/ \E i \in DOMAIN requests[c] : requests[c][i].k = "SELECT" /\ requests[c][i].tok = tx[c].tok
                      \/ pending[c].tok = tx[c].tok
                      \/ \E i \in DOMAIN wire[c] : wire[c][i].k = "RESUME" /\ wire[c][i].tok = tx[c].tok
    BY DEF WaitsForSomething
  <2>1. Answered(tx[c].tok, requests[c], wire[c], pending[c]) /\ OneSelect(requests[c], tx[c].tok, tx[c].pane)
    BY DEF TokenInv, CurrentFor, TokenOK
  <2>2. DOMAIN requests[c] = 1 .. Len(requests[c]) /\ DOMAIN wire[c] = 1 .. Len(wire[c])
    BY Tables, LenProperties
  <2> QED
    BY <2>1, <2>2 DEF Answered, Free, Resuming, OneSelect
<1> QED
  BY InitAInv, NextAInv, InitTokenInv, NextTokenInv, <1>1, PTL DEF AllSpec
-----------------------------------------------------------------------------
(* A terminal shows its own pane only: so does what either gate holds back *)
(* for it, and what is on its way to it.                                   *)

OfPane(s, p) == \A i \in 1 .. Len(s) : s[i].src = p
ApartFor(c) == ~blurred[c] =>
    /\ \A p \in Panes : OfPane(screen[c][p], p) /\ OfPane(historyGates[c][p].buf, p)
    /\ OfPane(held[c].buf, tx[c].pane)
ApartInv == \A c \in Clients : ApartFor(c)

LEMMA PaneKept ==
    ASSUME NEW s, NEW p, OfPane(s, p)
    PROVE  /\ \A r, m : (Added(s, r, m) \/ Fronted(s, r, m)) /\ m.src = p => OfPane(r, p)
           /\ \A r, b : (Joined(s, b, r) \/ Extended(s, b, r)) /\ OfPane(b, p) => OfPane(r, p)
<1>1. ASSUME NEW r, NEW m, Added(s, r, m), m.src = p PROVE OfPane(r, p)
  BY <1>1 DEF Added, OfPane
<1>2. ASSUME NEW r, NEW m, Fronted(s, r, m), m.src = p PROVE OfPane(r, p)
  <2> SUFFICES ASSUME NEW i \in 1 .. Len(r) PROVE r[i].src = p
    BY DEF OfPane
  <2>1. i = 1 \/ (i - 1 \in 1 .. Len(s) /\ (i - 1) + 1 = i)
    BY <1>2 DEF Fronted
  <2>2. i = 1 \/ (i - 1 \in 1 .. Len(s) /\ r[i] = s[i - 1])
    BY <1>2, <2>1 DEF Fronted
  <2> QED
    BY <1>2, <2>2 DEF Fronted, OfPane
<1>3. ASSUME NEW r, NEW b, Joined(s, b, r), OfPane(b, p) PROVE OfPane(r, p)
  <2> SUFFICES ASSUME NEW i \in 1 .. Len(r) PROVE r[i].src = p
    BY DEF OfPane
  <2>1. i \in 1 .. Len(s) \/ (i - Len(s) \in 1 .. Len(b) /\ Len(s) + (i - Len(s)) = i)
    BY <1>3 DEF Joined
  <2>2. (i \in 1 .. Len(s) /\ r[i] = s[i]) \/ (i - Len(s) \in 1 .. Len(b) /\ r[i] = b[i - Len(s)])
    BY <1>3, <2>1 DEF Joined
  <2> QED
    BY <1>3, <2>2 DEF OfPane
<1>4. ASSUME NEW r, NEW b, Extended(s, b, r), OfPane(b, p) PROVE OfPane(r, p)
  <2> SUFFICES ASSUME NEW i \in 1 .. Len(r) PROVE r[i].src = p
    BY DEF OfPane
  <2>1. PICK d \in 0 .. Len(s) + Len(b) :
          /\ Len(r) = Len(s) + Len(b) - d
          /\ \A j \in 1 .. Len(r) : /\ j + d <= Len(s) => r[j] = s[j + d]
                                    /\ j + d > Len(s) => r[j] = b[j + d - Len(s)]
    BY <1>4 DEF Extended
  <2>2. /\ i + d <= Len(s) \/ i + d > Len(s)
        /\ i + d <= Len(s) => i + d \in 1 .. Len(s)
        /\ i + d > Len(s) => i + d - Len(s) \in 1 .. Len(b)
    BY <1>4, <2>1 DEF Extended
  <2> QED
    BY <1>4, <2>1, <2>2 DEF OfPane
<1> QED
  BY <1>1, <1>2, <1>3, <1>4

LEMMA DispatchedPane ==
    ASSUME NEW c \in Clients, NEW p \in Panes, NEW b, OfPane(b, p), Dispatched(c, p, b),
           \A q \in Panes : OfPane(screen[c][q], q) /\ OfPane(historyGates[c][q].buf, q)
    PROVE  \A q \in Panes : OfPane(screen'[c][q], q) /\ OfPane(historyGates'[c][q].buf, q)
<1>1. OfPane(screen'[c][p], p) /\ OfPane(historyGates'[c][p].buf, p)
  BY PaneKept DEF Dispatched
<1> QED
  BY <1>1 DEF Dispatched, Elsewhere

LEMMA EmptyPane == \A p : OfPane(<< >>, p)
BY DEF OfPane

LEMMA KeepsApart ==
    ASSUME AInv, Ordered, NEW c \in Clients, CurrentFor(c), ApartFor(c), Effect(c), blurred[c] => blurred'[c]
    PROVE  ApartFor(c)'
<1> SUFFICES ASSUME ~blurred'[c]
             PROVE  /\ \A p \in Panes : OfPane(screen'[c][p], p) /\ OfPane(historyGates'[c][p].buf, p)
                    /\ OfPane(held'[c].buf, tx'[c].pane)
  BY DEF ApartFor, OfPane
<1> DEFINE Sinks == \A p \in Panes : OfPane(screen'[c][p], p) /\ OfPane(historyGates'[c][p].buf, p)
           Hold == OfPane(held'[c].buf, tx'[c].pane)
<1>0. /\ \A p \in Panes : OfPane(screen[c][p], p) /\ OfPane(historyGates[c][p].buf, p)
      /\ OfPane(held[c].buf, tx[c].pane)
  BY DEF ApartFor
<1>1. Ended(c) => Hold
  BY EmptyPane DEF Ended
<1>2. tx'[c].pane = tx[c].pane /\ held'[c] = held[c] => Hold
  BY <1>0
<1>3. SinksKept(c) => Sinks
  BY <1>0 DEF SinksKept
<1>4. ASSUME NEW p \in Panes, Elsewhere(c, p), Joined(screen[c][p], historyGates[c][p].buf, screen'[c][p]),
             historyGates'[c][p].buf = << >>
      PROVE  Sinks
  <2>1. OfPane(screen'[c][p], p)
    BY <1>0, <1>4, PaneKept
  <2> QED
    BY <1>0, <1>4, <2>1, EmptyPane DEF Elsewhere
<1>5. CASE Stays(c) \/ ServedSome(c) \/ Loses(c) \/ ActsSome(c)
  <2>1. BrowserKept(c)
    BY <1>5, ServedAny, ActsAny DEF Stays, Served, Loses, Beyond
  <2> QED
    BY <1>2, <1>3, <2>1 DEF BrowserKept, MachineKept
<1>6. CASE AsksSome(c)
  <2>1. CASE Asks(c) \/ AsksLeave(c)
    BY <1>1, <1>2, <1>3, <2>1 DEF Asks, AsksLeave, BrowserKept, MachineKept
  <2>2. ASSUME NEW p \in Panes, Selects(c, p) PROVE Sinks /\ Hold
    BY <1>3, <2>2, EmptyPane DEF Selects
  <2>3. ASSUME NEW p \in Panes, AsksFocus(c, p) PROVE Sinks /\ Hold
    BY <1>2, <1>3, <2>3 DEF AsksFocus, BrowserKept, MachineKept
  <2>4. ASSUME NEW p \in Panes, AsksHistory(c, p) PROVE Sinks /\ Hold
    BY <1>2, <1>4, <2>4 DEF AsksHistory, MachineKept
  <2> QED
    BY <1>6, <2>1, <2>2, <2>3, <2>4 DEF AsksSome
<1>7. CASE TimesOutSome(c)
  <2>1. CASE TimesOut(c)
    BY <1>1, <1>3, <2>1 DEF TimesOut
  <2>2. ASSUME NEW p \in Panes, GateTimesOut(c, p) PROVE Sinks /\ Hold
    BY <1>2, <1>4, <2>2 DEF GateTimesOut, MachineKept
  <2> QED
    BY <1>7, <2>1, <2>2 DEF TimesOutSome
<1>8. CASE ReadsSome(c)
  <2> DEFINE m == wire[c][1]
             o == FrameItem(m)
  <2>0. m \in Frame /\ FrameOK(m) /\ 1 \in 1 .. Len(wire[c]) /\ Popped(wire[c], wire'[c])
    BY <1>8, ReadsAny, PoppedFrame DEF Reads
  <2>1. m.k = "OUTPUT" => m.pane \in Panes /\ o.src = m.pane /\ OfPane(<<o>>, m.pane)
    <3>1. ~mixed[c]
      BY DEF AInv, Formed, FormedFor
    <3>2. m.k = "OUTPUT" => m.src = m.pane
      BY <2>0, <3>1 DEF Ordered, InOrder, WireInOrder, IsOutput
    <3>3. o.src = m.src
      BY DEF FrameItem, FE!Live
    <3>4. Len(<<o>>) = 1 /\ <<o>>[1] = o
      OBVIOUS
    <3> QED
      BY <2>0, <3>2, <3>3, <3>4 DEF FrameOK, OfPane
  <2> HIDE DEF o
  <2>2. CASE ReadsStatus(c) \/ Refuses(c)
    BY <1>2, <1>3, <2>2 DEF ReadsStatus, Refuses, BrowserKept, MachineKept
  <2>3. CASE ReadsLoss(c)
    <3>1. Sinks
      BY <1>0, <2>3, EmptyPane DEF ReadsLoss
    <3> QED
      BY <1>1, <2>3, <3>1 DEF ReadsLoss
  <2>4. CASE ReadsAck(c)
    <3>1. Sinks
      BY <1>0, <2>4, EmptyPane DEF ReadsAck
    <3> QED
      BY <1>2, <2>4, <3>1 DEF ReadsAck, Advanced
  <2>5. CASE ReadsHistory(c)
    <3>1. m.tok = tx[c].tok /\ tx[c].tok # 0
      BY <2>5 DEF ReadsHistory, FE!TakesHistory, FE!Awaits
    <3>2. m.pane = tx[c].pane
      BY <2>0, <3>1 DEF CurrentFor, TokenOK, InTurn
    <3>3. FE!Past(m.pane, m.n).src = tx[c].pane
      BY <3>2 DEF FE!Past
    <3>4. tx[c].pane \in Panes
      BY <2>0, <2>5, <3>2 DEF ReadsHistory, FrameOK
    <3>5. OfPane(screen'[c][tx[c].pane], tx[c].pane)
      BY <1>0, <2>5, <3>3, <3>4, PaneKept DEF ReadsHistory
    <3>6. Sinks
      BY <1>0, <2>5, <3>5 DEF ReadsHistory, Elsewhere
    <3> QED
      BY <1>2, <2>5, <3>6 DEF ReadsHistory, Advanced
  <2>6. CASE ReadsFetched(c)
    <3>1. m.pane \in Panes /\ Elsewhere(c, m.pane) /\ historyGates'[c][m.pane].buf = << >>
          /\ Fronted(historyGates[c][m.pane].buf, screen'[c][m.pane], FE!Past(m.pane, m.n))
      BY <2>0, <2>6 DEF ReadsFetched, FrameOK
    <3>2. FE!Past(m.pane, m.n).src = m.pane
      BY DEF FE!Past
    <3>3. OfPane(screen'[c][m.pane], m.pane)
      BY <1>0, <3>1, <3>2, PaneKept
    <3>4. Sinks
      BY <1>0, <3>1, <3>3, EmptyPane DEF Elsewhere
    <3> QED
      BY <1>2, <2>6, <3>4 DEF ReadsFetched, MachineKept
  <2>7. CASE ReadsResume(c)
    <3>1. tx[c].pane \in Panes
      BY <2>7, Tables DEF ReadsResume, FE!TakesResume, FE!Awaits, MachineType
    <3> QED
      BY <1>0, <1>1, <2>7, <3>1, DispatchedPane DEF ReadsResume
  <2>8. CASE Holds(c)
    <3>1. OfPane(held'[c].buf, tx[c].pane)
      BY <1>0, <2>1, <2>8, PaneKept DEF Holds, o
    <3> QED
      BY <1>3, <2>8, <3>1 DEF Holds
  <2>9. CASE Displays(c)
    BY <1>0, <1>2, <2>1, <2>9, DispatchedPane DEF Displays, MachineKept, o
  <2> QED
    BY <1>8, <2>2, <2>3, <2>4, <2>5, <2>6, <2>7, <2>8, <2>9 DEF ReadsSome
<1> QED
  BY <1>5, <1>6, <1>7, <1>8 DEF Effect

\* What is proved of the gateway alone carries over to the composed system.
GInv == AInv /\ Listening /\ Ordered /\ TokenInv

LEMMA InitGInv == AllInit => GInv
BY InitAInv, InitListening, InitOrdered, InitTokenInv DEF GInv, AllInit

LEMMA NextGInv == GInv /\ [AllNext]_allVars => GInv'
<1> SUFFICES ASSUME GInv, [AllNext]_allVars PROVE GInv'
  OBVIOUS
<1>1. AInv /\ TokenInv /\ Listening /\ Ordered /\ IInv
  BY DEF GInv, AInv, Typed, AllTypeOK, IInv
<1>2. GatewayNext
  BY <1>1, AllNextIsGatewayNext
<1> QED
  BY <1>1, <1>2, NextAInv, NextTokenInv, GatewayListening, GatewayOrdered DEF GInv

LEMMA DomainLen ==
    ASSUME AInv, NEW c \in Clients, NEW p \in Panes
    PROVE  /\ DOMAIN screen[c][p] = 1 .. Len(screen[c][p]) /\ Len(screen[c][p]) \in Nat
           /\ screen[c][p] \in Seq(FE!Item)
BY Tables, LenProperties

\* A terminal shows its own pane only, whatever was held back, replaced or timed
\* out on the way, unless the focus moved during a switch (handleOutput,
\* handleLiveResume, dispatchPaneOutput, dispatchPaneHistory;
\* broadcastTerminalOutput).
THEOREM TerminalsStayApart == AllSpec => []TerminalsKeepApart
<1>1. AllInit => ApartInv
  <2> SUFFICES ASSUME AllInit, NEW c \in Clients PROVE ApartFor(c)
    BY DEF ApartInv
  <2>1. held[c].buf = << >> /\ \A p \in Panes : screen[c][p] = << >> /\ historyGates[c][p].buf = << >>
    BY DEF AllInit, FE!Init, FE!Flowing, FE!NoGate
  <2> QED
    BY <2>1, EmptyPane DEF ApartFor
<1>2. GInv /\ ApartInv /\ [AllNext]_allVars => ApartInv'
  <2> SUFFICES ASSUME GInv, ApartInv, [AllNext]_allVars, NEW c \in Clients PROVE ApartFor(c)'
    BY DEF ApartInv
  <2>1. AInv /\ Ordered /\ CurrentFor(c) /\ ApartFor(c)
    BY DEF GInv, TokenInv, ApartInv
  <2>2. Effect(c) /\ (blurred[c] => blurred'[c])
    BY <2>1, EveryEffect, TurnsAlways DEF Turns
  <2> QED
    BY <2>1, <2>2, KeepsApart
<1>3. GInv /\ ApartInv => TerminalsKeepApart
  <2> SUFFICES ASSUME GInv, ApartInv, NEW c \in Clients, ~blurred[c], NEW p \in Panes, NEW i \in DOMAIN screen[c][p]
               PROVE  screen[c][p][i].src = p
    BY DEF TerminalsKeepApart
  <2>1. i \in 1 .. Len(screen[c][p])
    BY DomainLen DEF GInv
  <2> QED
    BY <2>1 DEF ApartInv, ApartFor, OfPane
<1> QED
  BY InitGInv, NextGInv, <1>1, <1>2, <1>3, PTL DEF AllSpec
-----------------------------------------------------------------------------
(* The live outputs of a pane reach its terminal in order: what is shown,  *)
(* what the history gate holds, what the browser's gate holds, and what is *)
(* still to come are beyond one another.                                   *)

Numbered(s) == \A i \in 1 .. Len(s) : s[i].n \in Nat
ShownUpTo(s, n) ==
    /\ \A i \in 1 .. Len(s) : s[i].k = "output" => s[i].n <= n
    /\ \A i, j \in 1 .. Len(s) : i < j /\ s[i].k = "output" /\ s[j].k = "output" => s[i].n < s[j].n
Between(b, lo, hi) ==
    /\ \A i \in 1 .. Len(b) : lo < b[i].n /\ b[i].n <= hi
    /\ \A i, j \in 1 .. Len(b) : i < j => b[i].n < b[j].n
Ahead(w, p, h) == \A i \in 1 .. Len(w) : w[i].k = "OUTPUT" /\ w[i].pane = p => h < w[i].n
Later(b, h) == \A i \in 1 .. Len(b) : h < b[i].n

Lined(c, p, s, g, h) ==
    /\ s <= g /\ g <= h /\ h <= emitted[p]
    /\ ShownUpTo(screen[c][p], s)
    /\ Between(historyGates[c][p].buf, s, g)
    /\ tx[c].pane = p => Between(held[c].buf, g, h)
    /\ Ahead(wire[c], p, h)
    /\ pending[c].tok # 0 /\ pending[c].pane = p => Later(buffer[c], h)
OrderFor(c) == ~blurred[c] => \A p \in Panes : \E s, g, h \in Nat : Lined(c, p, s, g, h)
OrderInv == \A c \in Clients : OrderFor(c)

LEMMA EmptyBetween == \A lo, hi : Between(<< >>, lo, hi)
BY DEF Between

LEMMA BetweenNumbered ==
    ASSUME NEW b, NEW lo \in Nat, NEW mid \in Nat, NEW hi \in Nat, Numbered(b), Between(b, lo, mid), mid <= hi
    PROVE  Between(b, lo, hi)
BY DEF Between, Numbered

LEMMA JoinedShown ==
    ASSUME NEW s, NEW b, NEW r, Joined(s, b, r), Numbered(s), Numbered(b), NEW lo \in Nat, NEW mid \in Nat, NEW hi \in Nat,
           ShownUpTo(s, lo), Between(b, mid, hi), lo <= mid, mid <= hi
    PROVE  ShownUpTo(r, hi)
<1>0. ASSUME NEW i \in 1 .. Len(r)
      PROVE  \/ i \in 1 .. Len(s) /\ r[i] = s[i]
             \/ i > Len(s) /\ i - Len(s) \in 1 .. Len(b) /\ r[i] = b[i - Len(s)]
  <2>1. i \in 1 .. Len(s) \/ (i > Len(s) /\ i - Len(s) \in 1 .. Len(b) /\ Len(s) + (i - Len(s)) = i)
    BY DEF Joined
  <2> QED
    BY <2>1 DEF Joined
<1>n. Len(s) \in Nat
  BY DEF Joined
<1>1. ASSUME NEW i \in 1 .. Len(r), r[i].k = "output" PROVE r[i].n <= hi
  <2>1. CASE i \in 1 .. Len(s) /\ r[i] = s[i]
    <3>1. s[i].n \in Nat /\ s[i].n <= lo
      BY <1>1, <2>1 DEF ShownUpTo, Numbered
    <3> QED
      BY <2>1, <3>1
  <2>2. CASE i - Len(s) \in 1 .. Len(b) /\ r[i] = b[i - Len(s)]
    BY <2>2 DEF Between
  <2> QED
    BY <1>0, <2>1, <2>2
<1>2. ASSUME NEW i \in 1 .. Len(r), NEW j \in 1 .. Len(r), i < j, r[i].k = "output", r[j].k = "output"
      PROVE  r[i].n < r[j].n
  <2>1. CASE j \in 1 .. Len(s) /\ r[j] = s[j]
    <3>1. i \in 1 .. Len(s) /\ ~(i > Len(s))
      BY <1>n, <1>2, <2>1
    <3>2. r[i] = s[i]
      BY <1>0, <3>1
    <3> QED
      BY <1>2, <2>1, <3>1, <3>2 DEF ShownUpTo
  <2>2. CASE j > Len(s) /\ j - Len(s) \in 1 .. Len(b) /\ r[j] = b[j - Len(s)]
    <3>1. CASE i \in 1 .. Len(s) /\ r[i] = s[i]
      <4>1. s[i].n \in Nat /\ s[i].n <= lo
        BY <1>2, <3>1 DEF ShownUpTo, Numbered
      <4>2. b[j - Len(s)].n \in Nat /\ mid < b[j - Len(s)].n
        BY <2>2 DEF Between, Numbered
      <4> QED
        BY <2>2, <3>1, <4>1, <4>2
    <3>2. CASE i - Len(s) \in 1 .. Len(b) /\ r[i] = b[i - Len(s)]
      <4>1. i - Len(s) < j - Len(s)
        BY <1>n, <1>2
      <4> QED
        BY <2>2, <3>2, <4>1 DEF Between
    <3> QED
      BY <1>0, <3>1, <3>2
  <2> QED
    BY <1>0, <2>1, <2>2
<1> QED
  BY <1>1, <1>2 DEF ShownUpTo

LEMMA FrontedShown ==
    ASSUME NEW b, NEW r, NEW m, Fronted(b, r, m), m.k # "output", NEW lo, NEW hi, Between(b, lo, hi)
    PROVE  ShownUpTo(r, hi)
<1>0. Len(b) \in Nat /\ Len(r) = Len(b) + 1 /\ r[1] = m /\ \A i \in 1 .. Len(b) : r[i + 1] = b[i]
  BY DEF Fronted
<1>1. ASSUME NEW i \in 1 .. Len(r), r[i].k = "output" PROVE i - 1 \in 1 .. Len(b) /\ r[i] = b[i - 1]
  <2>1. i # 1
    BY <1>0, <1>1
  <2>2. i - 1 \in 1 .. Len(b) /\ (i - 1) + 1 = i
    BY <1>0, <2>1
  <2> QED
    BY <1>0, <2>2
<1>2. ASSUME NEW i \in 1 .. Len(r), NEW j \in 1 .. Len(r), i < j, r[i].k = "output", r[j].k = "output"
      PROVE  r[i].n < r[j].n
  <2>1. i - 1 < j - 1
    BY <1>0, <1>2
  <2> QED
    BY <1>1, <1>2, <2>1 DEF Between
<1> QED
  BY <1>1, <1>2 DEF ShownUpTo, Between

LEMMA AddedShown ==
    ASSUME NEW s, NEW r, NEW m, Added(s, r, m), m.k # "output", NEW n, ShownUpTo(s, n)
    PROVE  ShownUpTo(r, n)
<1>0. Len(s) \in Nat /\ Len(r) = Len(s) + 1 /\ r[Len(s) + 1] = m /\ \A i \in 1 .. Len(s) : r[i] = s[i]
  BY DEF Added
<1>1. \A i \in 1 .. Len(r) : i = Len(s) + 1 \/ i \in 1 .. Len(s)
  BY <1>0
<1>2. \A i \in 1 .. Len(r) : r[i].k = "output" => i \in 1 .. Len(s) /\ r[i] = s[i]
  BY <1>0, <1>1
<1> QED
  BY <1>2 DEF ShownUpTo

LEMMA ExtendedBetween ==
    ASSUME NEW s, NEW b, NEW r, Extended(s, b, r), Numbered(s), Numbered(b), NEW lo \in Nat, NEW mid \in Nat, NEW hi \in Nat,
           Between(s, lo, mid), Between(b, mid, hi), lo <= mid, mid <= hi
    PROVE  Between(r, lo, hi)
<1>1. PICK d \in 0 .. Len(s) + Len(b) :
          /\ Len(r) = Len(s) + Len(b) - d
          /\ \A i \in 1 .. Len(r) : /\ i + d <= Len(s) => r[i] = s[i + d]
                                    /\ i + d > Len(s) => r[i] = b[i + d - Len(s)]
  BY DEF Extended
<1>n. Len(s) \in Nat /\ Len(b) \in Nat /\ d \in Nat
  BY <1>1 DEF Extended
<1>0. ASSUME NEW i \in 1 .. Len(r)
      PROVE  \/ i + d \in 1 .. Len(s) /\ r[i] = s[i + d]
             \/ i + d > Len(s) /\ i + d - Len(s) \in 1 .. Len(b) /\ r[i] = b[i + d - Len(s)]
  <2>1. \/ i + d <= Len(s) /\ i + d \in 1 .. Len(s)
        \/ i + d > Len(s) /\ i + d - Len(s) \in 1 .. Len(b)
    BY <1>n, <1>1
  <2> QED
    BY <1>1, <2>1
<1>2. ASSUME NEW i \in 1 .. Len(r) PROVE lo < r[i].n /\ r[i].n <= hi
  <2>1. CASE i + d \in 1 .. Len(s) /\ r[i] = s[i + d]
    <3>1. s[i + d].n \in Nat /\ lo < s[i + d].n /\ s[i + d].n <= mid
      BY <2>1 DEF Between, Numbered
    <3> QED
      BY <2>1, <3>1
  <2>2. CASE i + d - Len(s) \in 1 .. Len(b) /\ r[i] = b[i + d - Len(s)]
    <3>1. b[i + d - Len(s)].n \in Nat /\ mid < b[i + d - Len(s)].n /\ b[i + d - Len(s)].n <= hi
      BY <2>2 DEF Between, Numbered
    <3> QED
      BY <2>2, <3>1
  <2> QED
    BY <1>0, <2>1, <2>2
<1>3. ASSUME NEW i \in 1 .. Len(r), NEW j \in 1 .. Len(r), i < j PROVE r[i].n < r[j].n
  <2>1. CASE j + d \in 1 .. Len(s) /\ r[j] = s[j + d]
    <3>1. i + d \in 1 .. Len(s) /\ ~(i + d > Len(s)) /\ i + d < j + d
      BY <1>n, <1>3, <2>1
    <3>2. r[i] = s[i + d]
      BY <1>0, <3>1
    <3> QED
      BY <2>1, <3>1, <3>2 DEF Between
  <2>2. CASE j + d > Len(s) /\ j + d - Len(s) \in 1 .. Len(b) /\ r[j] = b[j + d - Len(s)]
    <3>1. CASE i + d \in 1 .. Len(s) /\ r[i] = s[i + d]
      <4>1. r[i].n \in Nat /\ r[i].n <= mid
        BY <3>1 DEF Between, Numbered
      <4>2. r[j].n \in Nat /\ mid < r[j].n
        BY <2>2 DEF Between, Numbered
      <4> QED
        BY <4>1, <4>2
    <3>2. CASE i + d - Len(s) \in 1 .. Len(b) /\ r[i] = b[i + d - Len(s)]
      <4>1. i + d - Len(s) < j + d - Len(s)
        BY <1>n, <1>3
      <4> QED
        BY <2>2, <3>2, <4>1 DEF Between
    <3> QED
      BY <1>0, <3>1, <3>2
  <2> QED
    BY <1>0, <2>1, <2>2
<1> QED
  BY <1>2, <1>3 DEF Between

LEMMA OneBetween ==
    ASSUME NEW o, NEW lo \in Nat, o.n \in Nat, lo < o.n
    PROVE  Numbered(<<o>>) /\ Between(<<o>>, lo, o.n)
<1>1. Len(<<o>>) = 1 /\ \A i \in 1 .. 1 : i = 1 /\ <<o>>[i] = o
  OBVIOUS
<1> QED
  BY <1>1 DEF Numbered, Between

\* What is written to a pane through its gate comes after what is there.
LEMMA DispatchedLined ==
    ASSUME NEW c \in Clients, NEW p \in Panes, NEW b, Dispatched(c, p, b),
           Numbered(screen[c][p]), Numbered(historyGates[c][p].buf), Numbered(b),
           NEW s \in Nat, NEW g \in Nat, NEW h \in Nat, s <= g, g <= h, ShownUpTo(screen[c][p], s),
           Between(historyGates[c][p].buf, s, g), Between(b, g, h),
           historyGates[c][p].tok = 0 => historyGates[c][p].buf = << >>
    PROVE  \E u \in Nat : u <= h /\ ShownUpTo(screen'[c][p], u) /\ Between(historyGates'[c][p].buf, u, h)
<1>1. CASE historyGates[c][p].tok # 0
  <2>1. screen'[c][p] = screen[c][p] /\ Extended(historyGates[c][p].buf, b, historyGates'[c][p].buf)
    BY <1>1 DEF Dispatched
  <2>2. Between(historyGates'[c][p].buf, s, h)
    BY <2>1, ExtendedBetween
  <2>3. s <= h
    OBVIOUS
  <2> QED
    BY <2>1, <2>2, <2>3
<1>2. CASE historyGates[c][p].tok = 0
  <2>1. historyGates'[c][p].buf = << >> /\ Joined(screen[c][p], b, screen'[c][p])
    BY <1>2 DEF Dispatched
  <2>2. ShownUpTo(screen'[c][p], h)
    BY <2>1, JoinedShown
  <2>3. h <= h
    OBVIOUS
  <2> QED
    BY <2>1, <2>2, <2>3, EmptyBetween
<1> QED
  BY <1>1, <1>2

\* The wire.
LEMMA AheadKept ==
    ASSUME NEW s, NEW p, NEW h, Ahead(s, p, h)
    PROVE  /\ \A r : Popped(s, r) => Ahead(r, p, h)
           /\ \A r, m : Added(s, r, m) /\ (m.k = "OUTPUT" /\ m.pane = p => h < m.n) => Ahead(r, p, h)
           /\ \A r, b, pd : Flushed(s, r, b, pd) /\ (pd.pane = p => Later(b, h)) => Ahead(r, p, h)
<1>1. ASSUME NEW r, Popped(s, r) PROVE Ahead(r, p, h)
  BY <1>1 DEF Popped, Ahead
<1>2. ASSUME NEW r, NEW m, Added(s, r, m), m.k = "OUTPUT" /\ m.pane = p => h < m.n PROVE Ahead(r, p, h)
  BY <1>2 DEF Added, Ahead
<1>3. ASSUME NEW r, NEW b, NEW pd, Flushed(s, r, b, pd), pd.pane = p => Later(b, h) PROVE Ahead(r, p, h)
  <2> SUFFICES ASSUME NEW i \in 1 .. Len(r), r[i].k = "OUTPUT", r[i].pane = p PROVE h < r[i].n
    BY DEF Ahead
  <2>1. \/ i \in 1 .. Len(s) /\ r[i] = s[i]
        \/ r[i] = Resumed(pd.tok, pd.pane)
        \/ i - (Len(s) + 1) \in 1 .. Len(b) /\ r[i] = Output(pd.pane, b[i - (Len(s) + 1)])
    BY <1>3, FlushedParts
  <2>2. CASE i - (Len(s) + 1) \in 1 .. Len(b) /\ r[i] = Output(pd.pane, b[i - (Len(s) + 1)])
    <3>1. pd.pane = p /\ r[i].n = b[i - (Len(s) + 1)].n
      BY <2>2 DEF Output
    <3> QED
      BY <1>3, <2>2, <3>1 DEF Later
  <2> QED
    BY <2>1, <2>2 DEF Ahead, Resumed
<1> QED
  BY <1>1, <1>2, <1>3

LEMMA SinkNumbers ==
    ASSUME AInv, NEW c \in Clients
    PROVE  /\ Numbered(held[c].buf)
           /\ \A p \in Panes : Numbered(screen[c][p]) /\ Numbered(historyGates[c][p].buf)
<1>1. ASSUME NEW b \in Seq(FE!Item) PROVE Numbered(b)
  <2>1. \A i \in 1 .. Len(b) : b[i] \in FE!Item
    BY ElementOfSeq
  <2> QED
    BY <2>1 DEF Numbered, FE!Item
<1> QED
  BY <1>1, BrowserTypes DEF AInv, Typed

LEMMA PushedLater ==
    ASSUME NEW b, NEW m, NEW r, Pushed(b, m, r), NEW h, Later(b, h), h < m.n
    PROVE  Later(r, h)
<1> SUFFICES ASSUME NEW i \in 1 .. Len(r) PROVE h < r[i].n
  BY DEF Later
<1>1. CASE i = Len(r)
  BY <1>1 DEF Pushed
<1>2. CASE i \in 1 .. Len(r) - 1
  <2>1. i + (Len(b) + 1 - Len(r)) \in 1 .. Len(b) /\ r[i] = b[i + (Len(b) + 1 - Len(r))]
    BY <1>2 DEF Pushed
  <2> QED
    BY <2>1 DEF Later
<1>3. i = Len(r) \/ i \in 1 .. Len(r) - 1
  BY DEF Pushed
<1> QED
  BY <1>1, <1>2, <1>3

\* The first frame is an output of p: all that is to come is beyond it.
LEMMA FirstOutput ==
    ASSUME AInv, Ordered, NEW c \in Clients, ~mixed[c], NEW p \in Panes, NEW w, Popped(wire[c], w),
           wire[c][1].k = "OUTPUT", wire[c][1].pane = p
    PROVE  /\ wire[c][1].n \in Nat /\ wire[c][1].n <= emitted[p]
           /\ Ahead(w, p, wire[c][1].n)
           /\ pending[c].tok # 0 /\ pending[c].pane = p => Later(buffer[c], wire[c][1].n)
           /\ FrameItem(wire[c][1]).n = wire[c][1].n /\ FrameItem(wire[c][1]).k = "output"
<1> DEFINE m == wire[c][1]
<1>0. Len(wire[c]) \in Nat \ {0} /\ 1 \in 1 .. Len(wire[c]) /\ m.k = "OUTPUT" /\ m.pane = p
  BY DEF Popped
<1>1. m \in Frame
  BY <1>0, Tables, ElementOfSeq
<1>2. m.n \in Nat
  BY <1>1 DEF Frame
<1>3. InOrder(wire[c], buffer[c], pending[c].pane, emitted)
  BY DEF Ordered
<1> HIDE DEF m
<1>4. m.src = p /\ m.n <= emitted[p]
  BY <1>0, <1>3 DEF InOrder, WireInOrder, IsOutput, m
<1>5. Ahead(w, p, m.n)
  <2> SUFFICES ASSUME NEW i \in 1 .. Len(w), w[i].k = "OUTPUT", w[i].pane = p PROVE m.n < w[i].n
    BY DEF Ahead
  <2>1. i + 1 \in 1 .. Len(wire[c]) /\ 1 < i + 1 /\ w[i] = wire[c][i + 1]
    BY DEF Popped
  <2>2. wire[c][i + 1].src = p
    BY <1>3, <2>1 DEF InOrder, WireInOrder, IsOutput
  <2> QED
    BY <1>0, <1>3, <1>4, <2>1, <2>2 DEF InOrder, WireInOrder, IsOutput, m
<1>6. pending[c].tok # 0 /\ pending[c].pane = p => Later(buffer[c], m.n)
  BY <1>0, <1>3, <1>4 DEF InOrder, GateInOrder, IsOutput, Later, m
<1>7. FrameItem(m).n = m.n /\ FrameItem(m).k = "output"
  BY DEF FrameItem, FE!Live
<1> QED
  BY <1>2, <1>4, <1>5, <1>6, <1>7 DEF m

LEMMA KeepsOrder ==
    ASSUME AInv, Ordered, NEW c \in Clients, OrderFor(c), Effect(c), blurred[c] => blurred'[c]
    PROVE  OrderFor(c)'
<1> SUFFICES ASSUME ~blurred'[c], NEW p \in Panes PROVE \E s, g, h \in Nat : Lined(c, p, s, g, h)'
  BY DEF OrderFor
<1>m. ~mixed[c] /\ ~blurred[c]
  BY DEF AInv, Formed, FormedFor
<1>0. PICK s \in Nat, g \in Nat, h \in Nat : Lined(c, p, s, g, h)
  BY <1>m DEF OrderFor
<1>1. /\ s <= g /\ g <= h /\ s <= h /\ h <= emitted[p] /\ ShownUpTo(screen[c][p], s)
      /\ Between(historyGates[c][p].buf, s, g) /\ (tx[c].pane = p => Between(held[c].buf, g, h))
      /\ Ahead(wire[c], p, h) /\ (pending[c].tok # 0 /\ pending[c].pane = p => Later(buffer[c], h))
  <2>1. s <= g /\ g <= h
    BY <1>0 DEF Lined
  <2>2. s <= h
    BY <2>1
  <2> QED
    BY <1>0, <2>1, <2>2 DEF Lined
<1>e. emitted \in [Panes -> Nat] /\ emitted[p] \in Nat
  BY Tables
<1>n. Numbered(held[c].buf) /\ Numbered(screen[c][p]) /\ Numbered(historyGates[c][p].buf)
  BY SinkNumbers
<1> DEFINE Sink(x, y) == x <= y /\ ShownUpTo(screen'[c][p], x) /\ Between(historyGates'[c][p].buf, x, y)
           Hold(y, z) == y <= z /\ (tx'[c].pane = p => Between(held'[c].buf, y, z))
           Rest(z) == /\ z <= emitted'[p] /\ Ahead(wire'[c], p, z)
                      /\ pending'[c].tok # 0 /\ pending'[c].pane = p => Later(buffer'[c], z)
<1>2. \A x, y, z \in Nat : Sink(x, y) /\ Hold(y, z) /\ Rest(z) => \E s1, g1, h1 \in Nat : Lined(c, p, s1, g1, h1)'
  BY DEF Lined
<1>3. /\ historyGates'[c][p] = historyGates[c][p] /\ screen'[c][p] = screen[c][p] => Sink(s, g)
      /\ SinksKept(c) => Sink(s, g)
      /\ \A q \in Panes : q # p /\ Elsewhere(c, q) => Sink(s, g)
  BY <1>1 DEF SinksKept, Elsewhere
<1>4. Joined(screen[c][p], historyGates[c][p].buf, screen'[c][p]) /\ historyGates'[c][p].buf = << >> => Sink(g, g)
  <2>1. g <= g
    OBVIOUS
  <2>2. Joined(screen[c][p], historyGates[c][p].buf, screen'[c][p]) => ShownUpTo(screen'[c][p], g)
    <3>1. s <= s
      OBVIOUS
    <3> QED
      BY <1>1, <1>n, <3>1, JoinedShown
  <2> QED
    BY <2>1, <2>2, EmptyBetween
<1>5. held'[c] = held[c] /\ tx'[c].pane = tx[c].pane => Hold(g, h)
  BY <1>1
<1>6. held'[c].buf = << >> => Hold(g, h) /\ Hold(h, h)
  BY <1>1, EmptyBetween
<1>7. SwitchKept(c) /\ emitted' = emitted /\ Ahead(wire'[c], p, h) => Rest(h)
  BY <1>1 DEF SwitchKept
<1>8. /\ WireKept(c) => Ahead(wire'[c], p, h)
      /\ Popped(wire[c], wire'[c]) => Ahead(wire'[c], p, h)
      /\ \A m : Added(wire[c], wire'[c], m) /\ m.k # "OUTPUT" => Ahead(wire'[c], p, h)
  BY <1>1, AheadKept DEF WireKept
<1> HIDE DEF Sink, Hold, Rest
<1> DEFINE Goal == \E s1, g1, h1 \in Nat : Lined(c, p, s1, g1, h1)'
<1>9. CASE Stays(c) \/ AsksSome(c)
  <2>1. CASE Stays(c) \/ Asks(c)
    <3>1. Sink(s, g) /\ Hold(g, h)
      BY <1>3, <1>5, <2>1 DEF Stays, Asks, BrowserKept, MachineKept
    <3>2. Rest(h)
      BY <1>7, <1>8, <2>1 DEF Stays, Asks, GatewayKept, DeviceKept
    <3> QED
      BY <1>2, <3>1, <3>2
  <2>2. CASE AsksLeave(c)
    <3>1. Sink(s, g) /\ Hold(g, h)
      BY <1>3, <1>6, <2>2 DEF AsksLeave, Ended
    <3>2. Rest(h)
      BY <1>7, <1>8, <2>2 DEF AsksLeave, GatewayKept, DeviceKept
    <3> QED
      BY <1>2, <3>1, <3>2
  <2>3. ASSUME NEW q \in Panes, Selects(c, q) PROVE Goal
    <3>1. Sink(s, g) /\ Hold(g, h)
      BY <1>3, <1>6, <2>3 DEF Selects
    <3>2. Rest(h)
      BY <1>7, <1>8, <2>3 DEF Selects, GatewayKept, DeviceKept
    <3> QED
      BY <1>2, <3>1, <3>2
  <2>4. ASSUME NEW q \in Panes, AsksFocus(c, q) PROVE Goal
    <3>1. Sink(s, g) /\ Hold(g, h)
      BY <1>3, <1>5, <2>4 DEF AsksFocus, BrowserKept, MachineKept
    <3>2. Rest(h)
      BY <1>7, <1>8, <2>4 DEF AsksFocus, GatewayKept, DeviceKept
    <3> QED
      BY <1>2, <3>1, <3>2
  <2>5. ASSUME NEW q \in Panes, AsksHistory(c, q) PROVE Goal
    <3>1. (q # p => Sink(s, g)) /\ (q = p => Sink(g, g)) /\ Hold(g, h)
      BY <1>3, <1>4, <1>5, <2>5 DEF AsksHistory, MachineKept
    <3>2. Rest(h)
      BY <1>7, <1>8, <2>5 DEF AsksHistory, GatewayKept, DeviceKept
    <3> QED
      BY <1>2, <3>1, <3>2
  <2> QED
    BY <1>9, <2>1, <2>2, <2>3, <2>4, <2>5 DEF AsksSome
<1>10. CASE TimesOutSome(c)
  <2>1. CASE TimesOut(c)
    <3>1. Sink(s, g) /\ Hold(g, h)
      BY <1>3, <1>6, <2>1 DEF TimesOut, Ended
    <3>2. Rest(h)
      BY <1>7, <1>8, <2>1 DEF TimesOut, GatewayKept, DeviceKept
    <3> QED
      BY <1>2, <3>1, <3>2
  <2>2. ASSUME NEW q \in Panes, GateTimesOut(c, q) PROVE Goal
    <3>1. (q # p => Sink(s, g)) /\ (q = p => Sink(g, g)) /\ Hold(g, h)
      BY <1>3, <1>4, <1>5, <2>2 DEF GateTimesOut, MachineKept
    <3>2. Rest(h)
      BY <1>7, <1>8, <2>2 DEF GateTimesOut, GatewayKept, DeviceKept
    <3> QED
      BY <1>2, <3>1, <3>2
  <2> QED
    BY <1>10, <2>1, <2>2 DEF TimesOutSome
<1>11. CASE ReadsSome(c)
  <2> DEFINE m == wire[c][1]
  <2>0. m \in Frame /\ FrameOK(m) /\ Popped(wire[c], wire'[c]) /\ Rest(h) /\ SwitchKept(c) /\ emitted' = emitted
    BY <1>7, <1>8, <1>11, ReadsAny, PoppedFrame DEF Reads, GatewayKept, DeviceKept
  <2>1. CASE ReadsStatus(c) \/ Refuses(c)
    <3>1. Sink(s, g) /\ Hold(g, h)
      BY <1>3, <1>5, <2>1 DEF ReadsStatus, Refuses, BrowserKept, MachineKept
    <3> QED
      BY <1>2, <2>0, <3>1
  <2>2. CASE ReadsLoss(c)
    <3>1. Hold(g, h)
      BY <1>6, <2>2 DEF ReadsLoss, Ended
    <3>2. Sink(s, g)
      BY <1>1, <2>2, EmptyBetween DEF ReadsLoss, Sink
    <3> QED
      BY <1>2, <2>0, <3>1, <3>2
  <2>3. CASE ReadsAck(c)
    <3>1. Hold(g, h)
      BY <1>5, <2>3 DEF ReadsAck, Advanced
    <3>2. ShownUpTo(<< >>, s)
      BY DEF ShownUpTo
    <3>3. Sink(s, g)
      BY <1>1, <2>3, <3>2 DEF ReadsAck, Sink
    <3> QED
      BY <1>2, <2>0, <3>1, <3>3
  <2>4. CASE ReadsHistory(c)
    <3>1. Hold(g, h)
      BY <1>5, <2>4 DEF ReadsHistory, Advanced
    <3>2. FE!Past(m.pane, m.n).k # "output"
      BY DEF FE!Past
    <3>3. tx[c].pane = p => ShownUpTo(screen'[c][p], s)
      BY <1>1, <2>4, <3>2, AddedShown DEF ReadsHistory
    <3>4. Sink(s, g)
      BY <1>1, <2>4, <3>3 DEF ReadsHistory, Elsewhere, Sink
    <3> QED
      BY <1>2, <2>0, <3>1, <3>4
  <2>5. CASE ReadsFetched(c)
    <3>1. Hold(g, h)
      BY <1>5, <2>5 DEF ReadsFetched, MachineKept
    <3>2. FE!Past(m.pane, m.n).k # "output"
      BY DEF FE!Past
    <3>3. m.pane \in Panes
      BY <2>0, <2>5 DEF ReadsFetched, FrameOK
    <3>4. CASE m.pane = p
      <4>1. ShownUpTo(screen'[c][p], g) /\ historyGates'[c][p].buf = << >>
        BY <1>1, <2>5, <3>2, <3>4, FrontedShown DEF ReadsFetched
      <4>2. Sink(g, g)
        BY <4>1, EmptyBetween DEF Sink
      <4> QED
        BY <1>2, <2>0, <3>1, <4>2
    <3>5. CASE m.pane # p
      BY <1>2, <1>3, <2>0, <2>5, <3>1, <3>3, <3>5 DEF ReadsFetched
    <3> QED
      BY <3>4, <3>5
  <2>6. CASE ReadsResume(c)
    <3>1. Hold(g, h) /\ Hold(h, h)
      BY <1>6, <2>6 DEF ReadsResume, Ended
    <3>2. tx[c].pane \in Panes
      BY <2>6, Tables DEF ReadsResume, FE!TakesResume, FE!Awaits, MachineType
    <3>3. CASE tx[c].pane = p
      <4>1. \E u \in Nat : u <= h /\ ShownUpTo(screen'[c][p], u) /\ Between(historyGates'[c][p].buf, u, h)
        BY <1>1, <1>n, <2>6, <3>3, DispatchedLined, Tables DEF ReadsResume, SinkType
      <4> QED
        BY <1>2, <2>0, <3>1, <4>1 DEF Sink
    <3>4. CASE tx[c].pane # p
      BY <1>2, <1>3, <2>0, <2>6, <3>1, <3>2, <3>4 DEF ReadsResume, Dispatched
    <3> QED
      BY <3>3, <3>4
  <2>7. ASSUME m.k = "OUTPUT", m.pane = p
        PROVE  /\ m.n \in Nat /\ h < m.n /\ g < m.n /\ Rest(m.n) /\ Numbered(<<FrameItem(m)>>)
               /\ Between(<<FrameItem(m)>>, h, m.n) /\ Between(<<FrameItem(m)>>, g, m.n)
    <3>1. m.n \in Nat /\ m.n <= emitted[p] /\ Ahead(wire'[c], p, m.n) /\ FrameItem(m).n = m.n
          /\ (pending[c].tok # 0 /\ pending[c].pane = p => Later(buffer[c], m.n))
      BY <1>m, <2>0, <2>7, FirstOutput
    <3>2. 1 \in 1 .. Len(wire[c])
      BY <2>0 DEF Popped
    <3>3. h < m.n
      BY <1>1, <2>7, <3>2 DEF Ahead
    <3>4. g < m.n
      BY <1>1, <3>1, <3>3
    <3>5. Rest(m.n)
      BY <2>0, <3>1 DEF SwitchKept, Rest
    <3> QED
      BY <3>1, <3>3, <3>4, <3>5, OneBetween
  <2>8. CASE Holds(c)
    <3>1. Sink(s, g)
      BY <1>3, <2>8 DEF Holds
    <3>2. CASE m.pane = p
      <4>1. Between(held'[c].buf, g, m.n) /\ g <= m.n
        <5>1. h <= m.n /\ g <= m.n /\ m.n \in Nat
          BY <1>1, <2>7, <2>8, <3>2 DEF Holds
        <5> QED
          BY <1>1, <1>n, <2>7, <2>8, <3>2, <5>1, ExtendedBetween DEF Holds
      <4>2. Hold(g, m.n)
        BY <4>1 DEF Hold
      <4> QED
        BY <1>2, <2>7, <2>8, <3>1, <3>2, <4>2 DEF Holds
    <3>3. CASE m.pane # p
      <4>1. Hold(g, h)
        BY <1>1, <2>8, <3>3 DEF Holds, Hold
      <4> QED
        BY <1>2, <2>0, <3>1, <4>1
    <3> QED
      BY <3>2, <3>3
  <2>9. CASE Displays(c)
    <3>1. m.pane \in Panes /\ m.k = "OUTPUT"
      BY <2>0, <2>9 DEF Displays, FrameOK
    <3>2. CASE m.pane = p
      <4>1. g <= m.n /\ m.n <= m.n /\ m.n \in Nat
        BY <2>7, <3>1, <3>2
      <4>2. \E u \in Nat : u <= m.n /\ ShownUpTo(screen'[c][p], u) /\ Between(historyGates'[c][p].buf, u, m.n)
        <5>1. Dispatched(c, p, <<FrameItem(m)>>)
          BY <2>9, <3>2 DEF Displays
        <5>2. historyGates[c][p].tok = 0 => historyGates[c][p].buf = << >>
          BY Tables DEF SinkType
        <5>3. Numbered(<<FrameItem(m)>>) /\ Between(<<FrameItem(m)>>, g, m.n)
          BY <2>7, <3>1, <3>2
        <5> HIDE DEF m
        <5> QED
          BY <1>1, <1>n, <4>1, <5>1, <5>2, <5>3, DispatchedLined
      <4>3. tx[c].pane = p => held[c].buf = << >>
        BY <2>9, <3>2, BrowserTypes DEF Displays, AInv, Typed
      <4>4. Hold(m.n, m.n)
        BY <2>9, <4>1, <4>3, EmptyBetween DEF Displays, MachineKept, Hold
      <4> QED
        BY <1>2, <2>7, <3>1, <3>2, <4>1, <4>2, <4>4 DEF Sink
    <3>3. CASE m.pane # p
      BY <1>2, <1>3, <1>5, <2>0, <2>9, <3>1, <3>3 DEF Displays, Dispatched, MachineKept
    <3> QED
      BY <3>2, <3>3
  <2> QED
    BY <1>11, <2>1, <2>2, <2>3, <2>4, <2>5, <2>6, <2>8, <2>9 DEF ReadsSome
<1>12. CASE ServedSome(c) \/ Loses(c) \/ ActsSome(c)
  <2>0. Sink(s, g) /\ Hold(g, h)
    BY <1>3, <1>5, <1>12, ServedAny, ActsAny DEF Served, Loses, Beyond, BrowserKept, MachineKept
  <2> SUFFICES Rest(h)
    BY <1>2, <2>0
  <2>1. CASE ServedQuietly(c) \/ ServedLeave(c) \/ ServedFocus(c) \/ ServedHistory(c) \/ Drops(c)
    BY <1>7, <1>8, <2>1 DEF ServedQuietly, ServedLeave, ServedFocus, ServedHistory, Drops, GatewayKept, DeviceKept, Status
  <2>2. CASE ServedSelect(c)
    <3>1. Ahead(wire'[c], p, h)
      BY <1>8, <2>2 DEF ServedSelect, Ack
    <3>2. Later(<< >>, h)
      BY DEF Later
    <3> QED
      BY <1>1, <2>2, <3>1, <3>2 DEF ServedSelect, DeviceKept, Rest
  <2>3. CASE Loses(c)
    <3>1. Ahead(<< >>, p, h) /\ Later(<< >>, h)
      BY DEF Ahead, Later
    <3> QED
      BY <1>1, <2>3, <3>1 DEF Loses, Rest
  <2>4. ASSUME NEW q \in Panes, Emitted(q)
        PROVE  h <= emitted'[p] /\ (q = p => h < Chunked(q).n)
    <3>1. emitted'[p] = IF q = p THEN emitted[p] + 1 ELSE emitted[p]
      BY <1>e, <2>4 DEF Emitted
    <3>2. Chunked(q).n = emitted[q] + 1
      BY DEF Chunked
    <3> QED
      BY <1>1, <1>e, <3>1, <3>2
  <2>5. ASSUME NEW q \in Panes, Sends(c, q) PROVE Rest(h)
    <3>1. Output(q, Chunked(q)).pane = q /\ Output(q, Chunked(q)).n = Chunked(q).n
      BY DEF Output
    <3>2. Ahead(wire'[c], p, h)
      BY <1>1, <2>4, <2>5, <3>1, AheadKept DEF Sends
    <3> QED
      BY <1>1, <2>4, <2>5, <3>2 DEF Sends, SwitchKept, Rest
  <2>6. ASSUME NEW q \in Panes, HoldsBack(c, q) PROVE Rest(h)
    <3>1. pending[c].pane = p => q = p
      BY <1>m, <2>6 DEF HoldsBack, Ordered
    <3>2. ASSUME Later(buffer[c], h), h < Chunked(q).n PROVE Later(buffer'[c], h)
      BY <2>6, <3>2, PushedLater DEF HoldsBack
    <3>3. Ahead(wire'[c], p, h)
      BY <1>8, <2>6 DEF HoldsBack
    <3>4. h <= emitted'[p] /\ (q = p => h < Chunked(q).n)
      BY <2>4, <2>6 DEF HoldsBack
    <3> QED
      BY <1>1, <2>6, <3>1, <3>2, <3>3, <3>4 DEF HoldsBack, Rest
  <2>7. ASSUME NEW q \in Panes, Unheard(c, q) PROVE Rest(h)
    <3>1. Ahead(wire'[c], p, h) /\ h <= emitted'[p]
      BY <1>8, <2>4, <2>7 DEF Unheard
    <3> QED
      BY <1>1, <2>7, <3>1 DEF Unheard, SwitchKept, Rest
  <2>8. CASE SendsHistory(c)
    <3>1. Ahead(wire'[c], p, h)
      BY <1>8, <2>8 DEF SendsHistory
    <3> QED
      BY <1>1, <2>8, <3>1 DEF SendsHistory, DeviceKept, Rest
  <2>9. CASE SendsFetched(c)
    <3>1. Ahead(wire'[c], p, h)
      BY <1>8, <2>9 DEF SendsFetched
    <3> QED
      BY <1>7, <2>9, <3>1 DEF SendsFetched, DeviceKept
  <2>10. CASE Forgets(c)
    BY <1>7, <1>8, <2>10 DEF Forgets, DeviceKept
  <2>11. CASE Tells(c, "RECONNECTING") \/ Tells(c, "RECONNECTED") \/ GivesUp(c)
    <3>1. Ahead(wire'[c], p, h)
      BY <1>8, <2>11 DEF Tells, GivesUp, Status
    <3> QED
      BY <1>7, <2>11, <3>1 DEF Tells, GivesUp
  <2>12. CASE Releases(c)
    <3>1. Flushed(wire[c], wire'[c], buffer[c], pending[c])
      BY <2>12 DEF Releases, Flushed
    <3>2. Ahead(wire'[c], p, h)
      BY <1>1, <2>12, <3>1, AheadKept DEF Releases
    <3> QED
      BY <1>1, <2>12, <3>2 DEF Releases, DeviceKept, Rest
  <2> QED
    BY <1>12, <2>1, <2>2, <2>3, <2>5, <2>6, <2>7, <2>8, <2>9, <2>10, <2>11, <2>12 DEF ServedSome, ActsSome
<1> QED
  BY <1>9, <1>10, <1>11, <1>12 DEF Effect

\* A terminal never shows a pane's live outputs out of order or twice, through
\* both gates, their time-outs, replaced switches and reconnections, unless the
\* focus moved during a switch (handleOutput, handleLiveResume,
\* dispatchPaneOutput, beginPaneHistoryGate; bufferOutput, sendLiveResume).
THEOREM ScreensAreInOrder == AllSpec => []ShownInOrder
<1>1. AllInit => OrderInv
  <2> SUFFICES ASSUME AllInit, NEW c \in Clients, NEW p \in Panes PROVE Lined(c, p, 0, 0, 0)
    BY DEF OrderInv, OrderFor
  <2>1. /\ held[c].buf = << >> /\ screen[c][p] = << >> /\ historyGates[c][p].buf = << >>
        /\ wire[c] = << >> /\ pending[c].tok = 0 /\ emitted[p] = 0
    BY DEF AllInit, FE!Init, FE!Flowing, FE!NoGate, Init, Fresh, NoTx
  <2>2. Ahead(<< >>, p, 0) /\ ShownUpTo(<< >>, 0)
    BY DEF Ahead, ShownUpTo
  <2> QED
    BY <2>1, <2>2, EmptyBetween DEF Lined
<1>2. GInv /\ OrderInv /\ [AllNext]_allVars => OrderInv'
  <2> SUFFICES ASSUME GInv, OrderInv, [AllNext]_allVars, NEW c \in Clients PROVE OrderFor(c)'
    BY DEF OrderInv
  <2>1. AInv /\ Ordered /\ OrderFor(c)
    BY DEF GInv, OrderInv
  <2>2. Effect(c) /\ (blurred[c] => blurred'[c])
    BY <2>1, EveryEffect, TurnsAlways DEF Turns
  <2> QED
    BY <2>1, <2>2, KeepsOrder
<1>3. GInv /\ OrderInv => ShownInOrder
  <2> SUFFICES ASSUME GInv, OrderInv, NEW c \in Clients, ~blurred[c], NEW p \in Panes,
                      NEW i \in DOMAIN screen[c][p], NEW j \in DOMAIN screen[c][p],
                      screen[c][p][i].k = "output", screen[c][p][j].k = "output", i < j
               PROVE  screen[c][p][i].n < screen[c][p][j].n
    BY DEF ShownInOrder
  <2>1. i \in 1 .. Len(screen[c][p]) /\ j \in 1 .. Len(screen[c][p])
    BY DomainLen DEF GInv
  <2>2. \E s \in Nat : ShownUpTo(screen[c][p], s)
    BY DEF OrderInv, OrderFor, Lined
  <2> QED
    BY <2>1, <2>2 DEF ShownUpTo
<1> QED
  BY InitGInv, NextGInv, <1>1, <1>2, <1>3, PTL DEF AllSpec
-----------------------------------------------------------------------------
(* The terminal is whole: while nothing that loses output has happened     *)
(* since the select, the switch is asked for, or begun, or on its way      *)
(* back, or done, and what the terminal misses is on its way or held back. *)

\* After its place r, w brings the outputs of p after its h-th up to its e-th.
Flow(w, r, p, h, e) ==
    /\ h <= e
    /\ \A n \in Nat : h < n /\ n <= e => \E i \in 1 .. Len(w) : r < i /\ w[i].k = "OUTPUT" /\ w[i].pane = p /\ w[i].n = n
    /\ \A i \in 1 .. Len(w) : r < i /\ w[i].k = "OUTPUT" /\ w[i].pane = p =>
          w[i].src = p /\ w[i].n \in Nat /\ h < w[i].n /\ w[i].n <= e
    /\ \A i, j \in 1 .. Len(w) :
          r < i /\ i < j /\ w[i].k = "OUTPUT" /\ w[i].pane = p /\ w[j].k = "OUTPUT" /\ w[j].pane = p => w[i].n < w[j].n
\* No history of p on w but the switch's own, unless its ACK comes later.
NoStale(w, p, t) ==
    \A i \in 1 .. Len(w) : w[i].k = "HISTORY" /\ w[i].pane = p /\ w[i].tok # t =>
        \E j \in 1 .. Len(w) : i < j /\ w[j].k = "ACK" /\ w[j].tok = t
NoHistory(w, p) == \A i \in 1 .. Len(w) : ~(w[i].k = "HISTORY" /\ w[i].pane = p)
\* The history of the switch, up to the u-th output, comes before the place r
\* of w, or has been shown.
Sent(w, t, u, r) == \E i \in 1 .. Len(w) : i < r /\ w[i].k = "HISTORY" /\ w[i].tok = t /\ w[i].n = u
HasPast(s, p, u) == \E i \in 1 .. Len(s) : s[i] = FE!Past(p, u)
Caught(w, x, s, p, u, r) == Sent(w, x.tok, u, r) \/ (x.state = "HISTORY_APPLIED" /\ HasPast(s, p, u))
\* A terminal s shows the n-th output of p; and with its history gate, all of
\* them up to the h-th.
Covers(s, p, n) == \E i \in 1 .. Len(s) : s[i].src = p /\ IF s[i].k = "history" THEN n <= s[i].n ELSE n = s[i].n
Backed(b, p, v, h) ==
    /\ h - v <= Len(b)
    /\ \A n \in Nat : v < n /\ n <= h => b[Len(b) - (h - n)] = FE!Live([src |-> p, n |-> n])
Reaches(s, g, p, h) ==
    \E v \in Nat : /\ \A n \in Nat : n # 0 /\ n <= v => Covers(s, p, n)
                   /\ v < h => g.tok # 0 /\ Backed(g.buf, p, v, h)

Trusted(c) == ~missed[c] /\ ~gap[c] /\ ~Lossy(c)
Hears(c, p) == up /\ c \in attached /\ selected[c] = p /\ pending[c].tok = 0
Asked(c, p) ==
    /\ tx[c].tok # 0 /\ tx[c].pane = p
    /\ \E i \in 1 .. Len(requests[c]) : requests[c][i].tok = tx[c].tok /\ NoAims(requests[c], i)
Begun(c, p) ==
    /\ tx[c].tok # 0 /\ tx[c].pane = p /\ NoAims(requests[c], 0)
    /\ pending[c].tok = tx[c].tok /\ base[c] # -1 /\ NoStale(wire[c], p, tx[c].tok)
    /\ \/ sst[c] = "ACKED"
       \/ sst[c] = "HISTORY_APPLIED" /\ \E u \in Nat : base[c] <= u /\ Caught(wire[c], tx[c], screen[c][p], p, u, Len(wire[c]) + 1)
Coming(c, p) ==
    /\ tx[c].tok # 0 /\ tx[c].pane = p /\ NoAims(requests[c], 0)
    /\ Hears(c, p) /\ NoStale(wire[c], p, tx[c].tok)
    /\ \E u, h \in Nat, r \in 1 .. Len(wire[c]) :
          /\ h <= u /\ wire[c][r].k = "RESUME" /\ wire[c][r].tok = tx[c].tok
          /\ Caught(wire[c], tx[c], screen[c][p], p, u, r) /\ Flow(wire[c], r, p, h, emitted[p])
Done(c, p) ==
    /\ tx[c].tok = 0 /\ NoAims(requests[c], 0) /\ Hears(c, p) /\ NoHistory(wire[c], p)
    /\ \E h \in Nat : Flow(wire[c], 0, p, h, emitted[p]) /\ Reaches(screen[c][p], historyGates[c][p], p, h)
WholeFor(c) ==
    Trusted(c) /\ want[c] # NoPane /\ emitted[want[c]] <= MaxBuffer =>
        Asked(c, want[c]) \/ Begun(c, want[c]) \/ Coming(c, want[c]) \/ Done(c, want[c])
WholeInv == \A c \in Clients : WholeFor(c)

\* The flow of a pane's outputs as frames are sent and read.
LEMMA AddedFlow ==
    ASSUME NEW w, NEW v, NEW m, Added(w, v, m), NEW r \in Nat, r <= Len(w), NEW p, NEW h \in Nat, NEW e \in Nat, Flow(w, r, p, h, e)
    PROVE  /\ ~(m.k = "OUTPUT" /\ m.pane = p) => Flow(v, r, p, h, e)
           /\ m.k = "OUTPUT" /\ m.pane = p /\ m.src = p /\ m.n = e + 1 => Flow(v, r, p, h, e + 1)
<1> DEFINE l == Len(w) + 1
<1>0. /\ Len(w) \in Nat /\ l \in Nat /\ Len(v) = l /\ v[l] = m /\ r < l /\ l \in 1 .. Len(v)
      /\ \A i \in 1 .. Len(w) : v[i] = w[i] /\ i < l /\ i \in 1 .. Len(v)
      /\ \A i \in 1 .. Len(v) : i \in 1 .. Len(w) \/ i = l
  BY DEF Added
<1> HIDE DEF l
<1>1. ASSUME ~(m.k = "OUTPUT" /\ m.pane = p) PROVE Flow(v, r, p, h, e)
  <2>1. \A i \in 1 .. Len(v) : v[i].k = "OUTPUT" /\ v[i].pane = p => i \in 1 .. Len(w) /\ v[i] = w[i]
    BY <1>0, <1>1
  <2> QED
    BY <1>0, <2>1 DEF Flow
<1>2. ASSUME m.k = "OUTPUT", m.pane = p, m.src = p, m.n = e + 1 PROVE Flow(v, r, p, h, e + 1)
  <2>1. h <= e /\ h <= e + 1 /\ h < e + 1
    BY DEF Flow
  <2>2. ASSUME NEW n \in Nat, h < n, n <= e + 1
        PROVE  \E i \in 1 .. Len(v) : r < i /\ v[i].k = "OUTPUT" /\ v[i].pane = p /\ v[i].n = n
    <3>1. n <= e \/ n = e + 1
      BY <2>2
    <3> QED
      BY <1>0, <1>2, <2>2, <3>1 DEF Flow
  <2>3. ASSUME NEW i \in 1 .. Len(v), r < i, v[i].k = "OUTPUT", v[i].pane = p
        PROVE  v[i].src = p /\ v[i].n \in Nat /\ h < v[i].n /\ v[i].n <= e + 1
    <3>1. CASE i = l
      <4>1. v[i].src = p /\ v[i].n = e + 1
        BY <1>0, <1>2, <3>1
      <4> QED
        BY <2>1, <4>1
    <3>2. CASE i \in 1 .. Len(w)
      <4>1. v[i].src = p /\ v[i].n \in Nat /\ h < v[i].n /\ v[i].n <= e
        BY <1>0, <2>3, <3>2 DEF Flow
      <4> QED
        BY <4>1
    <3> QED
      BY <1>0, <3>1, <3>2
  <2>4. ASSUME NEW i \in 1 .. Len(v), NEW j \in 1 .. Len(v), r < i, i < j,
               v[i].k = "OUTPUT", v[i].pane = p, v[j].k = "OUTPUT", v[j].pane = p
        PROVE  v[i].n < v[j].n
    <3>1. i \in 1 .. Len(w) /\ v[i] = w[i]
      BY <1>0, <2>4 DEF l
    <3>2. CASE j \in 1 .. Len(w)
      BY <1>0, <2>4, <3>1, <3>2 DEF Flow
    <3>3. CASE j = l
      <4>1. v[i].n \in Nat /\ v[i].n <= e
        BY <2>4, <3>1 DEF Flow
      <4>2. v[j].n = e + 1
        BY <1>0, <1>2, <3>3
      <4> QED
        BY <4>1, <4>2
    <3> QED
      BY <1>0, <3>2, <3>3
  <2> QED
    BY <2>1, <2>2, <2>3, <2>4 DEF Flow
<1> QED
  BY <1>1, <1>2

LEMMA PoppedFlow ==
    ASSUME NEW w, NEW v, Popped(w, v), NEW r \in Nat, NEW p, NEW h \in Nat, NEW e \in Nat, Flow(w, r, p, h, e)
    PROVE  /\ r # 0 => Flow(v, r - 1, p, h, e)
           /\ r = 0 /\ ~(w[1].k = "OUTPUT" /\ w[1].pane = p) => Flow(v, 0, p, h, e)
           /\ r = 0 /\ w[1].k = "OUTPUT" /\ w[1].pane = p => w[1].src = p /\ w[1].n = h + 1 /\ h + 1 <= e /\ Flow(v, 0, p, h + 1, e)
<1>0. /\ Len(w) \in Nat /\ 1 \in 1 .. Len(w)
      /\ \A i \in 1 .. Len(v) : v[i] = w[i + 1] /\ i + 1 \in 1 .. Len(w)
      /\ \A i \in 1 .. Len(w) : i # 1 => i - 1 \in 1 .. Len(v) /\ v[i - 1] = w[i] /\ i > 1
  <2>1. Len(w) \in Nat \ {0} /\ Len(v) = Len(w) - 1 /\ \A i \in 1 .. Len(v) : v[i] = w[i + 1]
    BY DEF Popped
  <2>2. \A i \in 1 .. Len(w) : i # 1 => i - 1 \in 1 .. Len(v) /\ (i - 1) + 1 = i /\ i > 1
    BY <2>1
  <2> QED
    BY <2>1, <2>2
<1>1. ASSUME NEW q \in Nat, \A i \in 1 .. Len(v) : q < i => r < i + 1, NEW g \in Nat, h <= g, g <= e,
             \A i \in 1 .. Len(w) : r < i /\ w[i].k = "OUTPUT" /\ w[i].pane = p /\ (i # 1 \/ g < w[i].n) => i # 1 /\ q < i - 1 /\ g < w[i].n
      PROVE  Flow(v, q, p, g, e)
  <2>1. ASSUME NEW n \in Nat, g < n, n <= e
        PROVE  \E i \in 1 .. Len(v) : q < i /\ v[i].k = "OUTPUT" /\ v[i].pane = p /\ v[i].n = n
    <3>1. h < n
      BY <1>1, <2>1
    <3>2. PICK i \in 1 .. Len(w) : r < i /\ w[i].k = "OUTPUT" /\ w[i].pane = p /\ w[i].n = n
      BY <2>1, <3>1 DEF Flow
    <3>3. i # 1 /\ q < i - 1
      BY <1>1, <2>1, <3>2
    <3> QED
      BY <1>0, <3>2, <3>3
  <2>2. ASSUME NEW i \in 1 .. Len(v), q < i, v[i].k = "OUTPUT", v[i].pane = p
        PROVE  v[i].src = p /\ v[i].n \in Nat /\ g < v[i].n /\ v[i].n <= e
    <3>1. i + 1 \in 1 .. Len(w) /\ r < i + 1 /\ v[i] = w[i + 1] /\ i + 1 # 1
      BY <1>0, <1>1, <2>2
    <3> QED
      BY <1>1, <2>2, <3>1 DEF Flow
  <2>3. ASSUME NEW i \in 1 .. Len(v), NEW j \in 1 .. Len(v), q < i, i < j,
               v[i].k = "OUTPUT", v[i].pane = p, v[j].k = "OUTPUT", v[j].pane = p
        PROVE  v[i].n < v[j].n
    <3>1. i + 1 < j + 1
      BY <2>3
    <3>2. i + 1 \in 1 .. Len(w) /\ v[i] = w[i + 1] /\ j + 1 \in 1 .. Len(w) /\ v[j] = w[j + 1]
      BY <1>0
    <3>3. r < i + 1
      BY <1>1, <2>3
    <3> QED
      BY <2>3, <3>1, <3>2, <3>3 DEF Flow
  <2> QED
    BY <1>1, <2>1, <2>2, <2>3 DEF Flow
<1>2. h <= e /\ h <= h
  BY DEF Flow
<1>3. \A i \in 1 .. Len(w) : r < i /\ w[i].k = "OUTPUT" /\ w[i].pane = p => h < w[i].n
  BY DEF Flow
<1>4. ASSUME r # 0 PROVE Flow(v, r - 1, p, h, e)
  <2>1. r - 1 \in Nat /\ \A i \in Nat : (r - 1 < i <=> r < i + 1) /\ (r < i => i # 1 /\ r - 1 < i - 1)
    BY <1>4
  <2> QED
    BY <1>1, <1>2, <1>3, <2>1
<1>5. \A i \in Nat : (0 < i => 0 < i + 1) /\ (i > 1 => 0 < i - 1)
  OBVIOUS
<1>6. ASSUME r = 0, ~(w[1].k = "OUTPUT" /\ w[1].pane = p) PROVE Flow(v, 0, p, h, e)
  <2>1. \A i \in 1 .. Len(v) : 0 < i => r < i + 1
    BY <1>6
  <2>2. ASSUME NEW i \in 1 .. Len(w), r < i, w[i].k = "OUTPUT", w[i].pane = p
        PROVE  i # 1 /\ 0 < i - 1 /\ h < w[i].n
    <3>1. i # 1 /\ h < w[i].n
      BY <1>3, <1>6, <2>2
    <3> QED
      BY <1>0, <1>5, <3>1
  <2> QED
    BY <1>1, <1>2, <2>1, <2>2
<1>7. ASSUME r = 0, w[1].k = "OUTPUT", w[1].pane = p
      PROVE  w[1].src = p /\ w[1].n = h + 1 /\ h + 1 <= e /\ Flow(v, 0, p, h + 1, e)
  <2>1. w[1].src = p /\ w[1].n \in Nat /\ h < w[1].n /\ w[1].n <= e
    <3>1. 1 \in 1 .. Len(w) /\ r < 1
      BY <1>0, <1>7
    <3>2. \A i \in 1 .. Len(w) : r < i /\ w[i].k = "OUTPUT" /\ w[i].pane = p =>
             w[i].src = p /\ w[i].n \in Nat /\ h < w[i].n /\ w[i].n <= e
      BY DEF Flow
    <3> QED
      BY <1>7, <3>1, <3>2
  <2>2. h + 1 \in Nat /\ h < h + 1 /\ h + 1 <= e /\ h <= h + 1
    BY <2>1
  <2>3. PICK i \in 1 .. Len(w) : 0 < i /\ w[i].k = "OUTPUT" /\ w[i].pane = p /\ w[i].n = h + 1
    BY <1>7, <2>2 DEF Flow
  <2>4. i = 1
    <3> SUFFICES ASSUME i # 1 PROVE FALSE
      OBVIOUS
    <3>1. 1 < i
      BY <1>0
    <3>2. w[1].n < h + 1
      BY <1>0, <1>7, <2>3, <3>1 DEF Flow
    <3> QED
      BY <2>1, <3>2
  <2>5. w[1].n = h + 1
    BY <2>3, <2>4
  <2>6. \A j \in 1 .. Len(w) : 0 < j /\ w[j].k = "OUTPUT" /\ w[j].pane = p /\ j # 1 => h + 1 < w[j].n
    BY <1>0, <1>7, <2>5 DEF Flow
  <2>7. ~(h + 1 < w[1].n)
    BY <2>5, <2>2
  <2> QED
    BY <1>0, <1>1, <1>5, <1>7, <2>1, <2>2, <2>5, <2>6, <2>7
<1> QED
  BY <1>4, <1>6, <1>7

\* A gate that held back all since lo is flushed: its outputs follow LIVE_RESUME.
LEMMA FlushedFlow ==
    ASSUME NEW s, NEW r, NEW b, NEW pd, Flushed(s, r, b, pd), NEW lo \in Nat, NEW hi \in Nat, lo <= hi,
           HoldsLatest(b, pd.pane, lo, hi), hi - lo <= MaxBuffer
    PROVE  Flow(r, Len(s) + 1, pd.pane, lo, hi)
<1> DEFINE l == Len(s) + 1
           p == pd.pane
<1>0. l \in Nat /\ Len(r) = l + Len(b) /\ Len(b) \in Nat
  BY DEF Flushed
<1>1. Len(b) = hi - lo
  BY BoundsAssumption DEF HoldsLatest
<1>2. \A i \in 1 .. Len(b) : b[i] = [src |-> p, n |-> lo + i]
  <2> SUFFICES ASSUME NEW i \in 1 .. Len(b) PROVE b[i] = [src |-> p, n |-> lo + i]
    OBVIOUS
  <2>1. hi - Len(b) + i = lo + i
    BY <1>1
  <2>2. b[i] = [src |-> p, n |-> hi - Len(b) + i]
    BY DEF HoldsLatest
  <2> QED
    BY <2>1, <2>2
<1>3. \A i \in 1 .. Len(b) : l + i \in 1 .. Len(r) /\ l < l + i /\ r[l + i] = Output(p, b[i])
  BY <1>0 DEF Flushed
<1>4. \A i \in 1 .. Len(b) : /\ r[l + i].k = "OUTPUT" /\ r[l + i].pane = p /\ r[l + i].src = p /\ r[l + i].n = lo + i
  <2> SUFFICES ASSUME NEW i \in 1 .. Len(b)
               PROVE  r[l + i].k = "OUTPUT" /\ r[l + i].pane = p /\ r[l + i].src = p /\ r[l + i].n = lo + i
    OBVIOUS
  <2>1. b[i].src = p /\ b[i].n = lo + i
    <3> DEFINE n == lo + i
    <3>1. b[i] = [src |-> p, n |-> n]
      BY <1>2
    <3> HIDE DEF n, p
    <3> SUFFICES b[i].src = p /\ b[i].n = n
      BY DEF n
    <3> QED
      BY <3>1
  <2>2. r[l + i] = Output(p, b[i])
    BY <1>3
  <2> HIDE DEF l, p
  <2> QED
    BY <2>1, <2>2 DEF Output
<1>5. \A i \in 1 .. Len(r) : l < i => i - l \in 1 .. Len(b) /\ l + (i - l) = i
  BY <1>0
<1> HIDE DEF l, p
<1>6. ASSUME NEW n \in Nat, lo < n, n <= hi
      PROVE  \E i \in 1 .. Len(r) : l < i /\ r[i].k = "OUTPUT" /\ r[i].pane = p /\ r[i].n = n
  <2>1. n - lo \in 1 .. Len(b) /\ lo + (n - lo) = n
    BY <1>1, <1>6
  <2> QED
    BY <1>3, <1>4, <2>1
<1>7. ASSUME NEW i \in 1 .. Len(r), l < i PROVE r[i].src = p /\ r[i].n \in Nat /\ lo < r[i].n /\ r[i].n <= hi
  <2>1. i - l \in 1 .. Len(b) /\ r[i].src = p /\ r[i].n = lo + (i - l)
    BY <1>4, <1>5, <1>7
  <2>2. lo + (i - l) \in Nat /\ lo < lo + (i - l) /\ lo + (i - l) <= hi
    BY <1>1, <2>1
  <2> QED
    BY <2>1, <2>2
<1>8. ASSUME NEW i \in 1 .. Len(r), NEW j \in 1 .. Len(r), l < i, i < j PROVE r[i].n < r[j].n
  <2>1. l < j
    BY <1>0, <1>8
  <2>2. r[i].n = lo + (i - l) /\ r[j].n = lo + (j - l)
    BY <1>4, <1>5, <1>8, <2>1
  <2>3. lo + (i - l) < lo + (j - l)
    BY <1>0, <1>8
  <2> QED
    BY <2>2, <2>3
<1> QED
  BY <1>6, <1>7, <1>8 DEF Flow, l, p

\* Histories on their way.
LEMMA StaleKept ==
    ASSUME NEW w, NEW p, NEW t
    PROVE  /\ \A v : Popped(w, v) /\ NoStale(w, p, t) => NoStale(v, p, t)
           /\ \A v : Popped(w, v) /\ NoHistory(w, p) => NoHistory(v, p)
           /\ \A v, m : Added(w, v, m) /\ ~(m.k = "HISTORY" /\ m.pane = p /\ m.tok # t) /\ NoStale(w, p, t) => NoStale(v, p, t)
           /\ \A v, m : Added(w, v, m) /\ ~(m.k = "HISTORY" /\ m.pane = p) /\ NoHistory(w, p) => NoHistory(v, p)
           /\ \A v, m : Added(w, v, m) /\ m.k = "ACK" /\ m.tok = t => NoStale(v, p, t)
           /\ \A v, b, pd : Flushed(w, v, b, pd) /\ NoStale(w, p, t) => NoStale(v, p, t)
<1>1. ASSUME NEW v, Popped(w, v) PROVE (NoStale(w, p, t) => NoStale(v, p, t)) /\ (NoHistory(w, p) => NoHistory(v, p))
  <2>0. /\ \A i \in 1 .. Len(v) : v[i] = w[i + 1] /\ i + 1 \in 1 .. Len(w)
        /\ \A i \in 1 .. Len(v), j \in 1 .. Len(w) : i + 1 < j => j - 1 \in 1 .. Len(v) /\ v[j - 1] = w[j] /\ i < j - 1
    <3>1. Len(w) \in Nat \ {0} /\ Len(v) = Len(w) - 1 /\ \A i \in 1 .. Len(v) : v[i] = w[i + 1]
      BY <1>1 DEF Popped
    <3>2. \A i \in 1 .. Len(v), j \in 1 .. Len(w) : i + 1 < j => j - 1 \in 1 .. Len(v) /\ (j - 1) + 1 = j /\ i < j - 1
      BY <3>1
    <3> QED
      BY <3>1, <3>2
  <2>1. NoHistory(w, p) => NoHistory(v, p)
    BY <2>0 DEF NoHistory
  <2>2. ASSUME NoStale(w, p, t), NEW i \in 1 .. Len(v), v[i].k = "HISTORY", v[i].pane = p, v[i].tok # t
        PROVE  \E j \in 1 .. Len(v) : i < j /\ v[j].k = "ACK" /\ v[j].tok = t
    <3>0. v[i] = w[i + 1] /\ i + 1 \in 1 .. Len(w)
      BY <2>0
    <3> DEFINE k == i + 1
    <3> HIDE DEF k
    <3>1. w[k].k = "HISTORY" /\ w[k].pane = p /\ w[k].tok # t /\ k \in 1 .. Len(w)
      BY <2>2, <3>0 DEF k
    <3>2. PICK j \in 1 .. Len(w) : k < j /\ w[j].k = "ACK" /\ w[j].tok = t
      BY <2>2, <3>1 DEF NoStale
    <3>3. j - 1 \in 1 .. Len(v) /\ v[j - 1] = w[j] /\ i < j - 1
      BY <2>0, <3>2 DEF k
    <3> QED
      BY <3>2, <3>3
  <2> QED
    BY <2>1, <2>2 DEF NoStale
<1>2. ASSUME NEW v, NEW m, Added(w, v, m)
      PROVE  /\ ~(m.k = "HISTORY" /\ m.pane = p /\ m.tok # t) /\ NoStale(w, p, t) => NoStale(v, p, t)
             /\ ~(m.k = "HISTORY" /\ m.pane = p) /\ NoHistory(w, p) => NoHistory(v, p)
             /\ m.k = "ACK" /\ m.tok = t => NoStale(v, p, t)
  <2>0. PICK l \in Nat :
        /\ v[l] = m /\ l \in 1 .. Len(v)
        /\ \A i \in 1 .. Len(w) : v[i] = w[i] /\ i < l /\ i \in 1 .. Len(v)
        /\ \A i \in 1 .. Len(v) : i \in 1 .. Len(w) \/ i = l
    <3>1. Len(w) + 1 \in Nat
      BY <1>2 DEF Added
    <3> QED
      BY <1>2, <3>1 DEF Added
  <2> QED
    BY <2>0 DEF NoStale, NoHistory
<1>3. ASSUME NEW v, NEW b, NEW pd, Flushed(w, v, b, pd), NoStale(w, p, t) PROVE NoStale(v, p, t)
  <2> SUFFICES ASSUME NEW i \in 1 .. Len(v), v[i].k = "HISTORY", v[i].pane = p, v[i].tok # t
               PROVE  \E j \in 1 .. Len(v) : i < j /\ v[j].k = "ACK" /\ v[j].tok = t
    BY DEF NoStale
  <2>1. i \in 1 .. Len(w) /\ v[i] = w[i]
    <3>1. \/ i \in 1 .. Len(w) /\ v[i] = w[i]
          \/ v[i] = Resumed(pd.tok, pd.pane)
          \/ v[i] = Output(pd.pane, b[i - (Len(w) + 1)])
      BY <1>3, FlushedParts
    <3> QED
      BY <3>1 DEF Resumed, Output
  <2>2. PICK j \in 1 .. Len(w) : i < j /\ w[j].k = "ACK" /\ w[j].tok = t
    BY <1>3, <2>1 DEF NoStale
  <2>3. j \in 1 .. Len(v) /\ v[j] = w[j]
    BY <1>3, FlushedParts DEF Flushed
  <2> QED
    BY <2>2, <2>3
<1> QED
  BY <1>1, <1>2, <1>3

LEMMA SentKept ==
    ASSUME NEW w, NEW t, NEW u, NEW r \in Int, Sent(w, t, u, r)
    PROVE  /\ \A v : Popped(w, v) => Sent(v, t, u, r - 1) \/ (1 < r /\ w[1].k = "HISTORY" /\ w[1].tok = t /\ w[1].n = u)
           /\ \A v, m : Added(w, v, m) => Sent(v, t, u, r)
           /\ \A v, b, pd : Flushed(w, v, b, pd) => Sent(v, t, u, r)
           /\ \A q \in Int : r <= q => Sent(w, t, u, q)
<1>0. PICK i \in 1 .. Len(w) : i < r /\ w[i].k = "HISTORY" /\ w[i].tok = t /\ w[i].n = u
  BY DEF Sent
<1>1. ASSUME NEW v, Popped(w, v), i # 1 PROVE Sent(v, t, u, r - 1)
  <2>1. Len(w) \in Nat \ {0} /\ Len(v) = Len(w) - 1
    BY <1>1 DEF Popped
  <2>2. i - 1 \in 1 .. Len(v) /\ (i - 1) + 1 = i /\ i - 1 < r - 1
    BY <1>0, <1>1, <2>1
  <2>3. v[i - 1] = w[i]
    BY <1>1, <2>2 DEF Popped
  <2> QED
    BY <1>0, <2>2, <2>3 DEF Sent
<1>2. ASSUME NEW v, NEW m, Added(w, v, m) PROVE Sent(v, t, u, r)
  BY <1>0, <1>2 DEF Added, Sent
<1>3. ASSUME NEW v, NEW b, NEW pd, Flushed(w, v, b, pd) PROVE Sent(v, t, u, r)
  <2>1. i \in 1 .. Len(v) /\ v[i] = w[i]
    BY <1>3, FlushedParts DEF Flushed
  <2> QED
    BY <1>0, <2>1 DEF Sent
<1>4. ASSUME NEW q \in Int, r <= q PROVE Sent(w, t, u, q)
  BY <1>0, <1>4 DEF Sent
<1>5. i = 1 => 1 < r /\ w[1].k = "HISTORY" /\ w[1].tok = t /\ w[1].n = u
  BY <1>0
<1> QED
  BY <1>1, <1>2, <1>3, <1>4, <1>5

\* What a terminal shows it goes on showing, until it is reset.
LEMMA ShownStays ==
    ASSUME NEW s, NEW r, (\E b : Joined(s, b, r)) \/ (\E m : Added(s, r, m)), NEW p
    PROVE  /\ \A n : Covers(s, p, n) => Covers(r, p, n)
           /\ \A u : HasPast(s, p, u) => HasPast(r, p, u)
<1>1. \A i \in 1 .. Len(s) : i \in 1 .. Len(r) /\ r[i] = s[i]
  <2>1. CASE \E b : Joined(s, b, r)
    BY <2>1 DEF Joined
  <2>2. CASE \E m : Added(s, r, m)
    BY <2>2 DEF Added
  <2> QED
    BY <2>1, <2>2
<1> QED
  BY <1>1 DEF Covers, HasPast

LEMMA PastCovers ==
    ASSUME NEW s, NEW p, NEW u, HasPast(s, p, u), NEW n, n <= u
    PROVE  Covers(s, p, n)
BY DEF HasPast, Covers, FE!Past

\* The history gate closes, and what it held is shown.
LEMMA ClosedReaches ==
    ASSUME NEW s, NEW r, NEW g, NEW g1, Joined(s, g.buf, r), NEW p, NEW h \in Nat, Reaches(s, g, p, h)
    PROVE  Reaches(r, g1, p, h)
<1>0. PICK v \in Nat : /\ \A n \in Nat : n # 0 /\ n <= v => Covers(s, p, n)
                       /\ v < h => g.tok # 0 /\ Backed(g.buf, p, v, h)
  BY DEF Reaches
<1> DEFINE b == g.buf
<1>j. /\ Len(s) \in Nat /\ Len(b) \in Nat /\ Len(r) = Len(s) + Len(b)
      /\ \A i \in 1 .. Len(b) : r[Len(s) + i] = b[i] /\ Len(s) + i \in 1 .. Len(r)
  BY DEF Joined
<1> HIDE DEF b
<1>1. \A n \in Nat : n # 0 /\ n <= v => Covers(r, p, n)
  BY <1>0, ShownStays
<1>2. ASSUME v < h, NEW n \in Nat, v < n, n <= h PROVE Covers(r, p, n)
  <2>1. Backed(b, p, v, h)
    BY <1>0, <1>2 DEF b
  <2>2. Len(b) - (h - n) \in 1 .. Len(b)
    BY <1>2, <1>j, <2>1 DEF Backed
  <2>3. b[Len(b) - (h - n)] = FE!Live([src |-> p, n |-> n])
    BY <1>2, <2>1 DEF Backed
  <2>4. PICK i \in 1 .. Len(r) : r[i] = FE!Live([src |-> p, n |-> n])
    BY <1>j, <2>2, <2>3
  <2>5. r[i].src = p /\ r[i].k = "output" /\ r[i].n = n
    BY <2>4 DEF FE!Live
  <2> QED
    BY <2>4, <2>5 DEF Covers
<1>3. \A n \in Nat : n # 0 /\ n <= h => Covers(r, p, n)
  <2> SUFFICES ASSUME NEW n \in Nat, n # 0, n <= h PROVE Covers(r, p, n)
    OBVIOUS
  <2>1. n <= v \/ (v < n /\ v < h)
    OBVIOUS
  <2> QED
    BY <1>1, <1>2, <2>1
<1>4. ~(h < h)
  OBVIOUS
<1> QED
  BY <1>3, <1>4 DEF Reaches

\* The gate takes one more: all but its oldest items stay, the new one last.
LEMMA BackedMore ==
    ASSUME NEW s, NEW r, NEW o, Extended(s, <<o>>, r), NEW p, NEW v \in Nat, NEW h \in Nat, v <= h, h + 1 <= MaxBuffer,
           o = FE!Live([src |-> p, n |-> h + 1]), v < h => Backed(s, p, v, h)
    PROVE  Backed(r, p, v, h + 1)
<1>1. PICK d \in 0 .. Len(s) + 1 :
          /\ Len(r) = Len(s) + 1 - d
          /\ d # 0 => Len(r) = MaxBuffer
          /\ \A i \in 1 .. Len(r) : /\ i + d <= Len(s) => r[i] = s[i + d]
                                    /\ i + d > Len(s) => r[i] = (<<o>>)[i + d - Len(s)]
  BY DEF Extended
<1>2. Len(s) \in Nat /\ MaxBuffer \in Nat
  BY BoundsAssumption DEF Extended
<1>3. v < h => h - v <= Len(s)
  BY DEF Backed
<1>4. h + 1 - v <= Len(r)
  <2>1. CASE d = 0
    <3>1. v = h \/ v < h
      OBVIOUS
    <3> QED
      BY <1>1, <1>2, <1>3, <2>1, <3>1
  <2>2. CASE d # 0
    BY <1>1, <1>2, <2>2
  <2> QED
    BY <2>1, <2>2
<1>5. ASSUME NEW n \in Nat, v < n, n <= h + 1
      PROVE  r[Len(r) - (h + 1 - n)] = FE!Live([src |-> p, n |-> n])
  <2> DEFINE i == Len(r) - (h + 1 - n)
  <2>1. i \in 1 .. Len(r)
    BY <1>1, <1>2, <1>4, <1>5
  <2>2. CASE n = h + 1
    <3>1. i + d > Len(s) /\ i + d - Len(s) = 1
      BY <1>1, <1>2, <2>2
    <3>2. r[i] = (<<o>>)[1]
      BY <1>1, <2>1, <3>1
    <3> QED
      BY <2>2, <3>2
  <2>3. CASE n <= h
    <3>1. i + d <= Len(s) /\ i + d = Len(s) - (h - n) /\ v < h
      BY <1>1, <1>2, <1>5, <2>3
    <3>2. r[i] = s[Len(s) - (h - n)]
      BY <1>1, <2>1, <3>1
    <3> QED
      BY <1>5, <2>3, <3>1, <3>2 DEF Backed
  <2> QED
    BY <1>5, <2>2, <2>3
<1> QED
  BY <1>4, <1>5 DEF Backed

\* The next output is shown, or held back by the history gate.
LEMMA NextReaches ==
    ASSUME NEW c \in Clients, NEW p \in Panes, NEW o, Dispatched(c, p, <<o>>), NEW h \in Nat, h + 1 <= MaxBuffer,
           o = FE!Live([src |-> p, n |-> h + 1]), Reaches(screen[c][p], historyGates[c][p], p, h)
    PROVE  Reaches(screen'[c][p], historyGates'[c][p], p, h + 1)
<1> DEFINE s == screen[c][p]
           g == historyGates[c][p]
<1>0. PICK v \in Nat : /\ \A n \in Nat : n # 0 /\ n <= v => Covers(s, p, n)
                       /\ v < h => g.tok # 0 /\ Backed(g.buf, p, v, h)
  BY DEF Reaches
<1>1. CASE h < v
  <2>1. ~(v < h + 1)
    BY <1>1
  <2>2. \A n \in Nat : n # 0 /\ n <= v => Covers(screen'[c][p], p, n)
    BY <1>0, ShownStays DEF Dispatched
  <2> QED
    BY <2>1, <2>2 DEF Reaches
<1>2. CASE v <= h
  <2>1. CASE g.tok # 0
    <3>1. screen'[c][p] = s /\ historyGates'[c][p].tok # 0 /\ Extended(g.buf, <<o>>, historyGates'[c][p].buf)
      BY <2>1 DEF Dispatched
    <3> HIDE DEF s, g
    <3>2. Backed(historyGates'[c][p].buf, p, v, h + 1)
      BY <1>0, <1>2, <3>1, BackedMore
    <3> QED
      BY <1>0, <3>1, <3>2 DEF Reaches
  <2>2. CASE g.tok = 0
    <3>1. v = h
      BY <1>0, <1>2, <2>2
    <3>2. Joined(s, <<o>>, screen'[c][p])
      BY <2>2 DEF Dispatched
    <3>3. \A n \in Nat : n # 0 /\ n <= h => Covers(screen'[c][p], p, n)
      BY <1>0, <3>1, <3>2, ShownStays
    <3>4. Covers(screen'[c][p], p, h + 1)
      <4> DEFINE r == screen'[c][p]
      <4>0. Len(<<o>>) = 1 /\ (<<o>>)[1] = o /\ 1 \in 1 .. 1
        OBVIOUS
      <4>1. Len(s) + 1 \in 1 .. Len(r) /\ r[Len(s) + 1] = o
        BY <3>2, <4>0 DEF Joined
      <4>2. o.src = p /\ o.k = "output" /\ o.n = h + 1
        BY DEF FE!Live
      <4> SUFFICES Covers(r, p, h + 1)
        OBVIOUS
      <4> HIDE DEF r, s
      <4>3. r[Len(s) + 1].src = p /\ r[Len(s) + 1].k # "history" /\ h + 1 = r[Len(s) + 1].n
        BY <4>1, <4>2
      <4> QED
        BY <4>1, <4>3 DEF Covers
    <3>5. \A n \in Nat : n <= h + 1 => n <= h \/ n = h + 1
      OBVIOUS
    <3>6. ~(h + 1 < h + 1) /\ h + 1 \in Nat
      OBVIOUS
    <3> QED
      BY <3>3, <3>4, <3>5, <3>6 DEF Reaches
  <2> QED
    BY <2>1, <2>2
<1> QED
  BY <1>0, <1>1, <1>2

\* The effects that leave the browser and the gateway in good faith.
Works(c) ==
    /\ ~ReadsLoss(c)
    /\ \/ Stays(c) \/ Asks(c) \/ (\E q \in Panes : AsksHistory(c, q) \/ GateTimesOut(c, q))
       \/ ReadsSome(c)
       \/ ServedQuietly(c) \/ ServedSelect(c) \/ ServedFocus(c) \/ ServedHistory(c)
       \/ (\E q \in Panes : Sends(c, q) \/ HoldsBack(c, q) \/ Unheard(c, q))
       \/ SendsHistory(c) \/ SendsFetched(c) \/ Forgets(c) \/ Tells(c, "RECONNECTED") \/ (Releases(c) /\ sst[c] # "ACKED")

LEMMA TrustedWorks ==
    ASSUME AInv, NEW c \in Clients, Effect(c), ~missed'[c], ~gap'[c], ~Lossy(c)', \A q \in Panes : ~Selects(c, q)
    PROVE  Works(c) /\ ~gap[c]
<1>0. connected'[c] /\ ~Leaves(requests'[c]) /\ ~Parts(wire'[c])
  BY DEF Lossy, Leaves, Parts
<1>1. ~AsksLeave(c)
  <2> SUFFICES ASSUME AsksLeave(c) PROVE FALSE
    OBVIOUS
  <2>1. Added(requests[c], requests'[c], Disconnect) /\ Disconnect.k = "DISCONNECT"
    BY DEF AsksLeave, Disconnect, Request
  <2> QED
    BY <1>0, <2>1, AddedAims
<1>2. /\ \A q \in Panes : ~AsksFocus(c, q)
      /\ ~TimesOut(c) /\ ~ReadsLoss(c) /\ ~ServedLeave(c) /\ ~Drops(c) /\ ~Loses(c) /\ ~GivesUp(c)
      /\ ~Tells(c, "RECONNECTING") /\ (Releases(c) => sst[c] # "ACKED")
  BY <1>0 DEF AsksFocus, TimesOut, ReadsLoss, ServedLeave, Drops, Loses, GivesUp, Tells, Releases
<1>3. Works(c)
  BY <1>1, <1>2 DEF Effect, AsksSome, TimesOutSome, ServedSome, ActsSome, Works
<1>4. ~gap[c]
  <2>1. ReadsSome(c) => ~gap[c]
    BY ReadsAny DEF Reads, NotesKept
  <2>2. ~ReadsSome(c) => ~gap[c]
    BY <1>3 DEF Works, Stays, Asks, AsksHistory, GateTimesOut, ServedQuietly, ServedSelect, ServedFocus, ServedHistory,
       Sends, HoldsBack, Unheard, SendsHistory, SendsFetched, Forgets, Tells, Releases, SideKept, NotesKept
  <2> QED
    BY <2>1, <2>2
<1> QED
  BY <1>3, <1>4

LEMMA WorksKeeps ==
    ASSUME AInv, NEW c \in Clients, Works(c), want'[c] # NoPane
    PROVE  /\ missed'[c] = missed[c] /\ want'[c] = want[c]
           /\ Lossy(c) => Lossy(c)'
           /\ \A p \in Panes : emitted'[p] = emitted[p] \/ emitted'[p] = emitted[p] + 1
<1> SUFFICES /\ missed'[c] = missed[c] /\ want'[c] = want[c]
             /\ ~connected[c] \/ Leaves(requests[c]) \/ Parts(wire[c]) => ~connected'[c] \/ Leaves(requests'[c]) \/ Parts(wire'[c])
             /\ \A p \in Panes : emitted'[p] = emitted[p] \/ emitted'[p] = emitted[p] + 1
  BY DEF Lossy, Leaves, Parts
<1>1. CASE ReadsSome(c)
  <2>1. /\ missed'[c] = missed[c] /\ want'[c] = want[c] /\ requests'[c] = requests[c] /\ emitted' = emitted
        /\ Popped(wire[c], wire'[c])
    BY <1>1, ReadsAny DEF Reads, NotesKept, QueueKept, GatewayKept, DeviceKept
  <2>2. wire[c][1].k \notin {"DISCONNECTED", "LOST"}
    BY <1>1 DEF Works, ReadsSome, ReadsStatus, Refuses, ReadsAck, ReadsHistory, ReadsFetched, ReadsResume, Holds, Displays
  <2>3. ~connected[c] => ~connected'[c]
    <3>1. connected'[c] = connected[c] \/ ReadsStatus(c)
      BY <1>1, ReadsAny DEF Works
    <3> QED
      BY <2>1, <3>1 DEF ReadsStatus
  <2> QED
    BY <2>1, <2>2, <2>3, PoppedAims
<1>2. CASE ~ReadsSome(c)
  <2>1. missed'[c] = missed[c] /\ want'[c] = want[c] /\ connected'[c] = connected[c]
    BY <1>2 DEF Works, Stays, Asks, AsksHistory, GateTimesOut, ServedQuietly, ServedSelect, ServedFocus, ServedHistory,
       Sends, HoldsBack, Unheard, SendsHistory, SendsFetched, Forgets, Tells, Releases, SideKept, NotesKept, StoreKept, Served, Beyond
  <2>2. Leaves(requests[c]) => Leaves(requests'[c])
    <3>1. CASE Asks(c)
      <4>1. PICK r \in Requests : /\ r.k \in {"CONNECT", "SUBSCRIBE"}
                                  /\ Added(requests[c], requests'[c], r) \/ Fronted(requests[c], requests'[c], r)
        BY <3>1 DEF Asks
      <4>2. ~Aims(r)
        BY <4>1 DEF Aims
      <4> QED
        BY <4>1, <4>2, AddedAims, FrontedAims
    <3>2. ASSUME NEW q \in Panes, AsksHistory(c, q) PROVE Leaves(requests[c]) => Leaves(requests'[c])
      BY <3>2, AddedAims DEF AsksHistory
    <3>3. CASE ServedQuietly(c) \/ ServedSelect(c) \/ ServedFocus(c) \/ ServedHistory(c)
      <4>1. Popped(requests[c], requests'[c]) /\ requests[c][1].k # "DISCONNECT"
        BY <3>3 DEF ServedQuietly, ServedSelect, ServedFocus, ServedHistory, Served
      <4> QED
        BY <4>1, PoppedAims
    <3>4. CASE requests'[c] = requests[c]
      BY <3>4
    <3>5. \/ Asks(c) \/ (\E q \in Panes : AsksHistory(c, q))
          \/ ServedQuietly(c) \/ ServedSelect(c) \/ ServedFocus(c) \/ ServedHistory(c) \/ requests'[c] = requests[c]
      BY <1>2 DEF Works, Stays, GateTimesOut, Sends, HoldsBack, Unheard, SendsHistory, SendsFetched, Forgets, Tells, Releases, Beyond, QueueKept
    <3> QED
      BY <3>1, <3>2, <3>3, <3>4, <3>5
  <2>3. Parts(wire[c]) => Parts(wire'[c])
    <3>1. CASE Releases(c)
      <4>1. Flushed(wire[c], wire'[c], buffer[c], pending[c])
        BY <3>1 DEF Releases, Flushed
      <4>2. \A i \in 1 .. Len(wire[c]) : i \in 1 .. Len(wire'[c]) /\ wire'[c][i] = wire[c][i]
        <5>1. \A i \in 1 .. Len(wire[c]) : wire'[c][i] = wire[c][i]
          BY <4>1 DEF Flushed
        <5>2. \A i \in 1 .. Len(wire[c]) : i \in 1 .. Len(wire'[c])
          BY <4>1, FlushedParts
        <5> QED
          BY <5>1, <5>2
      <4> QED
        BY <4>2 DEF Parts
    <3>2. WireKept(c) \/ (\E m : Added(wire[c], wire'[c], m)) => (Parts(wire[c]) => Parts(wire'[c]))
      BY AddedAims DEF WireKept
    <3> QED
      BY <1>2, <3>1, <3>2 DEF Works, Stays, Asks, AsksHistory, GateTimesOut, ServedQuietly, ServedSelect, ServedFocus, ServedHistory,
       Sends, HoldsBack, Unheard, SendsHistory, SendsFetched, Forgets, Tells
  <2>4. ASSUME NEW p \in Panes PROVE emitted'[p] = emitted[p] \/ emitted'[p] = emitted[p] + 1
    <3>1. emitted' = emitted \/ \E q \in Panes : Emitted(q)
      BY <1>2 DEF Works, Stays, Asks, AsksHistory, GateTimesOut, ServedQuietly, ServedSelect, ServedFocus, ServedHistory,
       Sends, HoldsBack, Unheard, SendsHistory, SendsFetched, Forgets, Tells, Releases, GatewayKept, DeviceKept
    <3> QED
      BY <3>1, Tables DEF Emitted
  <2> QED
    BY <2>1, <2>2, <2>3, <2>4
<1> QED
  BY <1>1, <1>2

\* What the requests become.
LEMMA WorksRequests ==
    ASSUME AInv, NEW c \in Clients, Works(c)
    PROVE  /\ \/ QueueKept(c)
              \/ \E r : ~Aims(r) /\ (Added(requests[c], requests'[c], r) \/ Fronted(requests[c], requests'[c], r))
              \/ Served(c)
           /\ NoAims(requests[c], 0) => NoAims(requests'[c], 0) /\ ~ServedSelect(c) /\ ~ServedFocus(c)
<1>1. \/ QueueKept(c)
      \/ \E r : ~Aims(r) /\ (Added(requests[c], requests'[c], r) \/ Fronted(requests[c], requests'[c], r))
      \/ Served(c)
  <2>1. CASE Asks(c)
    BY <2>1 DEF Asks, Aims
  <2>2. ASSUME NEW q \in Panes, AsksHistory(c, q)
        PROVE  \E r : ~Aims(r) /\ Added(requests[c], requests'[c], r)
    BY <2>2 DEF AsksHistory, Aims, Request
  <2>3. CASE ReadsSome(c)
    BY <2>3, ReadsAny DEF Reads
  <2> QED
    BY <2>1, <2>2, <2>3 DEF Works, Stays, GateTimesOut, ServedQuietly, ServedSelect, ServedFocus, ServedHistory,
       Sends, HoldsBack, Unheard, SendsHistory, SendsFetched, Forgets, Tells, Releases, Beyond
<1>2. ASSUME NoAims(requests[c], 0) PROVE NoAims(requests'[c], 0)
  <2>1. CASE QueueKept(c)
    BY <1>2, <2>1 DEF QueueKept
  <2>2. ASSUME NEW r, ~Aims(r), Added(requests[c], requests'[c], r) PROVE NoAims(requests'[c], 0)
    <3>1. 0 \in 0 .. Len(requests[c])
      BY <2>2 DEF Added
    <3> QED
      BY <1>2, <2>2, <3>1, AddedAims
  <2>3. ASSUME NEW r, ~Aims(r), Fronted(requests[c], requests'[c], r) PROVE NoAims(requests'[c], 0)
    BY <1>2, <2>3, FrontedAims
  <2>4. CASE Served(c)
    BY <1>2, <2>4, PoppedAims DEF Served
  <2> QED
    BY <1>1, <2>1, <2>2, <2>3, <2>4
<1>3. NoAims(requests[c], 0) => ~ServedSelect(c) /\ ~ServedFocus(c)
  BY PoppedAims DEF ServedSelect, ServedFocus, Served, Aims
<1> QED
  BY <1>1, <1>2, <1>3

\* What becomes of the browser when it does not read.
LEMMA WorksAside ==
    ASSUME NEW c \in Clients, Works(c), ~ReadsSome(c)
    PROVE  /\ MachineKept(c)
           /\ \A p \in Panes : \/ screen'[c][p] = screen[c][p] /\ historyGates'[c][p] = historyGates[c][p]
                               \/ Joined(screen[c][p], historyGates[c][p].buf, screen'[c][p])
<1>1. ASSUME NEW q \in Panes, AsksHistory(c, q) \/ GateTimesOut(c, q), NEW p \in Panes
      PROVE  \/ screen'[c][p] = screen[c][p] /\ historyGates'[c][p] = historyGates[c][p]
             \/ Joined(screen[c][p], historyGates[c][p].buf, screen'[c][p])
  <2>1. Elsewhere(c, q) /\ Joined(screen[c][q], historyGates[c][q].buf, screen'[c][q])
    BY <1>1 DEF AsksHistory, GateTimesOut
  <2> QED
    BY <2>1 DEF Elsewhere
<1>2. ASSUME \A q \in Panes : ~(AsksHistory(c, q) \/ GateTimesOut(c, q)) PROVE BrowserKept(c)
  BY <1>2 DEF Works, Stays, Asks, ServedQuietly, ServedSelect, ServedFocus, ServedHistory,
       Sends, HoldsBack, Unheard, SendsHistory, SendsFetched, Forgets, Tells, Releases, Beyond, Served
<1>3. MachineKept(c)
  BY <1>2 DEF AsksHistory, GateTimesOut, BrowserKept
<1> QED
  BY <1>1, <1>2, <1>3 DEF BrowserKept, SinksKept

\* The gateway's half, when it hears the pane and no switch is open, or when a
\* switch is open that heard the pane from its start.
LEMMA WorksSwitched ==
    ASSUME AInv, NEW c \in Clients, NEW p \in Panes, Works(c), ~gap'[c], NoAims(requests[c], 0), Hears(c, p)
    PROVE  /\ Hears(c, p)'
           /\ \/ /\ emitted'[p] = emitted[p]
                 /\ \/ WireKept(c)
                    \/ ReadsSome(c) /\ Popped(wire[c], wire'[c])
                    \/ \E m : Added(wire[c], wire'[c], m) /\ ~(m.k \in {"OUTPUT", "HISTORY"} /\ m.pane = p)
              \/ /\ emitted'[p] = emitted[p] + 1
                 /\ \E m : /\ Added(wire[c], wire'[c], m) /\ m.k = "OUTPUT" /\ m.pane = p /\ m.src = p /\ m.n = emitted[p] + 1
<1> DEFINE Quiet == \/ WireKept(c)
                    \/ ReadsSome(c) /\ Popped(wire[c], wire'[c])
                    \/ \E m : Added(wire[c], wire'[c], m) /\ ~(m.k \in {"OUTPUT", "HISTORY"} /\ m.pane = p)
<1>0. up /\ c \in attached /\ selected[c] = p /\ pending[c].tok = 0 /\ ~ServedSelect(c) /\ ~ServedFocus(c)
  BY WorksRequests DEF Hears
<1>1. Hears(c, p)'
  <2>1. ReadsSome(c) => GatewayKept(c)
    BY ReadsAny DEF Reads
  <2>2. SwitchKept(c) /\ selected'[c] = selected[c] /\ StillHears(c)
    BY <1>0, <2>1 DEF Works, Stays, Asks, AsksHistory, GateTimesOut, ServedQuietly, ServedHistory,
       Sends, HoldsBack, Unheard, SendsHistory, SendsFetched, Forgets, Tells, Releases, GatewayKept, FocusKept, DeviceKept
  <2> QED
    BY <1>0, <2>2 DEF Hears, SwitchKept, StillHears
<1>2. CASE ReadsSome(c)
  BY <1>1, <1>2, ReadsAny DEF Reads, GatewayKept, DeviceKept
<1>3. ASSUME NEW q \in Panes, Sends(c, q)
      PROVE  \/ emitted'[p] = emitted[p] /\ Quiet
             \/ /\ emitted'[p] = emitted[p] + 1
                /\ \E m : /\ Added(wire[c], wire'[c], m) /\ m.k = "OUTPUT" /\ m.pane = p /\ m.src = p /\ m.n = emitted[p] + 1
  <2> DEFINE m == Output(q, Chunked(q))
  <2>1. m.k = "OUTPUT" /\ m.pane = q /\ m.src = q /\ m.n = emitted[q] + 1
    BY DEF Output, Chunked
  <2>2. Added(wire[c], wire'[c], m) /\ emitted'[p] = IF q = p THEN emitted[p] + 1 ELSE emitted[p]
    BY <1>3, Tables DEF Sends, Emitted
  <2> HIDE DEF m
  <2> QED
    BY <2>1, <2>2
<1>4. ASSUME NEW q \in Panes, Unheard(c, q) PROVE emitted'[p] = emitted[p] /\ WireKept(c)
  BY <1>0, <1>4, Tables DEF Unheard, Emitted
<1>5. CASE SendsFetched(c)
  <2>1. PICK q \in Panes, m \in Frame : selected[c] # q /\ m.pane = q /\ Added(wire[c], wire'[c], m)
    BY <1>5 DEF SendsFetched
  <2>2. ~(m.k \in {"OUTPUT", "HISTORY"} /\ m.pane = p)
    BY <1>0, <2>1
  <2> QED
    BY <1>1, <1>5, <2>1, <2>2 DEF SendsFetched, DeviceKept
<1>6. CASE ServedQuietly(c) \/ Tells(c, "RECONNECTED")
  <2>1. WireKept(c) \/ (\E k \in {"CONNECTED", "RECONNECTED"} : Added(wire[c], wire'[c], Status(k)))
    BY <1>6 DEF ServedQuietly, Tells
  <2>2. \A k \in {"CONNECTED", "RECONNECTED"} : Status(k).k \notin {"OUTPUT", "HISTORY"}
    BY DEF Status
  <2>3. emitted' = emitted
    BY <1>6 DEF ServedQuietly, Tells, GatewayKept, DeviceKept
  <2> QED
    BY <1>1, <2>1, <2>2, <2>3
<1>7. CASE Stays(c) \/ Asks(c) \/ (\E q \in Panes : AsksHistory(c, q) \/ GateTimesOut(c, q)) \/ ServedHistory(c) \/ Forgets(c)
  BY <1>1, <1>7 DEF Stays, Asks, AsksHistory, GateTimesOut, ServedHistory, Forgets, GatewayKept, DeviceKept
<1>8. (\A q \in Panes : ~HoldsBack(c, q)) /\ ~SendsHistory(c) /\ ~Releases(c)
  BY <1>0 DEF HoldsBack, SendsHistory, Releases
<1> QED
  BY <1>0, <1>1, <1>2, <1>3, <1>4, <1>5, <1>6, <1>7, <1>8 DEF Works

LEMMA WorksSwitching ==
    ASSUME AInv, Listening, NEW c \in Clients, NEW p \in Panes, Works(c), ~gap'[c], NoAims(requests[c], 0), NEW t,
           pending[c].tok # 0, pending[c].tok = t, pending[c].pane = p, base[c] # -1
    PROVE  \/ /\ pending'[c] = pending[c] /\ base'[c] = base[c]
              /\ \/ sst'[c] = sst[c]
                 \/ sst[c] = "ACKED" /\ sst'[c] = "HISTORY_APPLIED" /\ ~ReadsSome(c)
                    /\ \E m \in Frame : Added(wire[c], wire'[c], m) /\ m.k = "HISTORY" /\ m.tok = t /\ base[c] <= m.n
              /\ \/ WireKept(c)
                 \/ ReadsSome(c) /\ Popped(wire[c], wire'[c])
                 \/ \E m : Added(wire[c], wire'[c], m) /\ ~(m.k = "HISTORY" /\ m.pane = p /\ m.tok # t)
           \/ Releases(c) /\ sst[c] # "ACKED" /\ Hears(c, p)' /\ emitted'[p] = emitted[p]
<1>0. /\ up /\ c \in attached /\ selected[c] = p /\ base[c] \in Nat /\ ~ServedSelect(c) /\ ~ServedFocus(c)
  BY WorksRequests DEF Listening
<1> DEFINE Quiet == \/ WireKept(c)
                    \/ ReadsSome(c) /\ Popped(wire[c], wire'[c])
                    \/ \E m : Added(wire[c], wire'[c], m) /\ ~(m.k = "HISTORY" /\ m.pane = p /\ m.tok # t)
           Same == pending'[c] = pending[c] /\ base'[c] = base[c] /\ sst'[c] = sst[c]
<1>1. CASE ReadsSome(c)
  BY <1>1, ReadsAny DEF Reads, GatewayKept, SwitchKept, FocusKept
<1>2. ASSUME NEW q \in Panes, Sends(c, q) \/ HoldsBack(c, q) \/ Unheard(c, q) PROVE Same /\ Quiet
  <2>1. Output(q, Chunked(q)).k # "HISTORY"
    BY DEF Output
  <2> QED
    BY <1>2, <2>1 DEF Sends, HoldsBack, Unheard, SwitchKept, FocusKept
<1>3. CASE SendsFetched(c)
  <2>1. PICK q \in Panes, m \in Frame : selected[c] # q /\ m.pane = q /\ Added(wire[c], wire'[c], m)
    BY <1>3 DEF SendsFetched
  <2>2. ~(m.k = "HISTORY" /\ m.pane = p /\ m.tok # t)
    BY <1>0, <2>1
  <2>3. Same
    BY <1>3 DEF SendsFetched, SwitchKept, FocusKept
  <2> QED
    BY <2>1, <2>2, <2>3
<1>4. CASE ServedQuietly(c) \/ Tells(c, "RECONNECTED")
  <2>1. WireKept(c) \/ (\E k \in {"CONNECTED", "RECONNECTED"} : Added(wire[c], wire'[c], Status(k)))
    BY <1>4 DEF ServedQuietly, Tells
  <2>2. \A k \in {"CONNECTED", "RECONNECTED"} : Status(k).k # "HISTORY"
    BY DEF Status
  <2>3. Same
    BY <1>4 DEF ServedQuietly, Tells, GatewayKept, SwitchKept, FocusKept
  <2> QED
    BY <2>1, <2>2, <2>3
<1>5. CASE Stays(c) \/ Asks(c) \/ (\E q \in Panes : AsksHistory(c, q) \/ GateTimesOut(c, q)) \/ ServedHistory(c) \/ Forgets(c)
  BY <1>5 DEF Stays, Asks, AsksHistory, GateTimesOut, ServedHistory, Forgets, GatewayKept, SwitchKept, FocusKept
<1>6. CASE SendsHistory(c) /\ ~ReadsSome(c)
  <2>1. pending'[c] = pending[c] /\ base'[c] = base[c] /\ sst[c] = "ACKED" /\ sst'[c] = "HISTORY_APPLIED"
    BY <1>6 DEF SendsHistory, FocusKept
  <2>2. PICK m \in Frame : /\ m.k = "HISTORY" /\ m.tok = t /\ Added(wire[c], wire'[c], m)
                           /\ m.n < base[c] => gap'[c]
    BY <1>6 DEF SendsHistory
  <2>3. m.n \in Nat
    BY DEF Frame
  <2>4. base[c] <= m.n
    BY <1>0, <2>2, <2>3
  <2> QED
    BY <1>6, <2>1, <2>2, <2>4
<1>7. CASE Releases(c) /\ sst[c] # "ACKED"
  BY <1>0, <1>7 DEF Releases, DeviceKept, StillHears, Hears
<1> QED
  BY <1>0, <1>1, <1>2, <1>3, <1>4, <1>5, <1>6, <1>7 DEF Works

\* A frame under the token of the transaction is taken by it; it alone moves it.
LEMMA ReadsUnder ==
    ASSUME AInv, NEW c \in Clients, CurrentFor(c), tx[c].tok # 0, ReadsSome(c), ~ReadsLoss(c)
    PROVE  /\ wire[c][1].tok = tx[c].tok => ReadsAck(c) \/ ReadsHistory(c) \/ ReadsResume(c)
           /\ ReadsAck(c) \/ ReadsHistory(c) \/ ReadsResume(c) => wire[c][1].tok = tx[c].tok
           /\ ReadsResume(c) \/ (tx'[c].tok = tx[c].tok /\ tx'[c].pane = tx[c].pane)
           /\ ReadsAck(c) \/ ReadsHistory(c) \/ ReadsResume(c) \/ tx'[c] = tx[c]
<1> DEFINE m == wire[c][1]
           t == tx[c].tok
<1>0. Popped(wire[c], wire'[c]) /\ FrameOK(m) /\ m \in Frame
  BY ReadsAny, PoppedFrame DEF Reads
<1>1. ASSUME m.tok = t PROVE ReadsAck(c) \/ ReadsHistory(c) \/ ReadsResume(c)
  <2>1. \/ m.k = "ACK" /\ FE!TakesAck(c, m.tok)
        \/ m.k = "HISTORY" /\ FE!TakesHistory(c, m.tok)
        \/ m.k = "RESUME" /\ FE!TakesResume(c, m.tok)
    BY <1>0, <1>1, ExpectsFrame
  <2>2. ~ReadsFetched(c)
    <3> SUFFICES ASSUME ReadsFetched(c) PROVE FALSE
      OBVIOUS
    <3>1. historyGates[c][m.pane].tok = t /\ m.pane \in Panes
      BY <1>0, <1>1 DEF ReadsFetched, FrameOK
    <3> QED
      BY <3>1 DEF CurrentFor
  <2> QED
    BY <2>1, <2>2 DEF ReadsSome, ReadsStatus, Refuses, Holds, Displays
<1>2. ASSUME ReadsAck(c) \/ ReadsHistory(c) \/ ReadsResume(c) PROVE m.tok = t
  BY <1>2 DEF ReadsAck, ReadsHistory, ReadsResume, FE!TakesAck, FE!TakesHistory, FE!TakesResume, FE!Awaits
<1>3. ReadsAck(c) \/ ReadsHistory(c) \/ ReadsResume(c) \/ tx'[c] = tx[c]
  BY DEF ReadsSome, ReadsStatus, Refuses, ReadsFetched, Holds, Displays, BrowserKept, MachineKept
<1>4. ReadsAck(c) \/ ReadsHistory(c) => tx'[c].tok = t /\ tx'[c].pane = tx[c].pane
  BY DEF ReadsAck, ReadsHistory, Advanced
<1> QED
  BY <1>1, <1>2, <1>3, <1>4

\* The switch's history stays on its way or is shown, and is not reset.
LEMMA ReadsCaught ==
    ASSUME AInv, NEW c \in Clients, CurrentFor(c), tx[c].tok # 0, ReadsSome(c), ~ReadsLoss(c), ~ReadsResume(c),
           NEW p \in Panes, tx[c].pane = p, NoStale(wire[c], p, tx[c].tok),
           NEW u \in Nat, NEW r \in Int, Caught(wire[c], tx[c], screen[c][p], p, u, r)
    PROVE  Caught(wire'[c], tx'[c], screen'[c][p], p, u, r - 1)
<1> DEFINE m == wire[c][1]
           t == tx[c].tok
<1>0. Popped(wire[c], wire'[c]) /\ FrameOK(m) /\ m \in Frame /\ 1 \in 1 .. Len(wire[c])
  BY ReadsAny, PoppedFrame DEF Reads
<1>1. tx'[c].tok = t /\ tx'[c].pane = p
  BY ReadsUnder
<1>t. InTurn(wire[c], t, p, Stage(tx[c].state))
  BY DEF CurrentFor, TokenOK
<1>2. CASE Sent(wire[c], t, u, r)
  <2>1. CASE Sent(wire'[c], t, u, r - 1)
    BY <1>1, <2>1 DEF Caught
  <2>2. CASE m.k = "HISTORY" /\ m.tok = t /\ m.n = u
    <3>1. ReadsHistory(c)
      BY <2>2, ReadsUnder DEF ReadsAck, ReadsResume
    <3>2. m.pane = p
      BY <1>0, <1>t, <2>2 DEF InTurn
    <3>3. tx'[c].state = "HISTORY_APPLIED" /\ Added(screen[c][p], screen'[c][p], FE!Past(p, u))
      BY <2>2, <3>1, <3>2 DEF ReadsHistory, Advanced
    <3>4. HasPast(screen'[c][p], p, u)
      <4>1. Len(screen[c][p]) + 1 \in 1 .. Len(screen'[c][p])
        BY <3>3 DEF Added
      <4> QED
        BY <3>3, <4>1 DEF Added, HasPast
    <3> QED
      BY <3>3, <3>4 DEF Caught
  <2> QED
    BY <1>0, <1>2, <2>1, <2>2, SentKept
<1>3. CASE tx[c].state = "HISTORY_APPLIED" /\ HasPast(screen[c][p], p, u)
  <2>1. ~ReadsAck(c) /\ ~ReadsHistory(c)
    BY <1>3 DEF ReadsAck, ReadsHistory, FE!TakesAck, FE!TakesHistory, FE!Awaits
  <2>2. tx'[c] = tx[c]
    BY <2>1, ReadsUnder
  <2>3. CASE ReadsFetched(c) /\ m.pane = p
    <3>1. m.k = "HISTORY" /\ m.tok # t
      BY <2>1, <2>3, ReadsUnder DEF ReadsFetched
    <3>2. PICK j \in 1 .. Len(wire[c]) : wire[c][j].k = "ACK" /\ wire[c][j].tok = t
      BY <1>0, <2>3, <3>1 DEF NoStale
    <3>3. Stage(tx[c].state) < RankOf(wire[c][j].k)
      BY <1>t, <3>2 DEF InTurn
    <3>4. Stage(tx[c].state) = 2 /\ RankOf(wire[c][j].k) = 1
      BY <1>3, <3>2 DEF Stage, RankOf
    <3> QED
      BY <3>3, <3>4
  <2>4. CASE ~(ReadsFetched(c) /\ m.pane = p)
    <3>1. screen'[c][p] = screen[c][p]
      <4>1. CASE ReadsStatus(c) \/ Refuses(c) \/ Holds(c)
        BY <4>1 DEF ReadsStatus, Refuses, Holds, BrowserKept, SinksKept
      <4>2. CASE ReadsFetched(c)
        BY <2>4, <4>2 DEF ReadsFetched, Elsewhere
      <4>3. CASE Displays(c)
        BY <4>3 DEF Displays, Dispatched, Elsewhere
      <4> QED
        BY <2>1, <4>1, <4>2, <4>3 DEF ReadsSome
    <3> QED
      BY <1>3, <2>2, <3>1 DEF Caught
  <2> QED
    BY <2>3, <2>4
<1> QED
  BY <1>2, <1>3 DEF Caught

\* Whether the switch is asked for, begun, on its way back or done, it stays so
\* or goes on to the next.
LEMMA AskedGoesOn ==
    ASSUME AInv, NEW c \in Clients, NEW p \in Panes, CurrentFor(c), Asked(c, p), Works(c), ~missed'[c], ~gap'[c]
    PROVE  Asked(c, p)' \/ Begun(c, p)'
<1> DEFINE t == tx[c].tok
           rq == requests[c]
<1>0. t # 0 /\ tx[c].pane = p
  BY DEF Asked
<1>1. PICK i \in 1 .. Len(rq) : rq[i].tok = t /\ NoAims(rq, i)
  BY DEF Asked
<1>2. ~Free(rq, t) /\ OneSelect(rq, t, p) /\ Free(wire[c], t)
  <2>1. ~Free(rq, t)
    BY <1>1 DEF Free
  <2> QED
    BY <1>0, <2>1 DEF CurrentFor, TokenOK
<1>3. tx'[c] = tx[c]
  <2>1. CASE ReadsSome(c)
    <3>1. wire[c][1].tok # t
      BY <1>2, <2>1, ReadsAny, PoppedFrame DEF Free, Reads
    <3> QED
      BY <1>0, <2>1, <3>1, ReadsUnder DEF Works
  <2>2. CASE ~ReadsSome(c)
    BY <2>2, WorksAside DEF MachineKept
  <2> QED
    BY <2>1, <2>2
<1>4. ASSUME NEW j \in 1 .. Len(requests'[c]), requests'[c][j].tok = t, NoAims(requests'[c], j)
      PROVE  Asked(c, p)'
  BY <1>0, <1>3, <1>4 DEF Asked, NoAims
<1>5. CASE QueueKept(c)
  BY <1>1, <1>4, <1>5 DEF QueueKept
<1>6. ASSUME NEW r, ~Aims(r), Added(rq, requests'[c], r) PROVE Asked(c, p)'
  <2>1. i \in 1 .. Len(requests'[c]) /\ requests'[c][i] = rq[i] /\ i \in 0 .. Len(rq)
    BY <1>6 DEF Added
  <2>2. NoAims(requests'[c], i)
    BY <1>1, <1>6, <2>1, AddedAims
  <2> QED
    BY <1>1, <1>4, <2>1, <2>2
<1>7. ASSUME NEW r, ~Aims(r), Fronted(rq, requests'[c], r) PROVE Asked(c, p)'
  <2>1. i + 1 \in 1 .. Len(requests'[c]) /\ requests'[c][i + 1] = rq[i]
    BY <1>7 DEF Fronted
  <2>2. NoAims(requests'[c], i + 1)
    BY <1>1, <1>7, FrontedAims
  <2> QED
    BY <1>1, <1>4, <2>1, <2>2
<1>8. CASE Served(c) /\ i # 1
  <2>1. Popped(rq, requests'[c])
    BY <1>8 DEF Served
  <2>2. Len(rq) \in Nat \ {0} /\ Len(requests'[c]) = Len(rq) - 1
    BY <2>1 DEF Popped
  <2>3. i - 1 \in 1 .. Len(requests'[c]) /\ (i - 1) + 1 = i
    BY <1>8, <2>2
  <2>4. requests'[c][i - 1] = rq[i]
    BY <2>1, <2>3 DEF Popped
  <2>5. NoAims(requests'[c], i - 1)
    BY <1>1, <2>1, PoppedAims
  <2> QED
    BY <1>1, <1>4, <2>3, <2>4, <2>5
<1>9. CASE Served(c) /\ i = 1 /\ ~QueueKept(c)
  <2>1. Popped(rq, requests'[c]) /\ rq[1].k = "SELECT" /\ rq[1].tok = t /\ rq[1].pane = p
    BY <1>1, <1>2, <1>9 DEF Served, OneSelect
  <2>2. ServedSelect(c) \/ Asked(c, p)'
    <3>1. CASE \E r : ~Aims(r) /\ (Added(rq, requests'[c], r) \/ Fronted(rq, requests'[c], r))
      BY <1>6, <1>7, <3>1
    <3>2. CASE ~\E r : ~Aims(r) /\ (Added(rq, requests'[c], r) \/ Fronted(rq, requests'[c], r))
      <4>1. ~Asks(c) /\ \A q \in Panes : ~AsksHistory(c, q)
        BY <3>2 DEF Asks, AsksHistory, Aims, Request
      <4>2. ~ReadsSome(c)
        BY <1>9, ReadsAny DEF Reads
      <4> QED
        BY <1>9, <2>1, <4>1, <4>2 DEF Works, Stays, GateTimesOut, ServedQuietly, ServedFocus, ServedHistory,
           Sends, HoldsBack, Unheard, SendsHistory, SendsFetched, Forgets, Tells, Releases, Beyond
    <3> QED
      BY <3>1, <3>2
  <2>3. ASSUME ServedSelect(c) PROVE Begun(c, p)'
    <3>1. NoAims(requests'[c], 0)
      BY <1>1, <1>9, <2>1, PoppedAims
    <3>2. up /\ c \in attached /\ base'[c] = emitted[p] /\ base'[c] # -1
      BY <2>1, <2>3, Tables DEF ServedSelect
    <3>3. Added(wire[c], wire'[c], Ack(t, p)) /\ Ack(t, p).k = "ACK" /\ Ack(t, p).tok = t
      BY <2>1, <2>3 DEF ServedSelect, Ack
    <3>4. NoStale(wire'[c], p, t)
      BY <3>3, StaleKept
    <3>5. pending'[c].tok = t /\ sst'[c] = "ACKED"
      BY <2>1, <2>3 DEF ServedSelect
    <3> QED
      BY <1>0, <1>3, <3>1, <3>2, <3>4, <3>5 DEF Begun, NoAims, NoStale
  <2> QED
    BY <2>2, <2>3
<1> QED
  BY <1>5, <1>6, <1>7, <1>8, <1>9, WorksRequests

LEMMA BegunGoesOn ==
    ASSUME AInv, Listening, NEW c \in Clients, NEW p \in Panes, CurrentFor(c), Begun(c, p), Works(c), ~missed'[c], ~gap'[c],
           emitted[p] <= MaxBuffer
    PROVE  Begun(c, p)' \/ Coming(c, p)'
<1> DEFINE t == tx[c].tok
           w == wire[c]
<1>0. /\ t # 0 /\ tx[c].pane = p /\ NoAims(requests[c], 0) /\ pending[c].tok = t /\ base[c] # -1 /\ NoStale(w, p, t)
      /\ NoAims(requests'[c], 0)
  BY WorksRequests DEF Begun
<1>t. pending[c].pane = p /\ UpTo(w, t, Stage(sst[c]))
  BY <1>0 DEF CurrentFor, TokenOK
<1>1. Len(w) \in Nat
  BY Tables, LenProperties
<1>2. ~(ReadsSome(c) /\ ReadsResume(c))
  <2> SUFFICES ASSUME ReadsSome(c), ReadsResume(c) PROVE FALSE
    OBVIOUS
  <2>1. 1 \in 1 .. Len(w) /\ w[1].tok = t /\ w[1].k = "RESUME"
    BY <1>0, ReadsAny, PoppedFrame, ReadsUnder DEF ReadsResume, Reads, Works
  <2>2. RankOf(w[1].k) <= Stage(sst[c])
    BY <1>t, <2>1 DEF UpTo
  <2>3. RankOf(w[1].k) = 3 /\ Stage(sst[c]) \in {0, 1, 2}
    BY <2>1 DEF RankOf, Stage
  <2> QED
    BY <2>2, <2>3
<1>3. tx'[c].tok = t /\ tx'[c].pane = p
  <2>1. CASE ReadsSome(c)
    BY <1>0, <1>2, <2>1, ReadsUnder DEF Works
  <2>2. CASE ~ReadsSome(c)
    BY <1>0, <2>2, WorksAside DEF MachineKept
  <2> QED
    BY <2>1, <2>2
\* The history, caught so far, stays so.
<1>4. ASSUME NEW u \in Nat, Caught(w, tx[c], screen[c][p], p, u, Len(w) + 1)
      PROVE  /\ WireKept(c) \/ (\E m : Added(w, wire'[c], m)) \/ (ReadsSome(c) /\ Popped(w, wire'[c]))
                => Caught(wire'[c], tx'[c], screen'[c][p], p, u, Len(wire'[c]) + 1)
             /\ Flushed(w, wire'[c], buffer[c], pending[c]) /\ ~ReadsSome(c)
                => Caught(wire'[c], tx'[c], screen'[c][p], p, u, Len(w) + 1)
  <2>1. CASE ReadsSome(c)
    <3>1. Caught(wire'[c], tx'[c], screen'[c][p], p, u, (Len(w) + 1) - 1)
      BY <1>0, <1>1, <1>2, <1>4, <2>1, ReadsCaught DEF Works
    <3>2. Popped(w, wire'[c])
      BY <2>1, ReadsAny DEF Reads
    <3>3. Len(wire'[c]) + 1 = (Len(w) + 1) - 1
      BY <1>1, <3>2 DEF Popped
    <3> QED
      BY <2>1, <3>1, <3>3
  <2>2. CASE ~ReadsSome(c)
    <3>1. tx'[c] = tx[c]
      BY <2>2, WorksAside DEF MachineKept
    <3>2. HasPast(screen[c][p], p, u) => HasPast(screen'[c][p], p, u)
      BY <2>2, WorksAside, ShownStays
    <3>3. \A r \in Int : Sent(wire'[c], t, u, r) \/ ~Sent(w, t, u, Len(w) + 1) => Caught(wire'[c], tx'[c], screen'[c][p], p, u, r)
      BY <1>4, <3>1, <3>2 DEF Caught
    <3>4. Len(w) + 1 \in Int
      BY <1>1
    <3>5. WireKept(c) => Caught(wire'[c], tx'[c], screen'[c][p], p, u, Len(wire'[c]) + 1)
      BY <3>3, <3>4 DEF WireKept
    <3>6. ASSUME NEW m, Added(w, wire'[c], m) PROVE Caught(wire'[c], tx'[c], screen'[c][p], p, u, Len(wire'[c]) + 1)
      <4>1. Len(wire'[c]) + 1 \in Int /\ Len(w) + 1 <= Len(wire'[c]) + 1
        BY <1>1, <3>6 DEF Added
      <4>2. Sent(w, t, u, Len(w) + 1) => Sent(wire'[c], t, u, Len(w) + 1)
        BY <3>4, <3>6, SentKept
      <4>3. Sent(wire'[c], t, u, Len(w) + 1) => Sent(wire'[c], t, u, Len(wire'[c]) + 1)
        BY <3>4, <4>1, SentKept
      <4> QED
        BY <3>3, <4>1, <4>2, <4>3
    <3>7. Flushed(w, wire'[c], buffer[c], pending[c]) => Caught(wire'[c], tx'[c], screen'[c][p], p, u, Len(w) + 1)
      BY <3>3, <3>4, SentKept
    <3> QED
      BY <2>2, <3>5, <3>6, <3>7
  <2> QED
    BY <2>1, <2>2
<1>5. CASE /\ pending'[c] = pending[c] /\ base'[c] = base[c]
           /\ \/ sst'[c] = sst[c]
              \/ sst[c] = "ACKED" /\ sst'[c] = "HISTORY_APPLIED" /\ ~ReadsSome(c)
                 /\ \E m \in Frame : Added(w, wire'[c], m) /\ m.k = "HISTORY" /\ m.tok = t /\ base[c] <= m.n
           /\ \/ WireKept(c)
              \/ ReadsSome(c) /\ Popped(w, wire'[c])
              \/ \E m : Added(w, wire'[c], m) /\ ~(m.k = "HISTORY" /\ m.pane = p /\ m.tok # t)
  <2>1. NoStale(wire'[c], p, t)
    BY <1>0, <1>5, StaleKept DEF WireKept
  <2>2. \/ sst'[c] = "ACKED"
        \/ sst'[c] = "HISTORY_APPLIED" /\ \E u \in Nat : base'[c] <= u /\ Caught(wire'[c], tx'[c], screen'[c][p], p, u, Len(wire'[c]) + 1)
    <3>1. CASE sst'[c] = sst[c]
      BY <1>4, <1>5, <3>1 DEF Begun
    <3>2. CASE sst[c] = "ACKED" /\ sst'[c] = "HISTORY_APPLIED" /\ ~ReadsSome(c)
               /\ \E m \in Frame : Added(w, wire'[c], m) /\ m.k = "HISTORY" /\ m.tok = t /\ base[c] <= m.n
      <4>1. PICK m \in Frame : Added(w, wire'[c], m) /\ m.k = "HISTORY" /\ m.tok = t /\ base[c] <= m.n
        BY <3>2
      <4>2. m.n \in Nat
        BY DEF Frame
      <4>3. Len(w) + 1 \in 1 .. Len(wire'[c]) /\ Len(w) + 1 < Len(wire'[c]) + 1 /\ wire'[c][Len(w) + 1] = m
        BY <1>1, <4>1 DEF Added
      <4>4. Sent(wire'[c], t, m.n, Len(wire'[c]) + 1)
        BY <4>1, <4>3 DEF Sent
      <4> QED
        BY <1>3, <1>5, <3>2, <4>1, <4>2, <4>4 DEF Caught
    <3> QED
      BY <1>5, <3>1, <3>2
  <2>3. tx'[c].tok # 0 /\ tx'[c].pane = p /\ NoAims(requests'[c], 0) /\ pending'[c].tok = tx'[c].tok /\ base'[c] # -1
        /\ NoStale(wire'[c], p, tx'[c].tok)
    BY <1>0, <1>3, <1>5, <2>1
  <2>4. Begun(c, p)'
    BY <2>2, <2>3 DEF Begun, NoAims, NoStale, Caught, Sent, HasPast, FE!Past
  <2> QED
    BY <2>4
<1>6. CASE Releases(c) /\ sst[c] # "ACKED" /\ Hears(c, p)' /\ emitted'[p] = emitted[p] /\ ~ReadsSome(c)
  <2>1. Flushed(w, wire'[c], buffer[c], pending[c])
    BY <1>6 DEF Releases, Flushed
  <2>2. PICK u \in Nat : base[c] <= u /\ Caught(w, tx[c], screen[c][p], p, u, Len(w) + 1)
    BY <1>6 DEF Begun
  <2>3. Caught(wire'[c], tx'[c], screen'[c][p], p, u, Len(w) + 1)
    BY <1>4, <1>6, <2>1, <2>2
  <2>4. base[c] \in Nat /\ base[c] <= emitted[p] /\ HoldsLatest(buffer[c], p, base[c], emitted[p]) /\ emitted[p] \in Nat
    BY <1>0, <1>t, Tables DEF Listening
  <2>5. emitted[p] - base[c] <= MaxBuffer
    BY <2>4, BoundsAssumption
  <2>6. Flow(wire'[c], Len(w) + 1, p, base[c], emitted[p])
    BY <1>t, <2>1, <2>4, <2>5, FlushedFlow
  <2>7. Len(w) + 1 \in 1 .. Len(wire'[c]) /\ wire'[c][Len(w) + 1] = Resumed(t, p)
    <3>1. wire'[c][Len(w) + 1] = Resumed(t, p)
      BY <1>0, <1>t, <2>1 DEF Flushed
    <3>2. Len(w) + 1 \in 1 .. Len(wire'[c])
      BY <2>1, FlushedParts
    <3> QED
      BY <3>1, <3>2
  <2>8. wire'[c][Len(w) + 1].k = "RESUME" /\ wire'[c][Len(w) + 1].tok = t
    BY <2>7 DEF Resumed
  <2>9. NoStale(wire'[c], p, t)
    BY <1>0, <2>1, StaleKept
  <2>10. /\ tx'[c].tok # 0 /\ tx'[c].pane = p /\ NoAims(requests'[c], 0) /\ NoStale(wire'[c], p, tx'[c].tok)
         /\ \E v, h \in Nat, r \in 1 .. Len(wire'[c]) :
               /\ h <= v /\ wire'[c][r].k = "RESUME" /\ wire'[c][r].tok = tx'[c].tok
               /\ Caught(wire'[c], tx'[c], screen'[c][p], p, v, r) /\ Flow(wire'[c], r, p, h, emitted'[p])
    BY <1>0, <1>3, <1>6, <2>2, <2>3, <2>4, <2>6, <2>7, <2>8, <2>9
  <2>11. Coming(c, p)'
    BY <1>6, <2>10 DEF Coming, NoAims, NoStale, Caught, Sent, HasPast, FE!Past, Flow
  <2> QED
    BY <2>11
<1>7. Releases(c) => ~ReadsSome(c)
  BY ReadsAny DEF Releases, Reads, GatewayKept, SwitchKept
<1> QED
  BY <1>0, <1>t, <1>5, <1>6, <1>7, WorksSwitching

LEMMA ComingGoesOn ==
    ASSUME AInv, NEW c \in Clients, NEW p \in Panes, CurrentFor(c), Coming(c, p), Works(c), ~missed'[c], ~gap'[c]
    PROVE  Coming(c, p)' \/ Done(c, p)'
<1> DEFINE t == tx[c].tok
           w == wire[c]
<1>0. /\ t # 0 /\ tx[c].pane = p /\ NoAims(requests[c], 0) /\ Hears(c, p) /\ NoStale(w, p, t)
      /\ NoAims(requests'[c], 0)
  BY WorksRequests DEF Coming
<1>1. PICK u \in Nat, h \in Nat, r \in 1 .. Len(w) :
          /\ h <= u /\ w[r].k = "RESUME" /\ w[r].tok = t
          /\ Caught(w, tx[c], screen[c][p], p, u, r) /\ Flow(w, r, p, h, emitted[p])
  BY DEF Coming
<1>t. InTurn(w, t, p, Stage(tx[c].state)) /\ tx[c].state # "STABLE"
  BY <1>0 DEF CurrentFor, TokenOK
<1>n. r \in Nat /\ r # 0 /\ r <= Len(w) /\ r \in Int /\ Len(w) \in Nat /\ emitted[p] \in Nat
  <2>1. Len(w) \in Nat
    BY Tables, LenProperties
  <2> QED
    BY <2>1, Tables
<1>2. /\ Hears(c, p)'
      /\ \/ /\ emitted'[p] = emitted[p]
            /\ \/ WireKept(c)
               \/ ReadsSome(c) /\ Popped(w, wire'[c])
               \/ \E m : Added(w, wire'[c], m) /\ ~(m.k \in {"OUTPUT", "HISTORY"} /\ m.pane = p)
         \/ /\ emitted'[p] = emitted[p] + 1
            /\ \E m : /\ Added(w, wire'[c], m) /\ m.k = "OUTPUT" /\ m.pane = p /\ m.src = p /\ m.n = emitted[p] + 1
  BY <1>0, WorksSwitched
<1>3. ASSUME tx'[c].tok = t, tx'[c].pane = p, NoStale(wire'[c], p, t),
             \E v, g \in Nat, q \in 1 .. Len(wire'[c]) :
                 /\ g <= v /\ wire'[c][q].k = "RESUME" /\ wire'[c][q].tok = t
                 /\ Caught(wire'[c], tx'[c], screen'[c][p], p, v, q) /\ Flow(wire'[c], q, p, g, emitted'[p])
      PROVE  Coming(c, p)'
  <2>1. PICK v, g \in Nat, q \in 1 .. Len(wire'[c]) :
            /\ g <= v /\ wire'[c][q].k = "RESUME" /\ wire'[c][q].tok = t
            /\ Caught(wire'[c], tx'[c], screen'[c][p], p, v, q) /\ Flow(wire'[c], q, p, g, emitted'[p])
    BY <1>3
  <2>2. Caught(wire[c], tx[c], screen[c][p], p, v, q)'
    BY <2>1 DEF Caught, Sent, HasPast, FE!Past
  <2>3. Flow(wire[c], q, p, g, emitted[p])'
    BY <2>1 DEF Flow
  <2>4. NoStale(wire[c], p, tx[c].tok)'
    BY <1>3 DEF NoStale
  <2>5. NoAims(requests[c], 0)'
    BY <1>0 DEF NoAims
  <2> QED
    BY <1>0, <1>2, <1>3, <2>1, <2>2, <2>3, <2>4, <2>5 DEF Coming
<1>4. CASE ~ReadsSome(c)
  <2>1. tx'[c] = tx[c] /\ (HasPast(screen[c][p], p, u) => HasPast(screen'[c][p], p, u))
    BY <1>4, WorksAside, ShownStays DEF MachineKept
  <2>2. CASE WireKept(c) /\ emitted'[p] = emitted[p]
    <3>1. Caught(wire'[c], tx'[c], screen'[c][p], p, u, r)
      BY <1>1, <2>1, <2>2 DEF Caught, WireKept
    <3> QED
      BY <1>0, <1>1, <1>3, <2>1, <2>2, <3>1 DEF WireKept
  <2>3. ASSUME NEW m, Added(w, wire'[c], m), ~(m.k = "HISTORY" /\ m.pane = p),
               Flow(wire'[c], r, p, h, emitted'[p])
        PROVE  Coming(c, p)'
    <3>1. Caught(wire'[c], tx'[c], screen'[c][p], p, u, r)
      BY <1>1, <1>n, <2>1, <2>3, SentKept DEF Caught
    <3>2. NoStale(wire'[c], p, t)
      BY <1>0, <2>3, StaleKept
    <3>3. r \in 1 .. Len(wire'[c]) /\ wire'[c][r] = w[r]
      BY <2>3 DEF Added
    <3> QED
      BY <1>0, <1>1, <1>3, <2>1, <2>3, <3>1, <3>2, <3>3
  <2>4. ASSUME NEW m, Added(w, wire'[c], m), ~(m.k \in {"OUTPUT", "HISTORY"} /\ m.pane = p), emitted'[p] = emitted[p]
        PROVE  Coming(c, p)'
    <3>1. Flow(wire'[c], r, p, h, emitted'[p])
      BY <1>1, <1>n, <2>4, AddedFlow
    <3> QED
      BY <2>3, <2>4, <3>1
  <2>5. ASSUME NEW m, Added(w, wire'[c], m), m.k = "OUTPUT", m.pane = p, m.src = p, m.n = emitted[p] + 1,
               emitted'[p] = emitted[p] + 1
        PROVE  Coming(c, p)'
    <3>1. Flow(wire'[c], r, p, h, emitted'[p])
      BY <1>1, <1>n, <2>5, AddedFlow
    <3> QED
      BY <2>3, <2>5, <3>1
  <2> QED
    BY <1>2, <1>4, <2>2, <2>4, <2>5
<1>5. CASE ReadsSome(c)
  <2>0. Popped(w, wire'[c]) /\ emitted'[p] = emitted[p] /\ 1 \in 1 .. Len(w)
    BY <1>5, ReadsAny, PoppedFrame DEF Reads, GatewayKept, DeviceKept
  <2>1. CASE r # 1
    <3>1. ~ReadsResume(c)
      <4> SUFFICES ASSUME ReadsResume(c) PROVE FALSE
        OBVIOUS
      <4>1. w[1].tok = t /\ w[1].k = "RESUME"
        BY <1>0, <1>5, ReadsUnder DEF ReadsResume, Works
      <4>2. 1 < r
        BY <2>1
      <4>3. RankOf(w[1].k) < RankOf(w[r].k)
        BY <1>1, <1>t, <2>0, <4>1, <4>2 DEF InTurn
      <4>4. RankOf(w[1].k) = 3 /\ RankOf(w[r].k) = 3
        BY <1>1, <4>1 DEF RankOf
      <4> QED
        BY <4>3, <4>4
    <3>2. tx'[c].tok = t /\ tx'[c].pane = p
      BY <1>0, <1>5, <3>1, ReadsUnder DEF Works
    <3>3. Caught(wire'[c], tx'[c], screen'[c][p], p, u, r - 1)
      BY <1>0, <1>1, <1>5, <1>n, <3>1, ReadsCaught DEF Works
    <3>4. NoStale(wire'[c], p, t)
      BY <1>0, <2>0, StaleKept
    <3>5. Flow(wire'[c], r - 1, p, h, emitted'[p])
      BY <1>1, <1>n, <2>0, PoppedFlow
    <3>6. r - 1 \in 1 .. Len(wire'[c]) /\ wire'[c][r - 1] = w[r]
      <4>1. r - 1 \in 1 .. Len(wire'[c]) /\ (r - 1) + 1 = r
        BY <2>0, <2>1 DEF Popped
      <4> QED
        BY <2>0, <4>1 DEF Popped
    <3> QED
      BY <1>1, <1>3, <3>2, <3>3, <3>4, <3>5, <3>6
  <2>2. CASE r = 1
    <3>0. w[1].tok = t /\ w[1].k = "RESUME"
      BY <1>1, <2>2
    <3>1. ReadsResume(c)
      BY <1>0, <1>5, <3>0, ReadsUnder DEF Works, ReadsAck, ReadsHistory
    <3>2. tx[c].state = "HISTORY_APPLIED" /\ HasPast(screen[c][p], p, u)
      <4>1. ~Sent(w, t, u, 1)
        BY DEF Sent
      <4> QED
        BY <1>1, <2>2, <4>1 DEF Caught
    <3>3. Stage(tx[c].state) = 2
      BY <3>2 DEF Stage
    <3>4. NoHistory(wire'[c], p)
      <4>1. NoHistory(wire'[c], p) \/ \E i \in 1 .. Len(w) : 1 < i /\ w[i].k = "HISTORY" /\ w[i].pane = p
        <5>1. \A i \in 1 .. Len(wire'[c]) : i + 1 \in 1 .. Len(w) /\ 1 < i + 1 /\ wire'[c][i] = w[i + 1]
          BY <2>0 DEF Popped
        <5> QED
          BY <5>1 DEF NoHistory
      <4>2. ASSUME NEW i \in 1 .. Len(w), 1 < i, w[i].k = "HISTORY", w[i].pane = p PROVE FALSE
        <5>1. CASE w[i].tok = t
          <6>1. RankOf(w[1].k) < RankOf(w[i].k)
            BY <1>t, <2>0, <3>0, <4>2, <5>1 DEF InTurn
          <6>2. RankOf(w[1].k) = 3 /\ RankOf(w[i].k) = 2
            BY <3>0, <4>2 DEF RankOf
          <6> QED
            BY <6>1, <6>2
        <5>2. CASE w[i].tok # t
          <6>1. PICK j \in 1 .. Len(w) : w[j].k = "ACK" /\ w[j].tok = t
            BY <1>0, <4>2, <5>2 DEF NoStale
          <6>2. Stage(tx[c].state) < RankOf(w[j].k)
            BY <1>t, <6>1 DEF InTurn
          <6>3. RankOf(w[j].k) = 1
            BY <6>1 DEF RankOf
          <6> QED
            BY <3>3, <6>2, <6>3
        <5> QED
          BY <5>1, <5>2
      <4> QED
        BY <4>1, <4>2
    <3>5. Flow(wire'[c], 0, p, h, emitted'[p])
      <4>1. 1 - 1 = 0
        OBVIOUS
      <4>2. Flow(wire'[c], r - 1, p, h, emitted'[p])
        BY <1>1, <1>n, <2>0, PoppedFlow
      <4> QED
        BY <2>2, <4>1, <4>2
    <3>6. Reaches(screen'[c][p], historyGates'[c][p], p, h)
      <4>1. Dispatched(c, p, held[c].buf)
        BY <1>0, <3>1 DEF ReadsResume
      <4>2. \A n \in Nat : n # 0 /\ n <= u => Covers(screen'[c][p], p, n)
        <5>1. \A n \in Nat : n # 0 /\ n <= u => Covers(screen[c][p], p, n)
          BY <3>2, PastCovers
        <5> QED
          BY <4>1, <5>1, ShownStays DEF Dispatched
      <4>3. ~(u < h)
        BY <1>1
      <4> QED
        BY <4>2, <4>3 DEF Reaches
    <3>7. tx'[c].tok = 0
      BY <3>1 DEF ReadsResume, Ended
    <3> QED
      BY <1>0, <1>2, <3>4, <3>5, <3>6, <3>7
         DEF Done, NoAims, NoHistory, Flow, Reaches, Covers, Backed, FE!Live
  <2> QED
    BY <2>1, <2>2
<1> QED
  BY <1>4, <1>5

LEMMA DoneGoesOn ==
    ASSUME AInv, NEW c \in Clients, NEW p \in Panes, Done(c, p), Works(c), ~missed'[c], ~gap'[c], emitted'[p] <= MaxBuffer
    PROVE  Done(c, p)'
<1> DEFINE w == wire[c]
           e == emitted[p]
<1>0. tx[c].tok = 0 /\ NoAims(requests'[c], 0) /\ NoAims(requests[c], 0) /\ Hears(c, p) /\ NoHistory(w, p)
  BY WorksRequests DEF Done
<1>1. PICK h \in Nat : Flow(w, 0, p, h, e) /\ Reaches(screen[c][p], historyGates[c][p], p, h)
  BY DEF Done
<1>n. Len(w) \in Nat /\ 0 <= Len(w) /\ e \in Nat /\ 0 \in Nat
  <2>1. Len(w) \in Nat
    BY Tables, LenProperties
  <2> QED
    BY <2>1, Tables
<1>2. /\ Hears(c, p)'
      /\ \/ /\ emitted'[p] = e
            /\ \/ WireKept(c)
               \/ ReadsSome(c) /\ Popped(w, wire'[c])
               \/ \E m : Added(w, wire'[c], m) /\ ~(m.k \in {"OUTPUT", "HISTORY"} /\ m.pane = p)
         \/ /\ emitted'[p] = e + 1
            /\ \E m : /\ Added(w, wire'[c], m) /\ m.k = "OUTPUT" /\ m.pane = p /\ m.src = p /\ m.n = e + 1
  BY <1>0, WorksSwitched
<1>3. ASSUME tx'[c].tok = 0, NoHistory(wire'[c], p), NEW g \in Nat, Flow(wire'[c], 0, p, g, emitted'[p]),
             Reaches(screen'[c][p], historyGates'[c][p], p, g)
      PROVE  Done(c, p)'
  <2>1. NoAims(requests[c], 0)'
    BY <1>0 DEF NoAims, Aims
  <2>2. NoHistory(wire[c], p)'
    BY <1>3 DEF NoHistory
  <2>3. Flow(wire[c], 0, p, g, emitted[p])'
    BY <1>3 DEF Flow
  <2>4. Reaches(screen[c][p], historyGates[c][p], p, g)'
    BY <1>3 DEF Reaches, Covers, Backed, FE!Live
  <2> QED
    BY <1>2, <1>3, <2>1, <2>2, <2>3, <2>4 DEF Done
<1>4. CASE ~ReadsSome(c)
  <2>1. tx'[c] = tx[c]
    BY <1>4, WorksAside DEF MachineKept
  <2>2. Reaches(screen'[c][p], historyGates'[c][p], p, h)
    BY <1>1, <1>4, WorksAside, ClosedReaches
  <2>3. CASE WireKept(c) /\ emitted'[p] = e
    BY <1>0, <1>1, <1>3, <2>1, <2>2, <2>3 DEF WireKept
  <2>4. ASSUME NEW m, Added(w, wire'[c], m), ~(m.k \in {"OUTPUT", "HISTORY"} /\ m.pane = p), emitted'[p] = e
        PROVE  Done(c, p)'
    <3>1. Flow(wire'[c], 0, p, h, emitted'[p])
      BY <1>1, <1>n, <2>4, AddedFlow
    <3>2. NoHistory(wire'[c], p)
      BY <1>0, <2>4, StaleKept
    <3> QED
      BY <1>0, <1>3, <2>1, <2>2, <3>1, <3>2
  <2>5. ASSUME NEW m, Added(w, wire'[c], m), m.k = "OUTPUT", m.pane = p, m.src = p, m.n = e + 1, emitted'[p] = e + 1
        PROVE  Done(c, p)'
    <3>1. Flow(wire'[c], 0, p, h, emitted'[p])
      BY <1>1, <1>n, <2>5, AddedFlow
    <3>2. NoHistory(wire'[c], p)
      BY <1>0, <2>5, StaleKept
    <3> QED
      BY <1>0, <1>3, <2>1, <2>2, <3>1, <3>2
  <2> QED
    BY <1>2, <1>4, <2>3, <2>4, <2>5
<1>5. CASE ReadsSome(c)
  <2> DEFINE m == w[1]
  <2>0. Popped(w, wire'[c]) /\ emitted'[p] = e /\ 1 \in 1 .. Len(w) /\ FrameOK(m)
    BY <1>5, ReadsAny, PoppedFrame DEF Reads, GatewayKept, DeviceKept
  <2>1. NoHistory(wire'[c], p) /\ ~(m.k = "HISTORY" /\ m.pane = p)
    BY <1>0, <2>0, StaleKept DEF NoHistory
  <2>2. ~ReadsAck(c) /\ ~ReadsHistory(c) /\ ~ReadsResume(c) /\ ~Holds(c) /\ ~ReadsLoss(c)
    BY <1>0 DEF ReadsAck, ReadsHistory, ReadsResume, Holds, Works, FE!TakesAck, FE!TakesHistory, FE!TakesResume, FE!Awaits
  <2>3. tx'[c].tok = 0
    BY <1>0, <1>5, <2>2 DEF ReadsSome, ReadsStatus, Refuses, ReadsFetched, Displays, BrowserKept, MachineKept
  <2>4. CASE Displays(c) /\ m.pane = p
    <3>1. m.k = "OUTPUT" /\ Dispatched(c, p, <<FrameItem(m)>>)
      BY <2>4 DEF Displays
    <3>2. m.src = p /\ m.n = h + 1 /\ h + 1 <= e /\ Flow(wire'[c], 0, p, h + 1, e)
      BY <1>1, <1>n, <2>0, <2>4, <3>1, PoppedFlow
    <3>3. FrameItem(m) = FE!Live([src |-> p, n |-> h + 1])
      BY <3>2 DEF FrameItem
    <3>4. h + 1 <= MaxBuffer
      BY <1>n, <2>0, <3>2, BoundsAssumption
    <3>5. Reaches(screen'[c][p], historyGates'[c][p], p, h + 1)
      <4> DEFINE o == FrameItem(m)
      <4>1. Dispatched(c, p, <<o>>) /\ o = FE!Live([src |-> p, n |-> h + 1])
        BY <3>1, <3>3
      <4> HIDE DEF o
      <4> QED
        BY <1>1, <3>4, <4>1, NextReaches
    <3>6. h + 1 \in Nat
      OBVIOUS
    <3> QED
      BY <1>3, <2>0, <2>1, <2>3, <3>2, <3>5, <3>6
  <2>5. CASE ~(Displays(c) /\ m.pane = p)
    <3>1. ~(m.k = "OUTPUT" /\ m.pane = p)
      BY <1>5, <2>2, <2>5 DEF ReadsSome, ReadsStatus, Refuses, ReadsFetched
    <3>2. Flow(wire'[c], 0, p, h, e)
      BY <1>1, <1>n, <2>0, <3>1, PoppedFlow
    <3>3. screen'[c][p] = screen[c][p] /\ historyGates'[c][p] = historyGates[c][p]
      <4>1. CASE ReadsStatus(c) \/ Refuses(c)
        BY <4>1 DEF ReadsStatus, Refuses, BrowserKept, SinksKept
      <4>2. CASE ReadsFetched(c)
        BY <2>1, <4>2 DEF ReadsFetched, Elsewhere
      <4>3. CASE Displays(c)
        BY <2>5, <4>3 DEF Displays, Dispatched, Elsewhere
      <4> QED
        BY <1>5, <2>2, <4>1, <4>2, <4>3 DEF ReadsSome
    <3> QED
      BY <1>1, <1>3, <2>0, <2>1, <2>3, <3>2, <3>3
  <2> QED
    BY <2>4, <2>5
<1> QED
  BY <1>4, <1>5

LEMMA KeepsWhole ==
    ASSUME AInv, Listening, NEW c \in Clients, CurrentFor(c), WholeFor(c), Effect(c), want'[c] \in Panes \cup {NoPane}
    PROVE  WholeFor(c)'
<1> SUFFICES ASSUME ~missed'[c], ~gap'[c], ~Lossy(c)', NEW p \in Panes, p = want'[c], emitted'[p] <= MaxBuffer
             PROVE  Asked(c, p)' \/ Begun(c, p)' \/ Coming(c, p)' \/ Done(c, p)'
  <2>1. SUFFICES ASSUME ~missed'[c], ~gap'[c], ~Lossy(c)', want'[c] # NoPane, emitted'[want'[c]] <= MaxBuffer
                 PROVE  \/ Asked(c, want[c])' \/ Begun(c, want[c])'
                        \/ Coming(c, want[c])' \/ Done(c, want[c])'
    BY DEF WholeFor, Trusted
  <2>2. PICK p \in Panes : p = want'[c]
    BY <2>1
  <2>3. Asked(c, p)' \/ Begun(c, p)' \/ Coming(c, p)' \/ Done(c, p)'
    BY <2>1, <2>2
  <2>4. Asked(c, p)' => Asked(c, want[c])'
    BY <2>2 DEF Asked
  <2>5. Begun(c, p)' => Begun(c, want[c])'
    BY <2>2 DEF Begun
  <2>6. Coming(c, p)' => Coming(c, want[c])'
    BY <2>2 DEF Coming, Hears
  <2>7. Done(c, p)' => Done(c, want[c])'
    BY <2>2 DEF Done, Hears
  <2> QED
    BY <2>3, <2>4, <2>5, <2>6, <2>7
<1>1. ASSUME NEW q \in Panes, Selects(c, q) PROVE Asked(c, p)'
  <2> DEFINE r == Request("SELECT", nextTok, q, {})
  <2>1. q = p /\ tx'[c].pane = p /\ tx'[c].tok = nextTok /\ nextTok # 0 /\ Added(requests[c], requests'[c], r)
    BY <1>1, Tables DEF Selects
  <2>2. Aims(r) /\ r.tok = nextTok
    BY DEF Request, Aims
  <2> HIDE DEF r
  <2>3. Len(requests[c]) \in Nat /\ Len(requests'[c]) = Len(requests[c]) + 1 /\ requests'[c][Len(requests[c]) + 1] = r
    BY <2>1 DEF Added
  <2>4. Len(requests'[c]) \in 1 .. Len(requests'[c]) /\ requests'[c][Len(requests'[c])] = r
    BY <2>3
  <2>5. NoAims(requests'[c], Len(requests'[c]))
    BY <2>3 DEF NoAims
  <2> QED
    BY <2>1, <2>2, <2>4, <2>5 DEF Asked, NoAims
<1>2. CASE \A q \in Panes : ~Selects(c, q)
  <2>1. Works(c) /\ ~gap[c]
    BY <1>2, TrustedWorks
  <2>2. ~missed[c] /\ want[c] = p /\ ~Lossy(c) /\ (emitted'[p] = emitted[p] \/ emitted'[p] = emitted[p] + 1)
    <3>1. want'[c] # NoPane
      BY NoPaneAssumption
    <3> QED
      BY <2>1, <3>1, WorksKeeps
  <2>3. emitted[p] <= MaxBuffer
    <3>1. emitted[p] \in Nat /\ MaxBuffer \in Nat
      BY Tables, BoundsAssumption
    <3> QED
      BY <2>2, <3>1
  <2>4. Asked(c, p) \/ Begun(c, p) \/ Coming(c, p) \/ Done(c, p)
    <3>1. Trusted(c) /\ want[c] = p /\ p # NoPane /\ emitted[p] <= MaxBuffer
      BY <2>1, <2>2, <2>3, NoPaneAssumption DEF Trusted
    <3> QED
      BY <3>1 DEF WholeFor
  <2>5. Asked(c, p) => Asked(c, p)' \/ Begun(c, p)'
    BY <2>1, AskedGoesOn
  <2>6. Begun(c, p) => Begun(c, p)' \/ Coming(c, p)'
    BY <2>1, <2>3, BegunGoesOn
  <2>7. Coming(c, p) => Coming(c, p)' \/ Done(c, p)'
    BY <2>1, ComingGoesOn
  <2>8. Done(c, p) => Done(c, p)'
    BY <2>1, DoneGoesOn
  <2> QED
    BY <2>4, <2>5, <2>6, <2>7, <2>8
<1> QED
  BY <1>1, <1>2

\* The terminal is whole: once a select has been answered and nothing is under
\* way, the terminal shows every output of the pane, by the history of the
\* switch, the gateway's buffer or live, in whatever order handleSwitchAck,
\* dispatchPaneHistory, handleLiveResume and handleOutput ran and whatever other
\* selects, fetches, time-outs and device losses came in between, unless
\* something that loses output (gap, missed) happened since the select.
THEOREM ScreensAreWhole == AllSpec => []ScreenIsWhole
<1>1. AllInit => WholeInv
  BY DEF AllInit, WholeInv, WholeFor
<1>2. GInv /\ WholeInv /\ [AllNext]_allVars => WholeInv'
  <2> SUFFICES ASSUME GInv, WholeInv, [AllNext]_allVars, NEW c \in Clients PROVE WholeFor(c)'
    BY DEF WholeInv
  <2>1. AInv /\ Listening /\ CurrentFor(c) /\ WholeFor(c)
    BY DEF GInv, TokenInv, WholeInv
  <2>2. Effect(c)
    BY <2>1, EveryEffect
  <2>3. want'[c] \in Panes \cup {NoPane}
    BY <2>1, NextTyped DEF Typed, AllTypeOK
  <2> QED
    BY <2>1, <2>2, <2>3, KeepsWhole
<1>3. GInv /\ WholeInv => ScreenIsWhole
  <2> SUFFICES ASSUME GInv, WholeInv, NEW c \in Clients, AtRest(c), want[c] # NoPane, ~missed[c], ~gap[c],
                      NEW p \in Panes, p = want[c], historyGates[c][p].tok = 0, emitted[p] <= MaxBuffer,
                      NEW n \in 1 .. emitted[p]
               PROVE  Shows(c, p, n)
    <3>1. ASSUME GInv PROVE want \in [Clients -> Panes \cup {NoPane}]
      BY <3>1 DEF GInv, AInv, Typed, AllTypeOK
    <3> QED
      BY <3>1 DEF ScreenIsWhole
  <2>1. Len(requests[c]) = 0 /\ Len(wire[c]) = 0 /\ connected[c] /\ tx[c].tok = 0
    BY DEF AtRest
  <2>2. Trusted(c)
    BY <2>1 DEF Trusted, Lossy, Leaves, Parts
  <2>3. Done(c, p)
    <3>1. Asked(c, p) \/ Begun(c, p) \/ Coming(c, p) \/ Done(c, p)
      BY <2>2 DEF WholeInv, WholeFor
    <3> QED
      BY <2>1, <3>1 DEF Asked, Begun, Coming
  <2>4. PICK h \in Nat : Flow(wire[c], 0, p, h, emitted[p]) /\ Reaches(screen[c][p], historyGates[c][p], p, h)
    BY <2>3 DEF Done
  <2>5. emitted[p] \in Nat
    BY Tables DEF GInv
  <2>6. h = emitted[p]
    <3>1. h <= emitted[p] /\ ~(h < emitted[p])
      <4>1. \A k \in Nat : ~(h < k /\ k <= emitted[p])
        BY <2>1, <2>4 DEF Flow
      <4>2. h <= emitted[p]
        BY <2>4 DEF Flow
      <4> QED
        BY <2>5, <4>1, <4>2
    <3> QED
      BY <2>5, <3>1
  <2>7. PICK v \in Nat : (\A k \in Nat : k # 0 /\ k <= v => Covers(screen[c][p], p, k)) /\ ~(v < h)
    BY <2>4 DEF Reaches
  <2>8. n \in Nat /\ n # 0 /\ n <= v
    BY <2>5, <2>6, <2>7
  <2>9. DOMAIN screen[c][p] = 1 .. Len(screen[c][p])
    BY DomainLen DEF GInv
  <2> QED
    BY <2>7, <2>8, <2>9 DEF Covers, Shows
<1> QED
  BY InitGInv, NextGInv, <1>1, <1>2, <1>3, PTL DEF AllSpec
-----------------------------------------------------------------------------
(* The gateway of the composed system keeps its word: what SwitchBarrier   *)
(* promises to a socket it still does when its tokens are those that       *)
(* browsers draw, that wait in their queues, and that are lost with them.  *)

\* No two of the requests rq, the switch under t and the fetches f bear one token.
Distinct(rq, t, f) ==
    /\ \A i, j \in 1 .. Len(rq) : i # j /\ rq[i].tok # 0 => rq[i].tok # rq[j].tok
    /\ \A i \in 1 .. Len(rq) : rq[i].tok # 0 => rq[i].tok # t /\ \A p \in Panes : rq[i].tok # f[p]
    /\ \A p \in Panes : f[p] # 0 => f[p] # t
DistinctFor(c) == Distinct(requests[c], pending[c].tok, fetches[c])
PromiseInv == PaneIdle /\ \A c \in Clients : DistinctFor(c)

LEMMA FewerDistinct ==
    ASSUME NEW s, NEW t, NEW f, Distinct(s, t, f), NEW u \in {0, t}, NEW g, \A p \in Panes : g[p] \in {0, f[p]}
    PROVE  Distinct(s, u, g)
BY DEF Distinct

\* A request without a token, or with one that is not in use, is added.
LEMMA AddedDistinct ==
    ASSUME NEW s, NEW r, NEW m, Added(s, r, m), NEW t, NEW f, Distinct(s, t, f),
           m.tok = 0 \/ (Free(s, m.tok) /\ m.tok # t /\ \A p \in Panes : m.tok # f[p])
    PROVE  Distinct(r, t, f)
<1>1. \A i \in 1 .. Len(r) : (i \in 1 .. Len(s) /\ r[i] = s[i]) \/ (i = Len(s) + 1 /\ r[i] = m)
  BY DEF Added
<1>2. ASSUME NEW i \in 1 .. Len(r), NEW j \in 1 .. Len(r), i # j, r[i].tok # 0 PROVE r[i].tok # r[j].tok
  BY <1>1, <1>2 DEF Distinct, Free
<1>3. ASSUME NEW i \in 1 .. Len(r), r[i].tok # 0 PROVE r[i].tok # t /\ \A p \in Panes : r[i].tok # f[p]
  BY <1>1, <1>3 DEF Distinct
<1> QED
  BY <1>2, <1>3 DEF Distinct

LEMMA FrontedDistinct ==
    ASSUME NEW s, NEW r, NEW m, Fronted(s, r, m), NEW t, NEW f, Distinct(s, t, f), m.tok = 0
    PROVE  Distinct(r, t, f)
<1>1. \A i \in 1 .. Len(r) : (i - 1 \in 1 .. Len(s) /\ r[i] = s[i - 1]) \/ r[i] = m
  <2> SUFFICES ASSUME NEW i \in 1 .. Len(r) PROVE (i - 1 \in 1 .. Len(s) /\ r[i] = s[i - 1]) \/ r[i] = m
    OBVIOUS
  <2>1. CASE i = 1
    BY <2>1 DEF Fronted
  <2>2. CASE i # 1
    <3>1. i - 1 \in 1 .. Len(s) /\ (i - 1) + 1 = i
      BY <2>2 DEF Fronted
    <3> QED
      BY <3>1 DEF Fronted
  <2> QED
    BY <2>1, <2>2
<1>2. ASSUME NEW i \in 1 .. Len(r), NEW j \in 1 .. Len(r), i # j, r[i].tok # 0 PROVE r[i].tok # r[j].tok
  <2>1. i - 1 \in 1 .. Len(s) /\ r[i] = s[i - 1] /\ i - 1 # j - 1
    BY <1>1, <1>2
  <2> QED
    BY <1>1, <1>2, <2>1 DEF Distinct
<1>3. ASSUME NEW i \in 1 .. Len(r), r[i].tok # 0 PROVE r[i].tok # t /\ \A p \in Panes : r[i].tok # f[p]
  BY <1>1, <1>3 DEF Distinct
<1> QED
  BY <1>2, <1>3 DEF Distinct

\* The first request is served: its token goes to the switch or to a fetch.
LEMMA PoppedDistinct ==
    ASSUME NEW s, NEW r, Popped(s, r), NEW t, NEW f, Distinct(s, t, f)
    PROVE  /\ Distinct(r, t, f)
           /\ Distinct(r, s[1].tok, f)
           /\ \A g : (\A p \in Panes : g[p] \in {f[p], s[1].tok}) => Distinct(r, t, g)
<1>1. /\ 1 \in 1 .. Len(s)
      /\ \A i \in 1 .. Len(r) : i + 1 \in 1 .. Len(s) /\ r[i] = s[i + 1] /\ i + 1 # 1
  BY DEF Popped
<1>2. ASSUME NEW i \in 1 .. Len(r), NEW j \in 1 .. Len(r), i # j, r[i].tok # 0 PROVE r[i].tok # r[j].tok
  <2>1. i + 1 # j + 1
    BY <1>2
  <2> QED
    BY <1>1, <1>2, <2>1 DEF Distinct
<1>3. ASSUME NEW i \in 1 .. Len(r), r[i].tok # 0
      PROVE  r[i].tok # s[1].tok /\ r[i].tok # t /\ \A p \in Panes : r[i].tok # f[p]
  BY <1>1, <1>3 DEF Distinct
<1>4. \A p \in Panes : f[p] # 0 => f[p] # s[1].tok /\ f[p] # t
  BY <1>1 DEF Distinct
<1>5. s[1].tok # 0 => s[1].tok # t
  BY <1>1 DEF Distinct
<1> QED
  BY <1>2, <1>3, <1>4, <1>5 DEF Distinct

\* A new token is in nobody's use.
LEMMA NewToken ==
    ASSUME AInv, NEW c \in Clients, DrawnFor(c)
    PROVE  Free(requests[c], nextTok) /\ nextTok # pending[c].tok /\ \A p \in Panes : nextTok # fetches[c][p]
<1>1. nextTok \in Nat /\ pending[c].tok \in Nat /\ \A p \in Panes : fetches[c][p] \in Nat
  BY SideTypes DEF AInv, Typed
<1>2. ASSUME NEW i \in 1 .. Len(requests[c]) PROVE requests[c][i].tok # nextTok
  <2>1. requests[c] \in Seq(Requests) /\ requests[c][i].tok < nextTok
    BY Tables DEF DrawnFor, Below
  <2>2. requests[c][i] \in Requests
    BY <2>1, ElementOfSeq
  <2>3. requests[c][i].tok \in Nat
    BY <2>2 DEF Requests
  <2> QED
    BY <1>1, <2>1, <2>3
<1>3. pending[c].tok < nextTok /\ \A p \in Panes : fetches[c][p] < nextTok
  BY DEF DrawnFor
<1>4. nextTok # pending[c].tok
  BY <1>1, <1>3
<1>5. \A p \in Panes : nextTok # fetches[c][p]
  BY <1>1, <1>3
<1> QED
  BY <1>2, <1>4, <1>5 DEF Free

LEMMA KeepsDistinct ==
    ASSUME AInv, NEW c \in Clients, DrawnFor(c), DistinctFor(c), Effect(c)
    PROVE  DistinctFor(c)'
<1> DEFINE Goal == Distinct(requests'[c], pending'[c].tok, fetches'[c])
<1> SUFFICES Goal
  BY DEF DistinctFor, Distinct
<1>0. Distinct(requests[c], pending[c].tok, fetches[c])
  BY DEF DistinctFor
<1>1. ASSUME pending'[c] = pending[c], fetches'[c] = fetches[c], requests'[c] = requests[c] PROVE Goal
  BY <1>0, <1>1
<1>2. ASSUME NEW m, Added(requests[c], requests'[c], m), GatewayKept(c), m.tok = 0 \/ m.tok = nextTok PROVE Goal
  <2>1. pending'[c] = pending[c] /\ fetches'[c] = fetches[c]
    BY <1>2 DEF GatewayKept, SwitchKept, FetchesKept
  <2>2. Distinct(requests'[c], pending[c].tok, fetches[c])
    BY <1>0, <1>2, NewToken, AddedDistinct
  <2> QED
    BY <2>1, <2>2
<1>3. CASE Stays(c) \/ TimesOutSome(c)
  BY <1>1, <1>3 DEF Stays, TimesOutSome, TimesOut, GateTimesOut, GatewayKept, SwitchKept, FetchesKept, QueueKept
<1>4. CASE ReadsSome(c)
  BY <1>1, <1>4, ReadsAny DEF Reads, GatewayKept, SwitchKept, FetchesKept, QueueKept
<1>5. CASE AsksSome(c)
  <2>1. CASE Asks(c)
    <3>1. PICK r \in Requests : /\ r.k \in {"CONNECT", "SUBSCRIBE"} /\ RequestOK(r)
                                /\ Added(requests[c], requests'[c], r) \/ Fronted(requests[c], requests'[c], r)
      BY <2>1 DEF Asks
    <3>2. r.tok = 0 /\ GatewayKept(c)
      BY <2>1, <3>1 DEF RequestOK, Asks
    <3>3. CASE Fronted(requests[c], requests'[c], r)
      <4>1. Distinct(requests'[c], pending[c].tok, fetches[c])
        BY <1>0, <3>2, <3>3, FrontedDistinct
      <4> QED
        BY <3>2, <4>1 DEF GatewayKept, SwitchKept, FetchesKept
    <3> QED
      BY <1>2, <3>1, <3>2, <3>3
  <2>2. CASE AsksLeave(c)
    BY <1>2, <2>2 DEF AsksLeave, Disconnect, Request
  <2>3. ASSUME NEW p \in Panes, Selects(c, p) \/ AsksFocus(c, p) \/ AsksHistory(c, p) PROVE Goal
    <3>1. GatewayKept(c)
      BY <2>3 DEF Selects, AsksFocus, AsksHistory
    <3>2. \E m : Added(requests[c], requests'[c], m) /\ m.tok \in {0, nextTok}
      BY <2>3 DEF Selects, AsksFocus, AsksHistory, Request
    <3> QED
      BY <1>2, <3>1, <3>2
  <2> QED
    BY <1>5, <2>1, <2>2, <2>3 DEF AsksSome
<1>6. CASE ServedSome(c)
  <2>1. Popped(requests[c], requests'[c])
    BY <1>6, ServedAny DEF Served
  <2>2. /\ Distinct(requests'[c], pending[c].tok, fetches[c])
        /\ Distinct(requests'[c], requests[c][1].tok, fetches[c])
        /\ \A g : (\A p \in Panes : g[p] \in {fetches[c][p], requests[c][1].tok})
                    => Distinct(requests'[c], pending[c].tok, g)
    BY <1>0, <2>1, PoppedDistinct
  <2>3. CASE ServedQuietly(c) \/ ServedFocus(c) \/ Drops(c)
    BY <2>2, <2>3 DEF ServedQuietly, ServedFocus, Drops, GatewayKept, SwitchKept, FetchesKept
  <2>4. CASE ServedLeave(c)
    BY <2>2, <2>4, FewerDistinct DEF ServedLeave, SwitchKept
  <2>5. CASE ServedSelect(c)
    BY <2>2, <2>5 DEF ServedSelect, FetchesKept
  <2>6. CASE ServedHistory(c)
    <3>1. \A p \in Panes : fetches'[c][p] \in {fetches[c][p], requests[c][1].tok}
      BY <2>6 DEF ServedHistory
    <3> QED
      BY <2>2, <2>6, <3>1 DEF ServedHistory, SwitchKept
  <2> QED
    BY <1>6, <2>3, <2>4, <2>5, <2>6 DEF ServedSome
<1>7. CASE Loses(c)
  <2>1. requests'[c] = << >> /\ \A p \in Panes : fetches'[c][p] = 0
    BY <1>7 DEF Loses
  <2> QED
    BY <2>1 DEF Distinct
<1>8. CASE ActsSome(c)
  <2>1. requests'[c] = requests[c]
    BY <1>8, ActsAny DEF Beyond, QueueKept
  <2>2. \A p \in Panes : fetches'[c][p] \in {0, fetches[c][p]}
    BY <1>8, FetchesFall
  <2>3. pending'[c].tok \in {0, pending[c].tok}
    BY <1>8 DEF ActsSome, Sends, HoldsBack, Unheard, SendsHistory, SendsFetched, Forgets, Tells, GivesUp, Releases, SwitchKept
  <2> QED
    BY <1>0, <2>1, <2>2, <2>3, FewerDistinct
<1> QED
  BY <1>3, <1>4, <1>5, <1>6, <1>7, <1>8 DEF Effect

LEMMA InitPromiseInv == AllInit => PromiseInv
<1> SUFFICES ASSUME AllInit, NEW c \in Clients PROVE (pending[c].tok = 0 <=> pending[c].pane = NoPane) /\ DistinctFor(c)
  BY DEF PromiseInv, PaneIdle
<1>1. requests[c] = << >> /\ pending[c].tok = 0 /\ pending[c].pane = NoPane /\ \A p \in Panes : fetches[c][p] = 0
  BY DEF AllInit, Init, Fresh, NoTx
<1> QED
  BY <1>1 DEF DistinctFor, Distinct

LEMMA NextPromiseInv == AInv /\ TokenInv /\ PromiseInv /\ [AllNext]_allVars => PromiseInv'
<1> SUFFICES ASSUME AInv, TokenInv, PromiseInv, [AllNext]_allVars PROVE PaneIdle' /\ \A c \in Clients : DistinctFor(c)'
  BY DEF PromiseInv
<1>1. TypeOK /\ PaneIdle /\ GatewayNext
  BY AllNextIsGatewayNext DEF AInv, Typed, AllTypeOK, PromiseInv
<1>2. ASSUME NEW c \in Clients PROVE DistinctFor(c)'
  BY EveryEffect, KeepsDistinct DEF TokenInv, PromiseInv
<1> QED
  BY <1>1, <1>2, GatewayPaneIdle

\* A select that is served bears another token than the open switch.
LEMMA AllNextIsAfreshNext ==
    ASSUME AInv, PromiseInv, [AllNext]_allVars
    PROVE  AfreshNext
<1>1. ASSUME NEW c \in Clients, ServesSelect(c) PROVE SelectsOf(c, Nat \ {0, pending[c].tok})
  <2>1. /\ requests[c][1].tok \in Nat \ {0} /\ SelectsOf(c, {requests[c][1].tok})
        /\ Popped(requests[c], Tail(requests[c]))
    BY <1>1, FirstRequest DEF ServesSelect
  <2>2. 1 \in 1 .. Len(requests[c])
    BY <2>1 DEF Popped
  <2>3. requests[c][1].tok # pending[c].tok
    BY <2>1, <2>2 DEF PromiseInv, DistinctFor, Distinct
  <2>4. requests[c][1].tok \in Nat \ {0, pending[c].tok}
    BY <2>1, <2>3
  <2> QED
    BY <2>1, <2>4 DEF SelectsOf
<1> QED
  BY <1>1, AllNextIsBesideNext DEF AfreshNext

\* End to end too, whatever browsers draw, queue, lose and send again, the
\* gateway keeps to each socket the promise of SwitchPromise: the tokens of a
\* select and of a fetch under way are never those of the open switch
\* (switch-barrier.ts; fe stores/tmux.ts: selectPane, fetchPaneHistory).
THEOREM PromiseHoldsEndToEnd == AllSpec => KeepsPromise
<1>1. AllInit => Promise!Init
  BY InitPromise DEF AllInit
<1>2. AInv /\ PromiseInv /\ [AllNext]_allVars => [Promise!Next]_Promise!vars
  <2> SUFFICES ASSUME AInv, PromiseInv, [AllNext]_allVars PROVE Promise!Next
    OBVIOUS
  <2>1. IInv /\ PaneIdle /\ FetchesApart
    BY DEF AInv, Typed, AllTypeOK, IInv, PromiseInv, DistinctFor, Distinct, FetchesApart
  <2> QED
    BY <2>1, AllNextIsAfreshNext, AfreshPromise
<1> QED
  BY <1>1, <1>2, InitAInv, NextAInv, InitTokenInv, NextTokenInv, InitPromiseInv, NextPromiseInv, PTL
     DEF AllSpec, KeepsPromise, Promise!Spec

\* End to end too the gate is never stuck, holds back all of its pane's output
\* since the switch began, and lets it out in order and under its name
\* (switch-barrier.ts, session-state.ts, ws/index.ts: broadcastTerminalOutput).
THEOREM GateHoldsEndToEnd == AllSpec => [](GateHasTimer /\ HeldBackIsComplete /\ OutputInOrder)
<1>1. GInv => GateHasTimer /\ HeldBackIsComplete /\ OutputInOrder
  <2> SUFFICES ASSUME GInv PROVE GateHasTimer /\ HeldBackIsComplete /\ OutputInOrder
    OBVIOUS
  <2>1. IInv /\ Listening /\ Ordered
    BY DEF GInv, AInv, Typed, AllTypeOK, IInv
  <2>2. HeldBackIsComplete
    BY <2>1 DEF Listening, HeldBackIsComplete
  <2> QED
    BY <2>1, <2>2, OrderedOutputs DEF IInv
<1> QED
  BY InitGInv, NextGInv, <1>1, PTL DEF AllSpec
=============================================================================

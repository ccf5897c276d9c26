------------------------- MODULE SwitchBarrierProofs -------------------------
(***************************************************************************)
(* Theorems about SwitchBarrier, for every set of sockets and of panes and *)
(* for every capacity of the gate.                                         *)
(***************************************************************************)
EXTENDS SwitchBarrier, SequenceTheorems, TLAPS

-----------------------------------------------------------------------------
(* Typing of the operators the actions are built from.                     *)

LEMMA FrameTypes ==
    /\ \A t \in Nat, p \in Panes \cup {NoPane} : Ack(t, p) \in Frame /\ Resumed(t, p) \in Frame
    /\ \A t \in Nat, k \in Capture : k.upTo >= 0 => History(t, k) \in Frame
    /\ \A p \in Panes \cup {NoPane}, o \in Chunk : Output(p, o) \in Frame
    /\ \A s \in {"CONNECTED", "DISCONNECTED", "RECONNECTING", "RECONNECTED", "LOST"} : Status(s) \in Frame
BY DEF Ack, Resumed, History, Output, Status, Frame, FrameKinds, Capture, Chunk

LEMMA PushType ==
    ASSUME NEW b \in Seq(Chunk), NEW o \in Chunk
    PROVE  PushBounded(b, o) \in Seq(Chunk)
BY BoundsAssumption DEF PushBounded

LEMMA FlushType ==
    ASSUME NEW p \in Panes \cup {NoPane}, NEW b \in Seq(Chunk)
    PROVE  [i \in 1 .. Len(b) |-> Output(p, b[i])] \in Seq(Frame)
<1>1. \A i \in 1 .. Len(b) : Output(p, b[i]) \in Frame
  BY FrameTypes, ElementOfSeq
<1> QED
  BY <1>1, LenProperties

\* Sending one more frame keeps the wires typed.
LEMMA SendType ==
    ASSUME TypeOK, NEW c \in Clients, NEW m \in Frame, Send(c, m)
    PROVE  wire' \in [Clients -> Seq(Frame)]
<1>1. Append(wire[c], m) \in Seq(Frame)
  BY AppendProperties DEF TypeOK
<1> QED
  BY <1>1 DEF TypeOK, Send

\* A capture that starts is typed.
LEMMA StartType ==
    ASSUME TypeOK, NEW c \in Clients, NEW t \in Nat, NEW p \in Panes, NEW f \in BOOLEAN,
           StartCapture(c, t, p, f)
    PROVE  captures' \in SUBSET Capture
BY DEF TypeOK, StartCapture, Capture

\* Releasing the entry keeps the captures and the panes known typed.
LEMMA KeepEntryType ==
    ASSUME TypeOK, NEW S \in SUBSET attached, KeepEntryFor(S)
    PROVE  /\ attached' = S /\ up' \in BOOLEAN /\ known' \in SUBSET Panes
           /\ captures' \in SUBSET Capture
BY DEF TypeOK, EntryType, KeepEntryFor

\* A barrier that is forgotten is typed and at rest.
LEMMA ForgetType ==
    ASSUME TypeOK, GateHasTimer, NEW c \in Clients, ForgetBarrier(c)
    PROVE  BarrierType' /\ GateHasTimer'
<1>1. BarrierType'
  BY DEF TypeOK, BarrierType, ForgetBarrier, NoTx, Transaction, States
<1>2. GateHasTimer'
  BY DEF TypeOK, BarrierType, GateHasTimer, GateOK, ForgetBarrier, NoTx
<1> QED
  BY <1>1, <1>2

\* A switch that is resumed leaves the barrier at rest and sends frames.
LEMMA ResumeType ==
    ASSUME TypeOK, GateHasTimer, NEW c \in Clients, SendLiveResume(c)
    PROVE  BarrierType' /\ GateHasTimer' /\ wire' \in [Clients -> Seq(Frame)]
<1>1. BarrierType'
  BY DEF TypeOK, BarrierType, SendLiveResume, NoTx, Transaction, States
<1>2. GateHasTimer'
  BY DEF TypeOK, BarrierType, GateHasTimer, GateOK, SendLiveResume, NoTx
<1>3. wire' \in [Clients -> Seq(Frame)]
  <2> DEFINE tx == pending[c]
             flushed == [i \in 1 .. Len(buffer[c]) |-> Output(tx.pane, buffer[c][i])]
             resumed == Append(wire[c], Resumed(tx.tok, tx.pane))
  <2>1. tx \in Transaction /\ buffer[c] \in Seq(Chunk) /\ wire[c] \in Seq(Frame)
    BY DEF TypeOK, BarrierType
  <2>2. flushed \in Seq(Frame)
    BY <2>1, FlushType DEF Transaction
  <2>3. resumed \in Seq(Frame)
    BY <2>1, FrameTypes, AppendProperties DEF Transaction
  <2>4. resumed \o flushed \in Seq(Frame)
    BY <2>2, <2>3, ConcatProperties
  <2> QED
    BY <2>4 DEF TypeOK, SendLiveResume
<1> QED
  BY <1>1, <1>2, <1>3

\* A list of one timer is replaced by the delay before LIVE_RESUME.
LEMMA ShiftThenArm ==
    ASSUME NEW ts \in Seq(Timer), Len(ts) = 1, NEW t \in Nat
    PROVE  /\ TimersAfterHistory(ts, t) \in Seq(Timer)
           /\ Len(TimersAfterHistory(ts, t)) = 1
           /\ TimersAfterHistory(ts, t)[1] = [kind |-> "live", tok |-> t]
<1> DEFINE live == [kind |-> "live", tok |-> t]
<1>1. ts # << >>
  BY EmptySeq
<1>2. Tail(ts) \in Seq(Timer) /\ Len(Tail(ts)) = 0
  BY <1>1, HeadTailProperties
<1>3. live \in Timer
  BY DEF Timer
<1> HIDE DEF live
<1>4. Append(Tail(ts), live) \in Seq(Timer) /\ Len(Append(Tail(ts), live)) = 1
      /\ Append(Tail(ts), live)[1] = live
  BY <1>2, <1>3, AppendProperties
<1> QED
  BY <1>4 DEF TimersAfterHistory, live

-----------------------------------------------------------------------------
(* The invariant: the types and the gate's timer, together.  Neither is    *)
(* inductive alone: sendTermHistory shifts a timer off a list that only    *)
(* GateHasTimer knows not to be empty.                                     *)
IInv == TypeOK /\ GateHasTimer

LEMMA InitIInv == Init => IInv
BY BoundsAssumption DEF Init, Fresh, IInv, TypeOK, EntryType, ClientType, BarrierType,
   HistoryType, GateHasTimer, GateOK, NoTx, Transaction, States

\* The steps of the gateway as they are in a larger system too, where the tokens
\* are drawn and the frames read by others: a select or a fetch bears any token,
\* a frame leaves the wire, or the gateway does nothing.
Takes(c) == /\ wire[c] # << >>
            /\ wire' = [wire EXCEPT ![c] = Tail(@)]
            /\ UNCHANGED <<open, entry, client, barrier, captures, emitted, history>>
Idles == UNCHANGED <<open, entry, client, barrier, captures, emitted, wire, history>>
ActsBeside(c) ==
    \/ SocketStep(c) \/ BarrierStep(c) \/ Takes(c)
    \/ \E p \in Panes : HandleFocusPane(c, p)
    \/ \E S \in SUBSET Panes : HandleSubscribePanes(c, S)
    \/ \E p \in Panes, t \in Nat \ {0} : HandleFetchPaneHistory(c, t, p)
SelectsOf(c, T) == \E p \in Panes, t \in T, want \in BOOLEAN : HandleTmuxSelect(c, t, p, want)
BesideNext == (\E c \in Clients : ActsBeside(c)) \/ RuntimeStep \/ LossStep \/ Idles
GatewayNext ==
    /\ nextTok' \in Nat \ {0}
    /\ BesideNext \/ \E c \in Clients : SelectsOf(c, Nat \ {0})

\* Next is made of such steps, and selects draw their tokens.
LEMMA NextIsBesideNext ==
    ASSUME TypeOK, [Next]_vars
    PROVE  /\ nextTok' \in Nat \ {0}
           /\ BesideNext \/ \E c \in Clients : SelectsOf(c, {nextTok})
<1> DEFINE Goal == /\ nextTok' \in Nat \ {0}
                   /\ BesideNext \/ \E c \in Clients : SelectsOf(c, {nextTok})
<1> SUFFICES Goal
  OBVIOUS
<1>0. nextTok \in Nat \ {0}
  BY DEF TypeOK
<1>1. ASSUME NEW c \in Clients, SocketStep(c) PROVE Goal
  BY <1>0, <1>1 DEF SocketStep, HandleOpen, HandleClose, HandleDeviceConnect, HandleDeviceDisconnect, BesideNext, ActsBeside
<1>2. ASSUME NEW c \in Clients, NEW p \in Panes, NEW want \in BOOLEAN, TmuxSelect(c, p, want)
      PROVE  Goal
  BY <1>0, <1>2 DEF TmuxSelect, Draw, SelectsOf
<1>3. ASSUME NEW c \in Clients, NEW p \in Panes, HandleFocusPane(c, p) PROVE Goal
  BY <1>0, <1>3 DEF HandleFocusPane, BesideNext, ActsBeside
<1>4. ASSUME NEW c \in Clients, NEW p \in Panes, TmuxFetch(c, p) PROVE Goal
  BY <1>0, <1>4 DEF TmuxFetch, Draw, BesideNext, ActsBeside
<1>5. ASSUME NEW c \in Clients, NEW S \in SUBSET Panes, HandleSubscribePanes(c, S) PROVE Goal
  BY <1>0, <1>5 DEF HandleSubscribePanes, BesideNext, ActsBeside
<1>6. ASSUME NEW c \in Clients, BarrierStep(c) PROVE Goal
  BY <1>0, <1>6 DEF BarrierStep, LiveTimerFires, HistoryTimerFires, BesideNext, ActsBeside
<1>7. ASSUME NEW c \in Clients, Deliver(c) PROVE Goal
  BY <1>0, <1>7 DEF Deliver, Takes, BesideNext, ActsBeside
<1>8. CASE RuntimeStep
  BY <1>0, <1>8 DEF RuntimeStep, BroadcastTerminalOutput, TakeCapture, BroadcastTerminalHistory, DropCapture,
     BroadcastStateSnapshot, BesideNext
<1>9. CASE LossStep
  BY <1>0, <1>9 DEF LossStep, HandleConnectionClose, RetryConnection, GiveUpConnection, BesideNext
<1>10. CASE UNCHANGED vars
  BY <1>0, <1>10 DEF vars, Idles, BesideNext
<1> QED
  BY <1>1, <1>2, <1>3, <1>4, <1>5, <1>6, <1>7, <1>8, <1>9, <1>10 DEF Next, SwitchStep

LEMMA NextIsGatewayNext == TypeOK /\ [Next]_vars => GatewayNext
<1> SUFFICES ASSUME TypeOK, [Next]_vars PROVE GatewayNext
  OBVIOUS
<1>1. nextTok \in Nat \ {0}
  BY DEF TypeOK
<1> QED
  BY <1>1, NextIsBesideNext DEF GatewayNext, SelectsOf

LEMMA GatewayIInv == IInv /\ GatewayNext => IInv'
<1> SUFFICES ASSUME TypeOK, GateHasTimer, GatewayNext PROVE TypeOK' /\ GateHasTimer'
  BY DEF IInv
<1>0. nextTok' \in Nat \ {0}
  BY DEF GatewayNext
<1> USE DEF entry, client, barrier, history
<1>1. ASSUME NEW c \in Clients, HandleOpen(c) PROVE TypeOK' /\ GateHasTimer'
  <2> QED
    BY <1>1 DEF HandleOpen, TypeOK, EntryType, ClientType, BarrierType, HistoryType, GateHasTimer, GateOK
<1>2. ASSUME NEW c \in Clients, HandleClose(c) PROVE TypeOK' /\ GateHasTimer'
  <2>1. BarrierType' /\ GateHasTimer'
    BY <1>2, ForgetType DEF HandleClose
  <2>2. EntryType' /\ captures' \in SUBSET Capture
    BY <1>2, KeepEntryType DEF HandleClose, TypeOK, EntryType
  <2>3. ClientType'
    BY <1>2 DEF HandleClose, TypeOK, ClientType
  <2>4. wire' \in [Clients -> Seq(Frame)]
    BY <1>2, EmptySeq DEF HandleClose, TypeOK
  <2> QED
    BY <1>2, <2>1, <2>2, <2>3, <2>4 DEF HandleClose, TypeOK, HistoryType
<1>3. ASSUME NEW c \in Clients, HandleDeviceConnect(c) PROVE TypeOK' /\ GateHasTimer'
  <2>1. wire' \in [Clients -> Seq(Frame)]
    BY <1>3, SendType, FrameTypes DEF HandleDeviceConnect
  <2> QED
    BY <1>3, <2>1 DEF HandleDeviceConnect, TypeOK, EntryType, ClientType, BarrierType, HistoryType, GateHasTimer, GateOK
<1>4. ASSUME NEW c \in Clients, HandleDeviceDisconnect(c) PROVE TypeOK' /\ GateHasTimer'
  <2>1. HistoryType'
    BY <1>4 DEF HandleDeviceDisconnect, TypeOK, HistoryType, MovedOff
  <2>2. EntryType' /\ captures' \in SUBSET Capture
    BY <1>4, KeepEntryType DEF HandleDeviceDisconnect, TypeOK, EntryType
  <2>3. ClientType'
    BY <1>4 DEF HandleDeviceDisconnect, TypeOK, ClientType
  <2>4. wire' \in [Clients -> Seq(Frame)]
    BY <1>4, SendType, FrameTypes DEF HandleDeviceDisconnect
  <2> QED
    BY <1>4, <2>1, <2>2, <2>3, <2>4 DEF HandleDeviceDisconnect, TypeOK, BarrierType, GateHasTimer, GateOK
<1>5. ASSUME NEW c \in Clients, NEW p \in Panes, NEW t \in Nat \ {0}, NEW want \in BOOLEAN,
              HandleTmuxSelect(c, t, p, want) PROVE TypeOK' /\ GateHasTimer'
  <2>1. t \in Nat \ {0} /\ nextTok' \in Nat \ {0}
    BY <1>0, <1>5
  <2>2. BarrierType'
    BY <1>5, <2>1 DEF HandleTmuxSelect, TimerAfterAck, Timer, TypeOK, BarrierType, Transaction, States
  <2>3. GateHasTimer'
    BY <1>5, <2>1 DEF HandleTmuxSelect, TimerAfterAck, TypeOK, BarrierType, GateHasTimer, GateOK
  <2>4. captures' \in SUBSET Capture
    BY <1>5, <2>1, StartType DEF HandleTmuxSelect
  <2>5. wire' \in [Clients -> Seq(Frame)]
    BY <1>5, <2>1, SendType, FrameTypes DEF HandleTmuxSelect
  <2>6. ClientType'
    BY <1>5 DEF HandleTmuxSelect, TypeOK, ClientType
  <2>7. HistoryType'
    BY <1>5 DEF HandleTmuxSelect, TypeOK, HistoryType
  <2> QED
    BY <1>5, <2>1, <2>2, <2>3, <2>4, <2>5, <2>6, <2>7 DEF HandleTmuxSelect, TypeOK, EntryType, HistoryType
<1>6. ASSUME NEW c \in Clients, NEW p \in Panes, HandleFocusPane(c, p) PROVE TypeOK' /\ GateHasTimer'
  <2> QED
    BY <1>6 DEF HandleFocusPane, TypeOK, EntryType, ClientType, BarrierType, HistoryType, GateHasTimer, GateOK, MovedOff
<1>7. ASSUME NEW c \in Clients, NEW p \in Panes, NEW t \in Nat \ {0}, HandleFetchPaneHistory(c, t, p) PROVE TypeOK' /\ GateHasTimer'
  <2>1. t \in Nat \ {0} /\ nextTok' \in Nat \ {0}
    BY <1>0, <1>7
  <2>2. captures' \in SUBSET Capture
    BY <1>7, <2>1, StartType DEF HandleFetchPaneHistory
  <2>3. ClientType'
    BY <1>7, <2>1 DEF HandleFetchPaneHistory, TypeOK, ClientType
  <2> QED
    BY <1>7, <2>1, <2>2, <2>3 DEF HandleFetchPaneHistory, TypeOK, EntryType, BarrierType, HistoryType, GateHasTimer, GateOK
<1>8. ASSUME NEW c \in Clients, NEW S \in SUBSET Panes, HandleSubscribePanes(c, S) PROVE TypeOK' /\ GateHasTimer'
  <2> QED
    BY <1>8 DEF HandleSubscribePanes, TypeOK, EntryType, ClientType, BarrierType, HistoryType, GateHasTimer, GateOK
<1>9. ASSUME NEW c \in Clients, LiveTimerFires(c) PROVE TypeOK' /\ GateHasTimer'
  <2>1. pending[c].tok # 0 /\ MayResume(c, Head(timers[c]).tok)
    BY <1>9 DEF LiveTimerFires, MayResume, GateHasTimer, GateOK, TypeOK, BarrierType
  <2>2. SendLiveResume(c)
    BY <1>9, <2>1 DEF LiveTimerFires
  <2>3. BarrierType' /\ GateHasTimer' /\ wire' \in [Clients -> Seq(Frame)]
    BY <2>2, ResumeType
  <2>4. HistoryType'
    BY <1>9 DEF LiveTimerFires, TypeOK, HistoryType
  <2> QED
    BY <1>9, <2>3, <2>4 DEF LiveTimerFires, TypeOK, EntryType, ClientType
<1>10. ASSUME NEW c \in Clients, HistoryTimerFires(c) PROVE TypeOK' /\ GateHasTimer'
  <2>1. pending[c].tok # 0 /\ MayResume(c, Head(timers[c]).tok)
    BY <1>10 DEF HistoryTimerFires, MayResume, GateHasTimer, GateOK, TypeOK, BarrierType
  <2>2. SendLiveResume(c)
    BY <1>10, <2>1 DEF HistoryTimerFires
  <2>3. BarrierType' /\ GateHasTimer' /\ wire' \in [Clients -> Seq(Frame)]
    BY <2>2, ResumeType
  <2>4. HistoryType'
    BY <1>10 DEF HistoryTimerFires, TypeOK, HistoryType
  <2> QED
    BY <1>10, <2>3, <2>4 DEF HistoryTimerFires, TypeOK, EntryType, ClientType
<1>11. ASSUME NEW c \in Clients, Takes(c) PROVE TypeOK' /\ GateHasTimer'
  <2>1. wire' \in [Clients -> Seq(Frame)]
    BY <1>11, HeadTailProperties DEF Takes, TypeOK
  <2> QED
    BY <1>0, <1>11, <2>1 DEF Takes, TypeOK, EntryType, ClientType, BarrierType, HistoryType, GateHasTimer, GateOK
<1>12. ASSUME NEW p \in Panes, BroadcastTerminalOutput(p) PROVE TypeOK' /\ GateHasTimer'
  <2>1. [src |-> p, n |-> emitted[p] + 1] \in Chunk /\ emitted' \in [Panes -> Nat]
    BY <1>12 DEF BroadcastTerminalOutput, TypeOK, Chunk
  <2>2. BarrierType'
    BY <1>12, <2>1, PushType DEF BroadcastTerminalOutput, TypeOK, BarrierType
  <2>3. GateHasTimer'
    BY <1>12 DEF BroadcastTerminalOutput, TypeOK, BarrierType, GateHasTimer, GateOK, HeldBack
  <2>4. wire' \in [Clients -> Seq(Frame)]
    BY <1>12, <2>1, FrameTypes, AppendProperties DEF BroadcastTerminalOutput, TypeOK
  <2> QED
    BY <1>12, <2>1, <2>2, <2>3, <2>4 DEF BroadcastTerminalOutput, TypeOK, EntryType, ClientType, HistoryType
<1>13. ASSUME NEW k \in captures, TakeCapture(k) PROVE TypeOK' /\ GateHasTimer'
  <2>1. k \in Capture /\ emitted[k.pane] \in Int
    BY <1>13 DEF TakeCapture, TypeOK, Capture
  <2>2. [k EXCEPT !.upTo = emitted[k.pane]] \in Capture
    BY <1>13, <2>1 DEF TakeCapture, Capture
  <2>3. captures' \in SUBSET Capture
    BY <1>13, <2>2 DEF TakeCapture, TypeOK
  <2> QED
    BY <1>13, <2>1, <2>2, <2>3 DEF TakeCapture, TypeOK, EntryType, ClientType, BarrierType, HistoryType, GateHasTimer, GateOK
<1>14. ASSUME NEW k \in captures, BroadcastTerminalHistory(k) PROVE TypeOK' /\ GateHasTimer'
  <2>1. k \in Capture /\ captures' \in SUBSET Capture
    BY <1>14 DEF BroadcastTerminalHistory, TypeOK
  <2>2. ClientType'
    BY <1>14, <2>1 DEF BroadcastTerminalHistory, TypeOK, ClientType, Capture
  <2>3. \A c \in Clients : TakesHistory(c, k.pane) =>
          /\ pending[c].tok \in Nat \ {0} /\ sst[c] = "ACKED"
          /\ timers[c] \in Seq(Timer) /\ Len(timers[c]) = 1
    BY <1>14 DEF BroadcastTerminalHistory, TakesHistory, Transaction, TypeOK, BarrierType, GateHasTimer, GateOK
  <2>4. \A c \in Clients : TakesHistory(c, k.pane) =>
          /\ TimersAfterHistory(timers[c], pending[c].tok) \in Seq(Timer)
          /\ Len(TimersAfterHistory(timers[c], pending[c].tok)) = 1
          /\ TimersAfterHistory(timers[c], pending[c].tok)[1]
               = [kind |-> "live", tok |-> pending[c].tok]
    BY <1>14, <2>3, ShiftThenArm DEF BroadcastTerminalHistory
  <2>5. BarrierType'
    BY <1>14, <2>4 DEF BroadcastTerminalHistory, TypeOK, BarrierType, States
  <2>6. GateHasTimer'
    <3> SUFFICES ASSUME NEW c \in Clients PROVE GateOK(c)'
      BY DEF GateHasTimer, GateOK
    <3> DEFINE takes == c \in attached /\ selected[c] = k.pane /\ TakesHistory(c, k.pane)
    <3>1. CASE takes
      <4>1. pending[c].tok # 0 /\ sst[c] = "ACKED" /\ sst'[c] = "HISTORY_APPLIED"
        BY <1>14, <3>1, <2>3 DEF BroadcastTerminalHistory, TypeOK, BarrierType
      <4>2. timers'[c] = TimersAfterHistory(timers[c], pending[c].tok)
        BY <1>14, <3>1 DEF BroadcastTerminalHistory
      <4>3. Len(timers'[c]) = 1 /\ timers'[c][1] = [kind |-> "live", tok |-> pending[c].tok]
        BY <3>1, <4>2, <2>4, Zenon
      <4>4. timers'[c][1].tok = pending[c].tok /\ timers'[c][1].kind = "live"
        BY <4>3
      <4> QED
        BY <1>14, <4>1, <4>3, <4>4 DEF BroadcastTerminalHistory, GateHasTimer, GateOK
    <3>2. CASE ~takes
      <4>1. timers'[c] = timers[c] /\ sst'[c] = sst[c]
        BY <1>14, <3>2 DEF BroadcastTerminalHistory
      <4> QED
        BY <1>14, <4>1 DEF BroadcastTerminalHistory, GateHasTimer, GateOK
    <3> QED
      BY <3>1, <3>2
  <2>7. wire' \in [Clients -> Seq(Frame)]
    BY <1>14, <2>1, FrameTypes, AppendProperties DEF BroadcastTerminalHistory, TypeOK, ClientType, BarrierType, Transaction, Capture
  <2> QED
    BY <1>14, <2>1, <2>2, <2>3, <2>4, <2>5, <2>6, <2>7 DEF BroadcastTerminalHistory, TypeOK, EntryType, HistoryType
<1>15. ASSUME NEW k \in captures, DropCapture(k) PROVE TypeOK' /\ GateHasTimer'
  <2>1. k \in Capture /\ captures' \in SUBSET Capture
    BY <1>15 DEF DropCapture, TypeOK
  <2>2. ClientType'
    <3>1. k.client \in Clients /\ k.pane \in Panes
      BY <2>1 DEF Capture
    <3>2. [fetches EXCEPT ![k.client][k.pane] = 0] \in [Clients -> [Panes -> Nat]]
      BY <3>1 DEF TypeOK, ClientType
    <3> QED
      BY <1>15, <3>2 DEF DropCapture, TypeOK, ClientType
  <2> QED
    BY <1>15, <2>1, <2>2 DEF DropCapture, TypeOK, EntryType, BarrierType, HistoryType, GateHasTimer, GateOK
<1>16. ASSUME BroadcastStateSnapshot PROVE TypeOK' /\ GateHasTimer'
  <2> QED
    BY <1>16 DEF BroadcastStateSnapshot, TypeOK, EntryType, ClientType, BarrierType, HistoryType, GateHasTimer, GateOK
<1>17. ASSUME HandleConnectionClose PROVE TypeOK' /\ GateHasTimer'
  <2>1. HistoryType'
    BY <1>17 DEF HandleConnectionClose, TypeOK, HistoryType
  <2>2. wire' \in [Clients -> Seq(Frame)]
    BY <1>17, FrameTypes, AppendProperties DEF HandleConnectionClose, TypeOK, EntryType
  <2> QED
    BY <1>17, <2>1, <2>2 DEF HandleConnectionClose, TypeOK, EntryType, ClientType, BarrierType, GateHasTimer, GateOK
<1>18. ASSUME RetryConnection PROVE TypeOK' /\ GateHasTimer'
  <2>1. wire' \in [Clients -> Seq(Frame)]
    BY <1>18, FrameTypes, AppendProperties DEF RetryConnection, TypeOK, EntryType
  <2> QED
    BY <1>18, <2>1 DEF RetryConnection, TypeOK, EntryType, ClientType, BarrierType, HistoryType, GateHasTimer, GateOK
<1>19. ASSUME GiveUpConnection PROVE TypeOK' /\ GateHasTimer'
  <2>1. EntryType' /\ captures' \in SUBSET Capture
    BY <1>19, KeepEntryType DEF GiveUpConnection, TypeOK, EntryType
  <2>2. ClientType' /\ HistoryType'
    BY <1>19 DEF GiveUpConnection, TypeOK, ClientType, HistoryType, MovedOff
  <2>3. wire' \in [Clients -> Seq(Frame)]
    BY <1>19, FrameTypes, AppendProperties DEF GiveUpConnection, TypeOK, EntryType
  <2> QED
    BY <1>19, <2>1, <2>2, <2>3 DEF GiveUpConnection, TypeOK, BarrierType, GateHasTimer, GateOK
<1>20. CASE Idles
  BY <1>0, <1>20 DEF Idles, TypeOK, EntryType, ClientType, BarrierType, HistoryType, GateHasTimer, GateOK
<1> QED
  BY <1>1, <1>2, <1>3, <1>4, <1>5, <1>6, <1>7, <1>8, <1>9, <1>10, <1>11, <1>12, <1>13, <1>14, <1>15, <1>16, <1>17, <1>18, <1>19, <1>20
     DEF GatewayNext, BesideNext, ActsBeside, SelectsOf, SocketStep, BarrierStep, RuntimeStep, LossStep

LEMMA NextIInv == IInv /\ [Next]_vars => IInv'
BY NextIsGatewayNext, GatewayIInv DEF IInv

\* Every variable keeps its type.
THEOREM TypeCorrect == Spec => []TypeOK
<1>1. IInv => TypeOK
  BY DEF IInv
<1> QED
  BY InitIInv, NextIInv, <1>1, PTL DEF Spec

\* The output gate never sticks (startTransaction, sendSwitchAck,
\* sendTermHistory, sendLiveResume, handleTimeout, cancelTransaction): as long
\* as it holds output back, the timer that will open it is armed.
THEOREM GateNeverSticks == Spec => []GateHasTimer
<1>1. IInv => GateHasTimer
  BY DEF IInv
<1> QED
  BY InitIInv, NextIInv, <1>1, PTL DEF Spec
-----------------------------------------------------------------------------
(* What the gate holds back.  That it is complete is inductive once it is  *)
(* known who is listening: a socket whose base is set is attached to a     *)
(* live runtime and focused on the pane of its switch, so that every       *)
(* output of the pane reaches its buffer.                                  *)
Listening ==
    \A c \in Clients : (pending[c].tok # 0 /\ base[c] # -1) =>
        /\ up /\ c \in attached
        /\ pending[c].pane \in Panes /\ selected[c] = pending[c].pane
        /\ base[c] \in Nat /\ base[c] <= emitted[pending[c].pane]
        /\ HoldsLatest(buffer[c], pending[c].pane, base[c], emitted[pending[c].pane])

\* One more output keeps the buffer complete, full or not.
LEMMA PushHoldsLatest ==
    ASSUME NEW b \in Seq(Chunk), NEW p \in Panes, NEW lo \in Nat, NEW hi \in Nat, lo <= hi,
           HoldsLatest(b, p, lo, hi)
    PROVE  HoldsLatest(PushBounded(b, [src |-> p, n |-> hi + 1]), p, lo, hi + 1)
<1> DEFINE o == [src |-> p, n |-> hi + 1]
<1>1. o \in Chunk /\ MaxBuffer \in Nat \ {0} /\ Len(b) \in Nat
  BY BoundsAssumption, LenProperties DEF Chunk
<1>2. CASE Len(b) >= MaxBuffer
  <2>1. Len(b) = MaxBuffer /\ hi - lo >= MaxBuffer
    BY <1>1, <1>2 DEF HoldsLatest
  <2>2. b # << >>
    BY <1>1, <2>1, EmptySeq
  <2>3. /\ Tail(b) \in Seq(Chunk) /\ Len(Tail(b)) = MaxBuffer - 1
        /\ \A i \in 1 .. MaxBuffer - 1 : Tail(b)[i] = b[i + 1]
    BY <2>1, <2>2, HeadTailProperties
  <2>4. \A i \in 1 .. MaxBuffer - 1 : Tail(b)[i] = [src |-> p, n |-> hi + 1 - MaxBuffer + i]
    <3> SUFFICES ASSUME NEW i \in 1 .. MaxBuffer - 1
                 PROVE  Tail(b)[i] = [src |-> p, n |-> hi + 1 - MaxBuffer + i]
      OBVIOUS
    <3>1. i + 1 \in 1 .. Len(b) /\ hi - Len(b) + (i + 1) = hi + 1 - MaxBuffer + i
      BY <1>1, <2>1
    <3>2. b[i + 1] = [src |-> p, n |-> hi - Len(b) + (i + 1)]
      BY <3>1 DEF HoldsLatest
    <3> QED
      BY <2>3, <3>1, <3>2
  <2> DEFINE s == Append(Tail(b), o)
  <2> HIDE DEF o
  <2>5. /\ Len(s) = MaxBuffer /\ s[MaxBuffer] = o
        /\ \A i \in 1 .. MaxBuffer - 1 : s[i] = Tail(b)[i]
    BY <1>1, <2>3, AppendProperties
  <2>6. HoldsLatest(s, p, lo, hi + 1)
    <3> HIDE DEF s
    <3>1. Len(s) = IF hi + 1 - lo < MaxBuffer THEN hi + 1 - lo ELSE MaxBuffer
      BY <1>1, <2>1, <2>5
    <3>2. ASSUME NEW i \in 1 .. Len(s) PROVE s[i] = [src |-> p, n |-> hi + 1 - Len(s) + i]
      <4>1. CASE i = MaxBuffer
        <5>1. s[i] = o /\ hi + 1 - Len(s) + i = hi + 1
          BY <1>1, <2>5, <4>1
        <5> QED
          BY <5>1 DEF o
      <4>2. CASE i # MaxBuffer
        <5>1. i \in 1 .. MaxBuffer - 1
          BY <1>1, <2>5, <4>2
        <5> QED
          BY <2>4, <2>5, <5>1
      <4> QED
        BY <4>1, <4>2
    <3> QED
      BY <1>1, <2>1, <2>5, <3>1, <3>2 DEF HoldsLatest
  <2> QED
    BY <1>2, <2>6 DEF PushBounded, o
<1>3. CASE Len(b) < MaxBuffer
  <2>1. Len(b) = hi - lo
    BY <1>1, <1>3 DEF HoldsLatest
  <2> DEFINE s == Append(b, o)
  <2>2. \A i \in 1 .. Len(b) : b[i] = [src |-> p, n |-> hi + 1 - (Len(b) + 1) + i]
    BY <1>1 DEF HoldsLatest
  <2> HIDE DEF o
  <2>3. /\ Len(s) = Len(b) + 1 /\ s[Len(b) + 1] = o
        /\ \A i \in 1 .. Len(b) : s[i] = b[i]
    BY <1>1, AppendProperties
  <2>4. HoldsLatest(s, p, lo, hi + 1)
    BY <1>1, <1>3, <2>1, <2>2, <2>3 DEF HoldsLatest, o
  <2> QED
    BY <1>1, <1>3, <2>4 DEF PushBounded, o
<1> QED
  BY <1>1, <1>2, <1>3

LEMMA EmptyHoldsLatest ==
    ASSUME NEW p, NEW lo \in Nat
    PROVE  HoldsLatest(<< >>, p, lo, lo)
BY BoundsAssumption DEF HoldsLatest

LEMMA InitListening == Init => Listening
BY DEF Init, Fresh, Listening, NoTx

\* A step that produces no output and starts no switch: whoever still counts as
\* listening has kept all that makes it so.
LEMMA KeepsListening ==
    ASSUME Listening, emitted' = emitted,
           \A d \in Clients : (pending'[d].tok # 0 /\ base'[d] # -1) =>
               /\ pending'[d] = pending[d] /\ base'[d] = base[d] /\ buffer'[d] = buffer[d]
               /\ selected'[d] = selected[d]
               /\ up' = up /\ (d \in attached => d \in attached')
    PROVE  Listening'
<1> SUFFICES ASSUME NEW d \in Clients, pending'[d].tok # 0, base'[d] # -1
             PROVE  /\ up' /\ d \in attached'
                    /\ pending'[d].pane \in Panes /\ selected'[d] = pending'[d].pane
                    /\ base'[d] \in Nat /\ base'[d] <= emitted'[pending'[d].pane]
                    /\ HoldsLatest(buffer'[d], pending'[d].pane, base'[d], emitted'[pending'[d].pane])
  BY DEF Listening
<1>1. /\ pending'[d] = pending[d] /\ base'[d] = base[d] /\ buffer'[d] = buffer[d]
      /\ selected'[d] = selected[d] /\ up' = up /\ (d \in attached => d \in attached')
  OBVIOUS
<1>2. /\ up /\ d \in attached
      /\ pending[d].pane \in Panes /\ selected[d] = pending[d].pane
      /\ base[d] \in Nat /\ base[d] <= emitted[pending[d].pane]
      /\ HoldsLatest(buffer[d], pending[d].pane, base[d], emitted[pending[d].pane])
  BY <1>1 DEF Listening
<1> QED
  BY <1>1, <1>2

LEMMA GatewayListening == IInv /\ Listening /\ GatewayNext => Listening'
<1> SUFFICES ASSUME TypeOK, GateHasTimer, Listening, GatewayNext PROVE Listening'
  BY DEF IInv
<1> USE DEF entry, client, barrier, history
<1>1. ASSUME NEW c \in Clients, HandleOpen(c) PROVE Listening'
  BY <1>1, KeepsListening DEF HandleOpen
<1>2. ASSUME NEW c \in Clients, HandleClose(c) PROVE Listening'
  <2>1. ASSUME NEW d \in Clients, base'[d] # -1
        PROVE  base'[d] = base[d] /\ d # c
    BY <1>2, <2>1 DEF HandleClose, TypeOK, HistoryType
  <2>2. ASSUME NEW d \in Clients, d # c
        PROVE  pending'[d] = pending[d] /\ buffer'[d] = buffer[d] /\ selected'[d] = selected[d]
    BY <1>2, <2>2 DEF HandleClose, ForgetBarrier, TypeOK, ClientType, BarrierType
  <2>3. ASSUME NEW d \in Clients, d # c, pending[d].tok # 0, base[d] # -1
        PROVE  up' = up /\ d \in attached'
    BY <1>2, <2>3 DEF HandleClose, KeepEntryFor, Listening
  <2> QED
    BY <1>2, <2>1, <2>2, <2>3, KeepsListening DEF HandleClose
<1>3. ASSUME NEW c \in Clients, HandleDeviceConnect(c) PROVE Listening'
  BY <1>3, KeepsListening DEF HandleDeviceConnect
<1>4. ASSUME NEW c \in Clients, HandleDeviceDisconnect(c) PROVE Listening'
  <2>1. ASSUME NEW d \in Clients, base'[d] # -1
        PROVE  base'[d] = base[d] /\ selected'[d] = selected[d] /\ d # c
    BY <1>4, <2>1 DEF HandleDeviceDisconnect, TypeOK, ClientType, HistoryType
  <2>2. ASSUME NEW d \in Clients, d # c, pending[d].tok # 0, base[d] # -1
        PROVE  up' = up /\ d \in attached'
    BY <1>4, <2>2 DEF HandleDeviceDisconnect, KeepEntryFor, Listening
  <2> QED
    BY <1>4, <2>1, <2>2, KeepsListening DEF HandleDeviceDisconnect
<1>5. ASSUME NEW c \in Clients, NEW p \in Panes, NEW t \in Nat \ {0}, NEW want \in BOOLEAN,
              HandleTmuxSelect(c, t, p, want) PROVE Listening'
  <2>1. emitted[p] \in Nat
    BY DEF TypeOK
  <2>2. HoldsLatest(<< >>, p, emitted[p], emitted[p])
    BY <2>1, EmptyHoldsLatest
  <2> SUFFICES ASSUME NEW d \in Clients, pending'[d].tok # 0, base'[d] # -1
               PROVE  /\ up' /\ d \in attached'
                      /\ pending'[d].pane \in Panes /\ selected'[d] = pending'[d].pane
                      /\ base'[d] \in Nat /\ base'[d] <= emitted'[pending'[d].pane]
                      /\ HoldsLatest(buffer'[d], pending'[d].pane, base'[d], emitted'[pending'[d].pane])
    BY DEF Listening
  <2>3. emitted' = emitted /\ up' = up /\ attached' = attached
    BY <1>5 DEF HandleTmuxSelect
  <2>4. CASE d = c
    <3>1. /\ pending'[c].pane = p /\ selected'[c] = p /\ buffer'[c] = << >>
          /\ base'[c] = IF up /\ c \in attached THEN emitted[p] ELSE -1
      BY <1>5 DEF HandleTmuxSelect, TypeOK, ClientType, BarrierType, HistoryType
    <3> QED
      BY <2>1, <2>2, <2>3, <2>4, <3>1
  <2>5. CASE d # c
    <3>1. /\ pending'[d] = pending[d] /\ selected'[d] = selected[d]
          /\ buffer'[d] = buffer[d] /\ base'[d] = base[d]
      BY <1>5, <2>5 DEF HandleTmuxSelect, TypeOK, ClientType, BarrierType, HistoryType
    <3> QED
      BY <2>3, <3>1 DEF Listening
  <2> QED
    BY <2>4, <2>5
<1>6. ASSUME NEW c \in Clients, NEW p \in Panes, HandleFocusPane(c, p) PROVE Listening'
  BY <1>6, KeepsListening DEF HandleFocusPane, MovedOff, Listening, TypeOK, ClientType, HistoryType
<1>7. ASSUME NEW c \in Clients, NEW p \in Panes, NEW t \in Nat \ {0}, HandleFetchPaneHistory(c, t, p) PROVE Listening'
  BY <1>7, KeepsListening DEF HandleFetchPaneHistory
<1>8. ASSUME NEW c \in Clients, NEW S \in SUBSET Panes, HandleSubscribePanes(c, S) PROVE Listening'
  BY <1>8, KeepsListening DEF HandleSubscribePanes
<1>9. ASSUME NEW c \in Clients, LiveTimerFires(c) PROVE Listening'
  <2>1. ASSUME NEW d \in Clients, base'[d] # -1
        PROVE  d # c /\ base'[d] = base[d]
    BY <1>9, <2>1 DEF LiveTimerFires, TypeOK, HistoryType
  <2>2. ASSUME NEW d \in Clients, d # c
        PROVE  pending'[d] = pending[d] /\ buffer'[d] = buffer[d]
    BY <1>9, <2>2 DEF LiveTimerFires, SendLiveResume, TypeOK, BarrierType
  <2> QED
    BY <1>9, <2>1, <2>2, KeepsListening DEF LiveTimerFires
<1>10. ASSUME NEW c \in Clients, HistoryTimerFires(c) PROVE Listening'
  <2>1. ASSUME NEW d \in Clients, base'[d] # -1
        PROVE  d # c /\ base'[d] = base[d]
    BY <1>10, <2>1 DEF HistoryTimerFires, TypeOK, HistoryType
  <2>2. ASSUME NEW d \in Clients, d # c
        PROVE  pending'[d] = pending[d] /\ buffer'[d] = buffer[d]
    BY <1>10, <2>2 DEF HistoryTimerFires, SendLiveResume, TypeOK, BarrierType
  <2> QED
    BY <1>10, <2>1, <2>2, KeepsListening DEF HistoryTimerFires
<1>11. ASSUME NEW c \in Clients, Takes(c) PROVE Listening'
  BY <1>11, KeepsListening DEF Takes
<1>12. ASSUME NEW p \in Panes, BroadcastTerminalOutput(p) PROVE Listening'
  <2> SUFFICES ASSUME NEW c \in Clients, pending[c].tok # 0, base[c] # -1
               PROVE  /\ base[c] <= emitted'[pending[c].pane]
                      /\ HoldsLatest(buffer'[c], pending[c].pane, base[c], emitted'[pending[c].pane])
    BY <1>12 DEF BroadcastTerminalOutput, Listening
  <2> DEFINE q == pending[c].pane
             o == [src |-> p, n |-> emitted[p] + 1]
  <2>1. /\ up /\ c \in attached /\ q \in Panes /\ selected[c] = q
        /\ base[c] \in Nat /\ base[c] <= emitted[q]
        /\ HoldsLatest(buffer[c], q, base[c], emitted[q])
    BY DEF Listening
  <2>2. gate[c] = "BUFFERING"
    BY DEF GateHasTimer, GateOK
  <2>3. CASE q = p
    <3>1. buffer'[c] = PushBounded(buffer[c], o) /\ emitted'[q] = emitted[q] + 1
      BY <1>12, <2>1, <2>2, <2>3 DEF BroadcastTerminalOutput, Follows, HeldBack, TypeOK
    <3>2. buffer[c] \in Seq(Chunk) /\ emitted[q] \in Nat
      BY <2>1 DEF TypeOK, BarrierType
    <3>3. HoldsLatest(PushBounded(buffer[c], o), q, base[c], emitted[q] + 1)
      BY <2>1, <2>3, <3>2, PushHoldsLatest
    <3> QED
      BY <2>1, <3>1, <3>2, <3>3
  <2>4. CASE q # p
    BY <1>12, <2>1, <2>4 DEF BroadcastTerminalOutput, HeldBack, TypeOK
  <2> QED
    BY <2>3, <2>4
<1>13. ASSUME NEW k \in captures, TakeCapture(k) PROVE Listening'
  BY <1>13, KeepsListening DEF TakeCapture
<1>14. ASSUME NEW k \in captures, BroadcastTerminalHistory(k) PROVE Listening'
  BY <1>14, KeepsListening DEF BroadcastTerminalHistory
<1>15. ASSUME NEW k \in captures, DropCapture(k) PROVE Listening'
  BY <1>15, KeepsListening DEF DropCapture
<1>16. ASSUME BroadcastStateSnapshot PROVE Listening'
  BY <1>16, KeepsListening DEF BroadcastStateSnapshot
<1>17. ASSUME HandleConnectionClose PROVE Listening'
  BY <1>17, KeepsListening DEF HandleConnectionClose
<1>18. ASSUME RetryConnection PROVE Listening'
  <2>1. ~up
    BY <1>18 DEF RetryConnection
  <2>2. \A d \in Clients : ~(pending'[d].tok # 0 /\ base'[d] # -1)
    BY <1>18, <2>1 DEF RetryConnection, Listening
  <2> QED
    BY <2>2 DEF Listening
<1>19. ASSUME GiveUpConnection PROVE Listening'
  BY <1>19, KeepsListening DEF GiveUpConnection
<1>20. CASE Idles
  BY <1>20 DEF Idles, Listening
<1> QED
  BY <1>1, <1>2, <1>3, <1>4, <1>5, <1>6, <1>7, <1>8, <1>9, <1>10, <1>11, <1>12, <1>13, <1>14, <1>15, <1>16, <1>17, <1>18, <1>19, <1>20
     DEF GatewayNext, BesideNext, ActsBeside, SelectsOf, SocketStep, BarrierStep, RuntimeStep, LossStep

LEMMA NextListening == IInv /\ Listening /\ [Next]_vars => Listening'
BY NextIsGatewayNext, GatewayListening DEF IInv

\* The buffer of the output gate (startOutputBuffering, bufferOutput) loses
\* nothing but what exceeds its capacity, oldest first, however the switch is
\* interleaved with captures, subscriptions, fetches and other sockets.
THEOREM HeldBackComplete == Spec => []HeldBackIsComplete
<1>1. Listening => HeldBackIsComplete
  BY DEF Listening, HeldBackIsComplete
<1> QED
  BY InitIInv, NextIInv, InitListening, NextListening, <1>1, PTL DEF Spec
-----------------------------------------------------------------------------
(* The order of the outputs.  On the wire and in the gate it is inductive  *)
(* once it is known that nothing there is newer than what the pane has     *)
(* produced, that the gate holds outputs of the pane of its switch only,   *)
(* all newer than those on the wire, and that the focus is on that pane.   *)

IsOutput(w, i) == w[i].k = "OUTPUT"

\* The frames w, of panes that have produced e, are in order and of their panes.
WireInOrder(w, e) ==
    /\ \A i \in 1 .. Len(w) : IsOutput(w, i) => /\ w[i].src = w[i].pane /\ w[i].src \in Panes
                                                /\ w[i].n <= e[w[i].src]
    /\ \A i, j \in 1 .. Len(w) :
          i < j /\ IsOutput(w, i) /\ IsOutput(w, j) /\ w[i].src = w[j].src => w[i].n < w[j].n

\* So are the outputs of p that the gate holds in b, which come after them.
GateInOrder(b, p, w, e) ==
    /\ \A i \in 1 .. Len(b) : b[i].src = p /\ b[i].n <= e[p]
    /\ \A i, j \in 1 .. Len(b) : i < j => b[i].n < b[j].n
    /\ \A i \in 1 .. Len(w), j \in 1 .. Len(b) : IsOutput(w, i) /\ w[i].src = p => w[i].n < b[j].n

InOrder(w, b, p, e) == WireInOrder(w, e) /\ GateInOrder(b, p, w, e)

Ordered ==
    \A c \in Clients : ~mixed[c] =>
        /\ pending[c].tok # 0 => pending[c].pane \in Panes /\ selected[c] = pending[c].pane
        /\ InOrder(wire[c], buffer[c], pending[c].pane, emitted)

Emits(e, q) == [e EXCEPT ![q] = @ + 1]

\* A frame that is no output is sent.
LEMMA SendInOrder ==
    ASSUME NEW w \in Seq(Frame), NEW b \in Seq(Chunk), NEW p, NEW e \in [Panes -> Nat],
           InOrder(w, b, p, e), NEW m \in Frame, m.k # "OUTPUT"
    PROVE  InOrder(Append(w, m), b, p, e)
<1> DEFINE s == Append(w, m)
<1>1. Len(w) \in Nat /\ Len(s) = Len(w) + 1 /\ s[Len(w) + 1] = m /\ \A i \in 1 .. Len(w) : s[i] = w[i]
  BY AppendProperties, LenProperties
<1> HIDE DEF s
<1>2. \A i \in 1 .. Len(s) : IsOutput(s, i) => i \in 1 .. Len(w) /\ s[i] = w[i] /\ IsOutput(w, i)
  BY <1>1 DEF IsOutput
<1>3. InOrder(s, b, p, e)
  BY <1>2 DEF InOrder, WireInOrder, GateInOrder
<1> QED
  BY <1>3 DEF s

\* The gate is emptied.
LEMMA EmptyInOrder ==
    ASSUME NEW w, NEW e, WireInOrder(w, e), NEW p
    PROVE  InOrder(w, << >>, p, e)
BY DEF InOrder, GateInOrder

\* What a frame and a held output are made of.
LEMMA NumbersAreNat ==
    ASSUME NEW w \in Seq(Frame), NEW b \in Seq(Chunk)
    PROVE  /\ \A i \in 1 .. Len(w) : w[i] \in Frame /\ w[i].n \in Nat
           /\ \A i \in 1 .. Len(b) : b[i] \in Chunk /\ b[i].n \in Nat
<1>1. \A i \in 1 .. Len(w) : w[i] \in Frame
  BY ElementOfSeq
<1>2. \A i \in 1 .. Len(b) : b[i] \in Chunk
  BY ElementOfSeq
<1> QED
  BY <1>1, <1>2 DEF Frame, Chunk

\* A pane goes on: nothing on its way is newer.
LEMMA EmitsInOrder ==
    ASSUME NEW w \in Seq(Frame), NEW b \in Seq(Chunk), NEW p, b = << >> \/ p \in Panes,
           NEW e \in [Panes -> Nat], InOrder(w, b, p, e), NEW q \in Panes
    PROVE  InOrder(w, b, p, Emits(e, q))
<1> DEFINE f == Emits(e, q)
<1>1. \A x \in Panes : e[x] \in Nat /\ f[x] \in Nat /\ e[x] <= f[x]
  BY DEF Emits
<1>2. /\ \A i \in 1 .. Len(w) : w[i].n \in Nat
      /\ \A i \in 1 .. Len(b) : b[i].n \in Nat
  BY NumbersAreNat
<1>3. \A l, m, n \in Nat : l <= m /\ m <= n => l <= n
  OBVIOUS
<1> HIDE DEF f
<1>4. WireInOrder(w, f)
  <2>1. WireInOrder(w, e)
    BY DEF InOrder
  <2>2. ASSUME NEW i \in 1 .. Len(w), IsOutput(w, i)
        PROVE  w[i].src = w[i].pane /\ w[i].src \in Panes /\ w[i].n <= f[w[i].src]
    <3>1. w[i].src = w[i].pane /\ w[i].src \in Panes /\ w[i].n <= e[w[i].src]
      BY <2>1, <2>2 DEF WireInOrder
    <3>2. w[i].n \in Nat /\ e[w[i].src] \in Nat /\ f[w[i].src] \in Nat /\ e[w[i].src] <= f[w[i].src]
      BY <1>1, <1>2, <3>1
    <3> QED
      BY <3>1, <3>2, <1>3
  <2> QED
    BY <2>1, <2>2 DEF WireInOrder
<1>5. CASE b = << >>
  BY <1>4, <1>5, EmptyInOrder DEF f
<1>6. CASE b # << >>
  <2>1. GateInOrder(b, p, w, e)
    BY DEF InOrder
  <2>2. ASSUME NEW i \in 1 .. Len(b) PROVE b[i].src = p /\ b[i].n <= f[p]
    <3>1. b[i].src = p /\ b[i].n <= e[p]
      BY <2>1 DEF GateInOrder
    <3>2. b[i].n \in Nat /\ e[p] \in Nat /\ f[p] \in Nat /\ e[p] <= f[p]
      BY <1>1, <1>2, <1>6
    <3> QED
      BY <3>1, <3>2, <1>3
  <2>3. GateInOrder(b, p, w, f)
    BY <2>1, <2>2 DEF GateInOrder
  <2> QED
    BY <1>4, <2>3 DEF InOrder, f
<1> QED
  BY <1>5, <1>6

\* An output goes through that the gate does not hold back.
LEMMA OutputKeepsOrder ==
    ASSUME NEW w \in Seq(Frame), NEW b \in Seq(Chunk), NEW p, b = << >> \/ p \in Panes,
           NEW e \in [Panes -> Nat], InOrder(w, b, p, e), NEW q \in Panes, b = << >> \/ p # q
    PROVE  InOrder(Append(w, Output(q, [src |-> q, n |-> e[q] + 1])), b, p, Emits(e, q))
<1> DEFINE f == Emits(e, q)
           m == Output(q, [src |-> q, n |-> e[q] + 1])
           s == Append(w, m)
<1>1. /\ m \in Frame /\ m.src = q /\ m.pane = q /\ m.n = e[q] + 1 /\ e[q] \in Nat /\ f[q] = e[q] + 1
  <2>1. [src |-> q, n |-> e[q] + 1] \in Chunk /\ e[q] \in Nat
    BY DEF Chunk
  <2>2. m \in Frame
    BY <2>1, FrameTypes
  <2>3. m.src = q /\ m.pane = q /\ m.n = e[q] + 1
    BY DEF Output
  <2>4. f[q] = e[q] + 1
    BY DEF Emits
  <2> QED
    BY <2>1, <2>2, <2>3, <2>4
<1>2. InOrder(w, b, p, f)
  BY EmitsInOrder
<1>3. /\ Len(w) \in Nat /\ Len(s) = Len(w) + 1 /\ s[Len(w) + 1] = m
      /\ \A i \in 1 .. Len(w) : s[i] = w[i]
  BY <1>1, AppendProperties, LenProperties
<1>4. \A i \in 1 .. Len(w) : IsOutput(w, i) /\ w[i].src = q => w[i].n < e[q] + 1
  <2>1. \A i \in 1 .. Len(w) : w[i].n \in Nat
    BY NumbersAreNat
  <2> QED
    BY <1>1, <2>1 DEF InOrder, WireInOrder
<1>5. \A i \in 1 .. Len(s) : i = Len(w) + 1 \/ (i \in 1 .. Len(w) /\ s[i] = w[i] /\ (IsOutput(s, i) => IsOutput(w, i)))
  BY <1>3 DEF IsOutput
<1> HIDE DEF f, m, s
<1>6. WireInOrder(s, f)
  <2>1. ASSUME NEW i \in 1 .. Len(s), IsOutput(s, i)
        PROVE  s[i].src = s[i].pane /\ s[i].src \in Panes /\ s[i].n <= f[s[i].src]
    <3>1. CASE i = Len(w) + 1
      <4>1. s[i] = m /\ e[q] + 1 <= e[q] + 1
        BY <1>1, <1>3, <3>1
      <4> QED
        BY <1>1, <4>1
    <3>2. CASE i \in 1 .. Len(w) /\ s[i] = w[i] /\ IsOutput(w, i)
      BY <1>2, <3>2 DEF InOrder, WireInOrder
    <3> QED
      BY <1>5, <2>1, <3>1, <3>2
  <2>2. ASSUME NEW i \in 1 .. Len(s), NEW j \in 1 .. Len(s), i < j, IsOutput(s, i), IsOutput(s, j), s[i].src = s[j].src
        PROVE  s[i].n < s[j].n
    <3>1. i \in 1 .. Len(w) /\ s[i] = w[i] /\ IsOutput(w, i)
      BY <1>3, <1>5, <2>2
    <3>2. CASE j = Len(w) + 1
      BY <1>1, <1>3, <1>4, <2>2, <3>1, <3>2
    <3>3. CASE j \in 1 .. Len(w) /\ s[j] = w[j] /\ IsOutput(w, j)
      BY <1>2, <2>2, <3>1, <3>3 DEF InOrder, WireInOrder
    <3> QED
      BY <1>5, <2>2, <3>2, <3>3
  <2> QED
    BY <2>1, <2>2 DEF WireInOrder
<1>7. GateInOrder(b, p, s, f)
  <2>1. \A i \in 1 .. Len(s), j \in 1 .. Len(b) : IsOutput(s, i) /\ s[i].src = p => s[i].n < b[j].n
    <3> SUFFICES ASSUME NEW i \in 1 .. Len(s), NEW j \in 1 .. Len(b), IsOutput(s, i), s[i].src = p
                 PROVE  s[i].n < b[j].n
      OBVIOUS
    <3>1. b # << >>
      OBVIOUS
    <3>2. i # Len(w) + 1
      BY <1>1, <1>3, <3>1
    <3> QED
      BY <1>2, <1>5, <3>2 DEF InOrder, GateInOrder
  <2> QED
    BY <1>2, <2>1 DEF InOrder, GateInOrder
<1> QED
  BY <1>6, <1>7 DEF InOrder, f, m, s

\* An output is held back; the gate may drop its oldest.
LEMMA PushKeepsOrder ==
    ASSUME NEW w \in Seq(Frame), NEW b \in Seq(Chunk), NEW p \in Panes,
           NEW e \in [Panes -> Nat], InOrder(w, b, p, e)
    PROVE  InOrder(w, PushBounded(b, [src |-> p, n |-> e[p] + 1]), p, Emits(e, p))
<1> DEFINE f == Emits(e, p)
           o == [src |-> p, n |-> e[p] + 1]
           t == IF Len(b) >= MaxBuffer THEN Tail(b) ELSE b
           s == Append(t, o)
<1>1. o \in Chunk /\ o.src = p /\ o.n = e[p] + 1 /\ e[p] \in Nat /\ f[p] = e[p] + 1
  BY DEF Emits, Chunk
<1>2. WireInOrder(w, f) /\ GateInOrder(b, p, w, f)
  BY EmitsInOrder DEF InOrder
<1>3. PICK d \in {0, 1} : /\ t \in Seq(Chunk) /\ Len(t) = Len(b) - d /\ Len(b) \in Nat
                          /\ \A i \in 1 .. Len(t) : t[i] = b[i + d]
  <2>1. CASE Len(b) >= MaxBuffer
    <3>1. b # << >>
      BY <2>1, BoundsAssumption, EmptySeq
    <3> QED
      BY <2>1, <3>1, HeadTailProperties, LenProperties
  <2>2. CASE ~(Len(b) >= MaxBuffer)
    BY <2>2, LenProperties
  <2> QED
    BY <2>1, <2>2
<1>4. /\ Len(s) = Len(t) + 1 /\ s[Len(t) + 1] = o
      /\ \A i \in 1 .. Len(t) : s[i] = t[i]
  BY <1>1, <1>3, AppendProperties
<1>5. \A i \in 1 .. Len(s) : i = Len(t) + 1 \/ (i \in 1 .. Len(t) /\ i + d \in 1 .. Len(b) /\ s[i] = b[i + d])
  BY <1>3, <1>4
<1>6. \A i \in 1 .. Len(b) : b[i].n < e[p] + 1
  <2>1. \A i \in 1 .. Len(b) : b[i].n \in Nat
    BY NumbersAreNat
  <2> QED
    BY <1>1, <2>1 DEF InOrder, GateInOrder
<1>7. \A i \in 1 .. Len(w) : IsOutput(w, i) /\ w[i].src = p => w[i].n < e[p] + 1
  <2>1. \A i \in 1 .. Len(w) : w[i].n \in Nat
    BY NumbersAreNat
  <2> QED
    BY <1>1, <2>1 DEF InOrder, WireInOrder
<1> HIDE DEF f, o, t, s
<1>8. GateInOrder(s, p, w, f)
  <2>1. ASSUME NEW i \in 1 .. Len(s) PROVE s[i].src = p /\ s[i].n <= f[p]
    <3>1. CASE i = Len(t) + 1
      <4>1. s[i] = o /\ e[p] + 1 <= e[p] + 1
        BY <1>1, <1>4, <3>1
      <4> QED
        BY <1>1, <4>1
    <3>2. CASE i + d \in 1 .. Len(b) /\ s[i] = b[i + d]
      BY <1>2, <3>2 DEF GateInOrder
    <3> QED
      BY <1>5, <3>1, <3>2
  <2>2. ASSUME NEW i \in 1 .. Len(s), NEW j \in 1 .. Len(s), i < j PROVE s[i].n < s[j].n
    <3>1. i \in 1 .. Len(t) /\ i + d \in 1 .. Len(b) /\ s[i] = b[i + d]
      BY <1>3, <1>4, <1>5, <2>2
    <3>2. CASE j = Len(t) + 1
      BY <1>1, <1>4, <1>6, <3>1, <3>2
    <3>3. CASE j + d \in 1 .. Len(b) /\ s[j] = b[j + d]
      <4>1. i + d < j + d
        BY <1>3, <2>2
      <4> QED
        BY <1>2, <3>1, <3>3, <4>1 DEF GateInOrder
    <3> QED
      BY <1>5, <3>2, <3>3
  <2>3. \A i \in 1 .. Len(w), j \in 1 .. Len(s) : IsOutput(w, i) /\ w[i].src = p => w[i].n < s[j].n
    BY <1>1, <1>2, <1>4, <1>5, <1>7 DEF GateInOrder
  <2> QED
    BY <2>1, <2>2, <2>3 DEF GateInOrder
<1>9. s = PushBounded(b, o)
  BY DEF PushBounded, s, t
<1> QED
  BY <1>2, <1>8, <1>9 DEF InOrder, f, o

\* The gate opens: what it holds goes out behind the frames, under p.
Released(w, b, p) == w \o [i \in 1 .. Len(b) |-> Output(p, b[i])]

LEMMA ReleaseInOrder ==
    ASSUME NEW w \in Seq(Frame), NEW b \in Seq(Chunk), NEW p \in Panes \cup {NoPane},
           b = << >> \/ p \in Panes, NEW e \in [Panes -> Nat], InOrder(w, b, p, e)
    PROVE  WireInOrder(Released(w, b, p), e)
<1> DEFINE out == [i \in 1 .. Len(b) |-> Output(p, b[i])]
           s == w \o out
<1>1. Len(b) \in Nat /\ Len(w) \in Nat /\ out \in Seq(Frame) /\ Len(out) = Len(b)
  BY FlushType, LenProperties
<1>2. \A i \in 1 .. Len(b) : out[i].src = p /\ out[i].pane = p /\ out[i].n = b[i].n /\ p \in Panes
  BY DEF InOrder, GateInOrder, Output
<1> HIDE DEF out
<1>3. /\ Len(s) = Len(w) + Len(b)
      /\ \A i \in 1 .. Len(w) + Len(b) : s[i] = IF i <= Len(w) THEN w[i] ELSE out[i - Len(w)]
  <2>1. /\ Len(w \o out) = Len(w) + Len(out)
        /\ \A i \in 1 .. Len(w) + Len(out) : (w \o out)[i] = IF i <= Len(w) THEN w[i] ELSE out[i - Len(w)]
    BY <1>1, ConcatProperties, Zenon
  <2> QED
    BY <1>1, <2>1
<1>4. \A i \in 1 .. Len(s) : \/ i \in 1 .. Len(w) /\ s[i] = w[i] /\ (IsOutput(s, i) => IsOutput(w, i))
                             \/ i > Len(w) /\ i - Len(w) \in 1 .. Len(b) /\ s[i] = out[i - Len(w)]
  BY <1>1, <1>3 DEF IsOutput
<1> HIDE DEF s
<1>5. ASSUME NEW i \in 1 .. Len(s), IsOutput(s, i)
      PROVE  s[i].src = s[i].pane /\ s[i].src \in Panes /\ s[i].n <= e[s[i].src]
  <2>1. CASE i \in 1 .. Len(w) /\ s[i] = w[i] /\ IsOutput(w, i)
    BY <2>1 DEF InOrder, WireInOrder
  <2>2. CASE i - Len(w) \in 1 .. Len(b) /\ s[i] = out[i - Len(w)]
    <3>1. /\ s[i].src = p /\ s[i].pane = p /\ s[i].n = b[i - Len(w)].n /\ p \in Panes
      BY <1>2, <2>2
    <3>2. b[i - Len(w)].n <= e[p]
      BY <2>2 DEF InOrder, GateInOrder
    <3> QED
      BY <3>1, <3>2
  <2> QED
    BY <1>4, <1>5, <2>1, <2>2
<1>6. ASSUME NEW i \in 1 .. Len(s), NEW j \in 1 .. Len(s), i < j, IsOutput(s, i), IsOutput(s, j), s[i].src = s[j].src
      PROVE  s[i].n < s[j].n
  <2>1. CASE j \in 1 .. Len(w) /\ s[j] = w[j] /\ IsOutput(w, j)
    <3>1. i \in 1 .. Len(w) /\ s[i] = w[i] /\ IsOutput(w, i)
      BY <1>1, <1>4, <1>6, <2>1
    <3> QED
      BY <1>6, <2>1, <3>1 DEF InOrder, WireInOrder
  <2>2. CASE j - Len(w) \in 1 .. Len(b) /\ s[j] = out[j - Len(w)]
    <3>1. CASE i \in 1 .. Len(w) /\ s[i] = w[i] /\ IsOutput(w, i)
      BY <1>2, <1>6, <2>2, <3>1 DEF InOrder, GateInOrder
    <3>2. CASE i - Len(w) \in 1 .. Len(b) /\ s[i] = out[i - Len(w)]
      <4>1. i - Len(w) < j - Len(w)
        BY <1>1, <1>6
      <4> QED
        BY <1>2, <2>2, <3>2, <4>1 DEF InOrder, GateInOrder
    <3> QED
      BY <1>4, <1>6, <3>1, <3>2
  <2> QED
    BY <1>4, <1>6, <2>1, <2>2
<1>7. WireInOrder(s, e)
  BY <1>5, <1>6 DEF WireInOrder
<1> QED
  BY <1>7 DEF Released, s, out

\* A frame is read.
LEMMA ReadInOrder ==
    ASSUME NEW w \in Seq(Frame), w # << >>, NEW b \in Seq(Chunk), NEW p, NEW e, InOrder(w, b, p, e)
    PROVE  InOrder(Tail(w), b, p, e)
<1> DEFINE s == Tail(w)
<1>1. Len(w) \in Nat /\ Len(s) = Len(w) - 1 /\ \A i \in 1 .. Len(s) : s[i] = w[i + 1]
  BY HeadTailProperties, LenProperties
<1> HIDE DEF s
<1>2. \A i \in 1 .. Len(s) : i + 1 \in 1 .. Len(w) /\ s[i] = w[i + 1] /\ (IsOutput(s, i) => IsOutput(w, i + 1))
  BY <1>1 DEF IsOutput
<1>3. \A i, j \in 1 .. Len(s) : i < j => i + 1 < j + 1
  BY <1>1
<1>4. WireInOrder(s, e)
  BY <1>2, <1>3 DEF InOrder, WireInOrder
<1>5. GateInOrder(b, p, s, e)
  BY <1>2 DEF InOrder, GateInOrder
<1> QED
  BY <1>4, <1>5 DEF InOrder, s

LEMMA InitOrdered == Init => Ordered
BY DEF Init, Fresh, NoTx, Ordered, InOrder, WireInOrder, GateInOrder

\* What is known of a socket in order: its parts are typed, and without a
\* switch its gate is empty.
LEMMA OrderedFacts ==
    ASSUME TypeOK, GateHasTimer, Ordered, NEW c \in Clients
    PROVE  /\ wire[c] \in Seq(Frame) /\ buffer[c] \in Seq(Chunk) /\ emitted \in [Panes -> Nat]
           /\ pending[c].pane \in Panes \cup {NoPane} /\ pending[c].tok \in Nat
           /\ gate[c] = "BUFFERING" <=> pending[c].tok # 0
           /\ ~mixed[c] => /\ pending[c].tok # 0 => pending[c].pane \in Panes /\ selected[c] = pending[c].pane
                           /\ buffer[c] = << >> \/ pending[c].pane \in Panes
                           /\ InOrder(wire[c], buffer[c], pending[c].pane, emitted)
<1>1. /\ wire[c] \in Seq(Frame) /\ buffer[c] \in Seq(Chunk) /\ emitted \in [Panes -> Nat]
      /\ pending[c] \in Transaction
  BY DEF TypeOK, BarrierType
<1>2. pending[c].tok = 0 => buffer[c] = << >>
  BY DEF GateHasTimer, GateOK
<1>3. gate[c] = "BUFFERING" <=> pending[c].tok # 0
  BY DEF GateHasTimer, GateOK
<1>4. ~mixed[c] => /\ pending[c].tok # 0 => pending[c].pane \in Panes /\ selected[c] = pending[c].pane
                   /\ InOrder(wire[c], buffer[c], pending[c].pane, emitted)
  BY DEF Ordered
<1>5. pending[c].pane \in Panes \cup {NoPane} /\ pending[c].tok \in Nat
  BY <1>1 DEF Transaction
<1> QED
  BY <1>1, <1>2, <1>3, <1>4, <1>5

\* A step that leaves the switch of c and its gate alone, and sends c at most
\* one frame that is no output, or has it read one.
LEMMA KeepsOrdered ==
    ASSUME TypeOK, GateHasTimer, Ordered, NEW c \in Clients, emitted' = emitted,
           pending'[c] = pending[c], buffer'[c] = buffer[c],
           ~mixed'[c] => ~mixed[c] /\ (pending[c].tok # 0 => selected'[c] = selected[c]),
           \/ wire'[c] = wire[c]
           \/ \E m \in Frame : m.k # "OUTPUT" /\ wire'[c] = Append(wire[c], m)
           \/ wire[c] # << >> /\ wire'[c] = Tail(wire[c])
    PROVE  ~mixed'[c] =>
        /\ pending'[c].tok # 0 => pending'[c].pane \in Panes /\ selected'[c] = pending'[c].pane
        /\ InOrder(wire'[c], buffer'[c], pending'[c].pane, emitted')
<1> SUFFICES ASSUME ~mixed'[c]
             PROVE  /\ pending[c].tok # 0 => pending[c].pane \in Panes /\ selected'[c] = pending[c].pane
                    /\ InOrder(wire'[c], buffer[c], pending[c].pane, emitted)
  OBVIOUS
<1>1. /\ wire[c] \in Seq(Frame) /\ buffer[c] \in Seq(Chunk) /\ emitted \in [Panes -> Nat]
      /\ pending[c].tok # 0 => pending[c].pane \in Panes /\ selected[c] = pending[c].pane
      /\ InOrder(wire[c], buffer[c], pending[c].pane, emitted)
  BY OrderedFacts
<1>2. CASE wire'[c] = wire[c]
  BY <1>1, <1>2
<1>3. ASSUME NEW m \in Frame, m.k # "OUTPUT", wire'[c] = Append(wire[c], m)
      PROVE  InOrder(wire'[c], buffer[c], pending[c].pane, emitted)
  BY <1>1, <1>3, SendInOrder
<1>4. CASE wire[c] # << >> /\ wire'[c] = Tail(wire[c])
  BY <1>1, <1>4, ReadInOrder
<1> QED
  BY <1>1, <1>2, <1>3, <1>4

\* A switch that is resumed lets out in order what the gate holds.
LEMMA ResumeOrdered ==
    ASSUME TypeOK, GateHasTimer, Ordered, NEW c \in Clients, ~mixed[c], SendLiveResume(c)
    PROVE  pending'[c].tok = 0 /\ buffer'[c] = << >> /\ WireInOrder(wire'[c], emitted)
<1> DEFINE tx == pending[c]
           resumed == Append(wire[c], Resumed(tx.tok, tx.pane))
<1>1. /\ wire[c] \in Seq(Frame) /\ buffer[c] \in Seq(Chunk) /\ emitted \in [Panes -> Nat]
      /\ tx.pane \in Panes \cup {NoPane} /\ tx.tok \in Nat
      /\ buffer[c] = << >> \/ tx.pane \in Panes
      /\ InOrder(wire[c], buffer[c], tx.pane, emitted)
  BY OrderedFacts
<1>2. Resumed(tx.tok, tx.pane) \in Frame /\ Resumed(tx.tok, tx.pane).k # "OUTPUT"
  <2>1. Resumed(tx.tok, tx.pane) \in Frame
    BY <1>1, FrameTypes
  <2> QED
    BY <2>1 DEF Resumed
<1>3. InOrder(resumed, buffer[c], tx.pane, emitted) /\ resumed \in Seq(Frame)
  BY <1>1, <1>2, SendInOrder, AppendProperties
<1>4. WireInOrder(Released(resumed, buffer[c], tx.pane), emitted)
  BY <1>1, <1>3, ReleaseInOrder
<1>5. wire'[c] = Released(resumed, buffer[c], tx.pane) /\ buffer'[c] = << >> /\ pending'[c] = NoTx
  BY DEF SendLiveResume, Released, TypeOK, BarrierType
<1> QED
  BY <1>4, <1>5 DEF NoTx

\* The pane p produces one more output: to c it is held back, sent or unheard.
LEMMA OutputOrdered ==
    ASSUME TypeOK, GateHasTimer, Ordered, NEW c \in Clients, ~mixed[c],
           NEW p \in Panes, BroadcastTerminalOutput(p)
    PROVE  InOrder(wire'[c], buffer'[c], pending[c].pane, emitted')
<1> DEFINE o == [src |-> p, n |-> emitted[p] + 1]
           hears == c \in attached /\ up /\ Follows(c, p)
<1>1. /\ wire[c] \in Seq(Frame) /\ buffer[c] \in Seq(Chunk) /\ emitted \in [Panes -> Nat]
      /\ pending[c].tok # 0 => selected[c] = pending[c].pane
      /\ gate[c] = "BUFFERING" <=> pending[c].tok # 0
      /\ buffer[c] = << >> \/ pending[c].pane \in Panes
      /\ InOrder(wire[c], buffer[c], pending[c].pane, emitted)
  BY OrderedFacts
<1>2. pending[c].tok = 0 => buffer[c] = << >>
  BY DEF GateHasTimer, GateOK
<1>3. emitted' = Emits(emitted, p)
  BY DEF BroadcastTerminalOutput, Emits
<1>4. /\ buffer'[c] = IF hears /\ HeldBack(c, p) THEN PushBounded(buffer[c], o) ELSE buffer[c]
      /\ wire'[c] = IF hears /\ ~HeldBack(c, p) THEN Append(wire[c], Output(p, o)) ELSE wire[c]
  BY DEF BroadcastTerminalOutput
<1> HIDE DEF o, hears
<1>5. CASE hears /\ HeldBack(c, p)
  <2>1. pending[c].pane = p
    BY <1>1, <1>5 DEF HeldBack
  <2>2. InOrder(wire[c], PushBounded(buffer[c], o), p, Emits(emitted, p))
    BY <1>1, <2>1, PushKeepsOrder DEF o
  <2> QED
    BY <1>3, <1>4, <1>5, <2>1, <2>2
<1>6. CASE hears /\ ~HeldBack(c, p)
  <2>1. buffer[c] = << >> \/ pending[c].pane # p
    BY <1>1, <1>2, <1>6 DEF HeldBack
  <2>2. InOrder(Append(wire[c], Output(p, o)), buffer[c], pending[c].pane, Emits(emitted, p))
    BY <1>1, <2>1, OutputKeepsOrder DEF o
  <2> QED
    BY <1>3, <1>4, <1>6, <2>2
<1>7. CASE ~hears
  <2>1. InOrder(wire[c], buffer[c], pending[c].pane, Emits(emitted, p))
    BY <1>1, EmitsInOrder
  <2> QED
    BY <1>3, <1>4, <1>7, <2>1
<1> QED
  BY <1>5, <1>6, <1>7

\* A frame about the device goes to those attached, and nothing else moves.
LEMMA StatusOrdered ==
    ASSUME TypeOK, GateHasTimer, Ordered, NEW c \in Clients, emitted' = emitted,
           pending' = pending, buffer' = buffer,
           ~mixed'[c] => ~mixed[c] /\ (pending[c].tok # 0 => selected'[c] = selected[c]),
           NEW s \in {"CONNECTED", "DISCONNECTED", "RECONNECTING", "RECONNECTED", "LOST"},
           wire'[c] = wire[c] \/ wire'[c] = Append(wire[c], Status(s))
    PROVE  ~mixed'[c] =>
        /\ pending'[c].tok # 0 => pending'[c].pane \in Panes /\ selected'[c] = pending'[c].pane
        /\ InOrder(wire'[c], buffer'[c], pending'[c].pane, emitted')
<1>1. Status(s) \in Frame /\ Status(s).k # "OUTPUT"
  <2>1. Status(s) \in Frame
    BY FrameTypes
  <2> QED
    BY <2>1 DEF Status
<1>2. \/ wire'[c] = wire[c]
      \/ \E m \in Frame : m.k # "OUTPUT" /\ wire'[c] = Append(wire[c], m)
  BY <1>1
<1>3. pending'[c] = pending[c] /\ buffer'[c] = buffer[c]
  OBVIOUS
<1> QED
  BY <1>2, <1>3, KeepsOrdered

LEMMA GatewayOrdered == IInv /\ Ordered /\ GatewayNext => Ordered'
<1> SUFFICES ASSUME TypeOK, GateHasTimer, Ordered, GatewayNext, NEW d \in Clients
             PROVE  ~mixed'[d] =>
        /\ pending'[d].tok # 0 => pending'[d].pane \in Panes /\ selected'[d] = pending'[d].pane
        /\ InOrder(wire'[d], buffer'[d], pending'[d].pane, emitted')
  BY DEF IInv, Ordered
<1> DEFINE Goal == ~mixed'[d] =>
        /\ pending'[d].tok # 0 => pending'[d].pane \in Panes /\ selected'[d] = pending'[d].pane
        /\ InOrder(wire'[d], buffer'[d], pending'[d].pane, emitted')
<1> SUFFICES Goal
  OBVIOUS
<1>0. /\ wire[d] \in Seq(Frame) /\ buffer[d] \in Seq(Chunk) /\ emitted \in [Panes -> Nat]
      /\ ~mixed[d] => InOrder(wire[d], buffer[d], pending[d].pane, emitted)
  BY OrderedFacts
\* Nothing that the goal names changes.
<1>a. ASSUME UNCHANGED <<pending, buffer, wire, selected, emitted, mixed>> PROVE Goal
  BY <1>a DEF Ordered
<1>1. ASSUME NEW c \in Clients, HandleOpen(c) PROVE Goal
  BY <1>1, <1>a DEF HandleOpen, client, barrier, history
<1>2. ASSUME NEW c \in Clients, HandleClose(c) PROVE Goal
  <2>1. CASE d = c
    <3>1. wire'[c] = << >> /\ buffer'[c] = << >> /\ pending'[c] = NoTx
      BY <1>2 DEF HandleClose, ForgetBarrier, TypeOK, BarrierType
    <3> QED
      BY <2>1, <3>1 DEF NoTx, InOrder, WireInOrder, GateInOrder
  <2>2. CASE d # c
    <3>1. /\ pending'[d] = pending[d] /\ buffer'[d] = buffer[d] /\ wire'[d] = wire[d]
          /\ selected'[d] = selected[d] /\ mixed'[d] = mixed[d] /\ emitted' = emitted
      BY <1>2, <2>2 DEF HandleClose, ForgetBarrier, TypeOK, ClientType, BarrierType, HistoryType
    <3> QED
      BY <3>1, KeepsOrdered
  <2> QED
    BY <2>1, <2>2
<1>3. ASSUME NEW c \in Clients, HandleDeviceConnect(c) PROVE Goal
  <2>1. /\ pending' = pending /\ buffer' = buffer /\ selected' = selected /\ mixed' = mixed
        /\ emitted' = emitted
    BY <1>3 DEF HandleDeviceConnect, client, barrier, history
  <2>2. wire'[d] = wire[d] \/ wire'[d] = Append(wire[d], Status("CONNECTED"))
    BY <1>3 DEF HandleDeviceConnect, Send, TypeOK
  <2> QED
    BY <2>1, <2>2, StatusOrdered
<1>4. ASSUME NEW c \in Clients, HandleDeviceDisconnect(c) PROVE Goal
  <2>1. pending' = pending /\ buffer' = buffer /\ emitted' = emitted
    BY <1>4 DEF HandleDeviceDisconnect, barrier
  <2>2. wire'[d] = wire[d] \/ wire'[d] = Append(wire[d], Status("DISCONNECTED"))
    BY <1>4 DEF HandleDeviceDisconnect, Send, TypeOK
  <2>3. ~mixed'[d] => ~mixed[d] /\ (pending[d].tok # 0 => selected'[d] = selected[d])
    <3>1. CASE d # c
      BY <1>4, <3>1 DEF HandleDeviceDisconnect, TypeOK, ClientType, HistoryType
    <3>2. CASE d = c
      <4>1. mixed'[c] = (mixed[c] \/ MovedOff(c, NoPane))
        BY <1>4 DEF HandleDeviceDisconnect, TypeOK, HistoryType
      <4>2. ~mixed[c] /\ pending[c].tok # 0 => MovedOff(c, NoPane)
        BY NoPaneAssumption DEF MovedOff, Ordered
      <4> QED
        BY <3>2, <4>1, <4>2
    <3> QED
      BY <3>1, <3>2
  <2> QED
    BY <2>1, <2>2, <2>3, StatusOrdered
<1>5. ASSUME NEW c \in Clients, NEW p \in Panes, NEW t \in Nat \ {0}, NEW want \in BOOLEAN, HandleTmuxSelect(c, t, p, want)
      PROVE  Goal
  <2>1. emitted' = emitted /\ mixed' = mixed /\ t \in Nat
    BY <1>5 DEF HandleTmuxSelect, TypeOK
  <2>2. CASE d = c
    <3>1. /\ pending'[c].pane = p /\ selected'[c] = p /\ buffer'[c] = << >>
          /\ wire'[c] = Append(wire[c], Ack(t, p))
      BY <1>5 DEF HandleTmuxSelect, Send, TypeOK, ClientType, BarrierType
    <3>2. Ack(t, p) \in Frame /\ Ack(t, p).k # "OUTPUT"
      <4>1. Ack(t, p) \in Frame
        BY <2>1, FrameTypes
      <4> QED
        BY <4>1 DEF Ack
    <3>3. ~mixed[c] => InOrder(wire[c], << >>, p, emitted)
      BY <1>0, <2>2, EmptyInOrder DEF InOrder
    <3>4. << >> \in Seq(Chunk)
      OBVIOUS
    <3>5. ~mixed[c] => InOrder(Append(wire[c], Ack(t, p)), << >>, p, emitted)
      BY <1>0, <2>2, <3>2, <3>3, <3>4, SendInOrder
    <3> QED
      BY <2>1, <2>2, <3>1, <3>5
  <2>3. CASE d # c
    <3>1. /\ pending'[d] = pending[d] /\ buffer'[d] = buffer[d] /\ wire'[d] = wire[d]
          /\ selected'[d] = selected[d] /\ mixed'[d] = mixed[d]
      BY <1>5, <2>1, <2>3 DEF HandleTmuxSelect, Send, TypeOK, ClientType, BarrierType
    <3> QED
      BY <2>1, <3>1, KeepsOrdered
  <2> QED
    BY <2>2, <2>3
<1>6. ASSUME NEW c \in Clients, NEW p \in Panes, HandleFocusPane(c, p) PROVE Goal
  <2>1. pending' = pending /\ buffer' = buffer /\ emitted' = emitted /\ wire' = wire
    BY <1>6 DEF HandleFocusPane, barrier
  <2>2. ~mixed'[d] => ~mixed[d] /\ (pending[d].tok # 0 => selected'[d] = selected[d])
    <3>1. CASE d # c
      BY <1>6, <3>1 DEF HandleFocusPane, TypeOK, ClientType, HistoryType
    <3>2. CASE d = c
      <4>1. mixed'[c] = (mixed[c] \/ MovedOff(c, p)) /\ selected'[c] = p
        BY <1>6 DEF HandleFocusPane, TypeOK, ClientType, HistoryType
      <4>2. ~mixed[c] /\ pending[c].tok # 0 => selected[c] = pending[c].pane
        BY DEF Ordered
      <4> QED
        BY <3>2, <4>1, <4>2 DEF MovedOff
    <3> QED
      BY <3>1, <3>2
  <2> QED
    BY <2>1, <2>2, KeepsOrdered
<1>7. ASSUME NEW c \in Clients, NEW p \in Panes, NEW t \in Nat \ {0}, HandleFetchPaneHistory(c, t, p) PROVE Goal
  BY <1>7, <1>a DEF HandleFetchPaneHistory, barrier, history
<1>8. ASSUME NEW c \in Clients, NEW S \in SUBSET Panes, HandleSubscribePanes(c, S) PROVE Goal
  BY <1>8, <1>a DEF HandleSubscribePanes, barrier, history
<1>9. ASSUME NEW c \in Clients, BarrierStep(c) PROVE Goal
  <2>1. pending[c].tok # 0 /\ timers[c] # << >> /\ MayResume(c, Head(timers[c]).tok)
    BY <1>9 DEF BarrierStep, LiveTimerFires, HistoryTimerFires, MayResume, GateHasTimer, GateOK, TypeOK, BarrierType
  <2>2. SendLiveResume(c)
    BY <1>9, <2>1 DEF BarrierStep, LiveTimerFires, HistoryTimerFires
  <2>3. selected' = selected /\ mixed' = mixed /\ emitted' = emitted
    BY <1>9 DEF BarrierStep, LiveTimerFires, HistoryTimerFires, client
  <2>4. CASE d = c
    <3>1. ~mixed[c] => pending'[c].tok = 0 /\ buffer'[c] = << >> /\ WireInOrder(wire'[c], emitted)
      BY <2>2, ResumeOrdered
    <3> QED
      BY <2>3, <2>4, <3>1, EmptyInOrder
  <2>5. CASE d # c
    <3>1. /\ pending'[d] = pending[d] /\ buffer'[d] = buffer[d] /\ wire'[d] = wire[d]
          /\ selected'[d] = selected[d] /\ mixed'[d] = mixed[d]
      BY <2>2, <2>3, <2>5 DEF SendLiveResume, TypeOK, BarrierType
    <3> QED
      BY <2>3, <3>1, KeepsOrdered
  <2> QED
    BY <2>4, <2>5
<1>10. ASSUME NEW c \in Clients, Takes(c) PROVE Goal
  <2>1. pending' = pending /\ buffer' = buffer /\ selected' = selected /\ mixed' = mixed /\ emitted' = emitted
    BY <1>10 DEF Takes, client, barrier, history
  <2>2. wire'[d] = wire[d] \/ (wire[d] # << >> /\ wire'[d] = Tail(wire[d]))
    <3>1. CASE d # c
      BY <1>10, <3>1 DEF Takes, TypeOK
    <3>2. CASE d = c
      BY <1>10, <3>2 DEF Takes, TypeOK
    <3> QED
      BY <3>1, <3>2
  <2> QED
    BY <2>1, <2>2, KeepsOrdered
<1>11. ASSUME NEW p \in Panes, BroadcastTerminalOutput(p) PROVE Goal
  <2>1. pending' = pending /\ selected' = selected /\ mixed' = mixed
    BY <1>11 DEF BroadcastTerminalOutput, client, history
  <2>2. ~mixed[d] => InOrder(wire'[d], buffer'[d], pending[d].pane, emitted')
    BY <1>11, OutputOrdered
  <2> QED
    BY <2>1, <2>2 DEF Ordered
<1>12. ASSUME NEW k \in captures, TakeCapture(k) PROVE Goal
  BY <1>12, <1>a DEF TakeCapture, client, barrier, history
<1>13. ASSUME NEW k \in captures, BroadcastTerminalHistory(k) PROVE Goal
  <2>1. /\ pending' = pending /\ buffer' = buffer /\ selected' = selected /\ mixed' = mixed
        /\ emitted' = emitted
    BY <1>13 DEF BroadcastTerminalHistory, history
  <2>2. k \in Capture /\ k.upTo >= 0
    BY <1>13 DEF BroadcastTerminalHistory, TypeOK
  <2>3. pending[d].tok \in Nat /\ fetches[d][k.pane] \in Nat
    BY <2>2 DEF TypeOK, ClientType, BarrierType, Transaction, Capture
  <2>4. \A t \in Nat : History(t, k) \in Frame /\ History(t, k).k # "OUTPUT"
    <3>1. \A t \in Nat : History(t, k) \in Frame
      BY <2>2, FrameTypes
    <3> QED
      BY <3>1 DEF History
  <2>5. \/ wire'[d] = wire[d]
        \/ wire'[d] = Append(wire[d], History(pending[d].tok, k))
        \/ wire'[d] = Append(wire[d], History(fetches[d][k.pane], k))
    BY <1>13 DEF BroadcastTerminalHistory
  <2>6. \/ wire'[d] = wire[d]
        \/ \E m \in Frame : m.k # "OUTPUT" /\ wire'[d] = Append(wire[d], m)
    BY <2>3, <2>4, <2>5
  <2> QED
    BY <2>1, <2>6, KeepsOrdered
<1>14. ASSUME NEW k \in captures, DropCapture(k) PROVE Goal
  BY <1>14, <1>a DEF DropCapture, barrier, history
<1>15. ASSUME BroadcastStateSnapshot PROVE Goal
  BY <1>15, <1>a DEF BroadcastStateSnapshot, client, barrier, history
<1>16. ASSUME HandleConnectionClose PROVE Goal
  <2>1. /\ pending' = pending /\ buffer' = buffer /\ selected' = selected /\ mixed' = mixed
        /\ emitted' = emitted
    BY <1>16 DEF HandleConnectionClose, client, barrier
  <2>2. wire'[d] = wire[d] \/ wire'[d] = Append(wire[d], Status("RECONNECTING"))
    BY <1>16 DEF HandleConnectionClose
  <2> QED
    BY <2>1, <2>2, StatusOrdered
<1>17. ASSUME RetryConnection PROVE Goal
  <2>1. /\ pending' = pending /\ buffer' = buffer /\ selected' = selected /\ mixed' = mixed
        /\ emitted' = emitted
    BY <1>17 DEF RetryConnection, client, barrier, history
  <2>2. wire'[d] = wire[d] \/ wire'[d] = Append(wire[d], Status("RECONNECTED"))
    BY <1>17 DEF RetryConnection
  <2> QED
    BY <2>1, <2>2, StatusOrdered
<1>18. ASSUME GiveUpConnection PROVE Goal
  <2>1. pending' = pending /\ buffer' = buffer /\ emitted' = emitted
    BY <1>18 DEF GiveUpConnection, barrier
  <2>2. wire'[d] = wire[d] \/ wire'[d] = Append(wire[d], Status("LOST"))
    BY <1>18 DEF GiveUpConnection
  <2>3. ~mixed'[d] => ~mixed[d] /\ (pending[d].tok # 0 => selected'[d] = selected[d])
    <3>1. mixed'[d] = (mixed[d] \/ (d \in attached /\ MovedOff(d, NoPane)))
      BY <1>18 DEF GiveUpConnection
    <3>2. selected'[d] = IF d \in attached THEN NoPane ELSE selected[d]
      BY <1>18 DEF GiveUpConnection
    <3>3. ~mixed[d] /\ pending[d].tok # 0 => MovedOff(d, NoPane)
      BY NoPaneAssumption DEF MovedOff, Ordered
    <3> QED
      BY <3>1, <3>2, <3>3
  <2> QED
    BY <2>1, <2>2, <2>3, StatusOrdered
<1>19. CASE Idles
  BY <1>19, <1>a DEF Idles, client, barrier, history
<1> HIDE DEF Goal
<1> QED
  BY <1>1, <1>2, <1>3, <1>4, <1>5, <1>6, <1>7, <1>8, <1>9, <1>10, <1>11, <1>12, <1>13, <1>14, <1>15, <1>16, <1>17, <1>18, <1>19
     DEF GatewayNext, BesideNext, ActsBeside, SelectsOf, SocketStep, RuntimeStep, LossStep

LEMMA NextOrdered == IInv /\ Ordered /\ [Next]_vars => Ordered'
BY NextIsGatewayNext, GatewayOrdered DEF IInv

LEMMA OrderedOutputs == IInv /\ Ordered => OutputInOrder
<1> SUFFICES ASSUME TypeOK, GateHasTimer, Ordered, NEW c \in Clients, ~mixed[c]
             PROVE  LET w == OnTheWay(c)
                        outputs == {i \in DOMAIN w : w[i].k = "OUTPUT"} IN
                    /\ \A i \in outputs : w[i].src = w[i].pane
                    /\ \A i, j \in outputs : (i < j /\ w[i].src = w[j].src) => w[i].n < w[j].n
  BY DEF IInv, OutputInOrder
<1> DEFINE w == OnTheWay(c)
           flushed == [i \in 1 .. Len(buffer[c]) |-> Output(pending[c].pane, buffer[c][i])]
<1>1. /\ wire[c] \in Seq(Frame) /\ buffer[c] \in Seq(Chunk) /\ emitted \in [Panes -> Nat]
      /\ pending[c].pane \in Panes \cup {NoPane}
      /\ buffer[c] = << >> \/ pending[c].pane \in Panes
      /\ InOrder(wire[c], buffer[c], pending[c].pane, emitted)
  BY OrderedFacts
<1>2. w = Released(wire[c], buffer[c], pending[c].pane)
  BY DEF OnTheWay, Released
<1>3. WireInOrder(w, emitted)
  BY <1>1, <1>2, ReleaseInOrder
<1>4. w \in Seq(Frame)
  <2>1. flushed \in Seq(Frame)
    BY <1>1, FlushType
  <2> HIDE DEF flushed
  <2>2. wire[c] \o flushed \in Seq(Frame)
    BY <1>1, <2>1, ConcatProperties
  <2> QED
    BY <2>2 DEF OnTheWay, flushed
<1> HIDE DEF w
<1>5. DOMAIN w = 1 .. Len(w)
  BY <1>4, LenProperties
<1>6. /\ \A i \in {j \in DOMAIN w : w[j].k = "OUTPUT"} : w[i].src = w[i].pane
      /\ \A i, j \in {l \in DOMAIN w : w[l].k = "OUTPUT"} :
            (i < j /\ w[i].src = w[j].src) => w[i].n < w[j].n
  BY <1>3, <1>5 DEF WireInOrder, IsOutput
<1> QED
  BY <1>6 DEF w

\* The outputs of a pane reach a socket in the order the pane produced them and
\* under the pane's name (broadcastTerminalOutput, sendLiveResume): what the
\* gate held back goes out before anything newer, through switches, timeouts and
\* the loss of the device, unless the focus moved while a switch was open.
THEOREM OutputsInOrder == Spec => []OutputInOrder
BY InitIInv, NextIInv, InitOrdered, NextOrdered, OrderedOutputs, PTL DEF Spec
-----------------------------------------------------------------------------
(* SwitchBarrier implements SwitchPromise.  Besides the types and the      *)
(* gate's timer the proof needs to know that tokens are never drawn twice, *)
(* so that a fetched history cannot be mistaken for the open switch's.     *)
FreshTokens ==
    \A c \in Clients :
        /\ pending[c].tok < nextTok
        /\ pending[c].tok = 0 <=> pending[c].pane = NoPane
        /\ \A p \in Panes : /\ fetches[c][p] < nextTok
                            /\ fetches[c][p] # 0 => fetches[c][p] # pending[c].tok

\* All that the promise needs of it, of a gateway alone as of one in a larger
\* system, with selects that bear another token than the open switch.
PaneIdle == \A c \in Clients : pending[c].tok = 0 <=> pending[c].pane = NoPane
FetchesApart == \A c \in Clients, p \in Panes : fetches[c][p] # 0 => fetches[c][p] # pending[c].tok
AfreshNext == BesideNext \/ \E c \in Clients : SelectsOf(c, Nat \ {0, pending[c].tok})

LEMMA GatewayPaneIdle == TypeOK /\ PaneIdle /\ GatewayNext => PaneIdle'
<1> SUFFICES ASSUME TypeOK, PaneIdle, GatewayNext PROVE PaneIdle'
  OBVIOUS
<1> DEFINE Clears == \E c \in Clients : pending' = [pending EXCEPT ![c] = NoTx]
<1>1. CASE pending' = pending \/ Clears
  <2>1. NoTx.tok = 0 /\ NoTx.pane = NoPane
    BY DEF NoTx
  <2>2. \A d \in Clients : pending'[d] = pending[d] \/ pending'[d] = NoTx
    BY <1>1 DEF TypeOK, BarrierType
  <2> QED
    BY <2>1, <2>2 DEF PaneIdle
<1>2. ASSUME NEW c \in Clients, SelectsOf(c, Nat \ {0}) PROVE PaneIdle'
  <2>1. PICK p \in Panes, t \in Nat \ {0}, want \in BOOLEAN :
               pending' = [pending EXCEPT ![c] = [tok |-> t, pane |-> p, want |-> want]]
    <3>1. PICK p \in Panes, t \in Nat \ {0}, want \in BOOLEAN : HandleTmuxSelect(c, t, p, want)
      BY <1>2 DEF SelectsOf
    <3> QED
      BY <3>1 DEF HandleTmuxSelect
  <2>2. \A d \in Clients : \/ pending'[d] = pending[d]
                           \/ pending'[d] = [tok |-> t, pane |-> p, want |-> want]
    BY <2>1 DEF TypeOK, BarrierType
  <2> QED
    BY <2>2, NoPaneAssumption DEF PaneIdle
<1>3. ASSUME NEW c \in Clients, SocketStep(c) PROVE pending' = pending \/ Clears
  BY <1>3 DEF SocketStep, HandleOpen, HandleClose, HandleDeviceConnect, HandleDeviceDisconnect, ForgetBarrier, barrier
<1>4. ASSUME NEW c \in Clients, BarrierStep(c) PROVE pending' = pending \/ Clears
  BY <1>4 DEF BarrierStep, LiveTimerFires, HistoryTimerFires, SendLiveResume
<1>5. CASE RuntimeStep
  BY <1>1, <1>5 DEF RuntimeStep, BroadcastTerminalOutput, TakeCapture, BroadcastTerminalHistory, DropCapture,
     BroadcastStateSnapshot, barrier
<1>6. CASE LossStep
  BY <1>1, <1>6 DEF LossStep, HandleConnectionClose, RetryConnection, GiveUpConnection, barrier
<1>7. CASE Idles
  BY <1>1, <1>7 DEF Idles, barrier
<1>8. ASSUME NEW c \in Clients, ActsBeside(c) PROVE pending' = pending \/ Clears
  BY <1>3, <1>4, <1>8 DEF ActsBeside, Takes, HandleFocusPane, HandleSubscribePanes, HandleFetchPaneHistory, barrier
<1> QED
  BY <1>1, <1>2, <1>5, <1>6, <1>7, <1>8 DEF GatewayNext, BesideNext

LEMMA FreshIsApart == FreshTokens => PaneIdle /\ FetchesApart
BY DEF FreshTokens, PaneIdle, FetchesApart

LEMMA NextIsAfreshNext == TypeOK /\ FreshTokens /\ [Next]_vars => AfreshNext
<1> SUFFICES ASSUME TypeOK, FreshTokens, [Next]_vars PROVE AfreshNext
  OBVIOUS
<1>1. ASSUME NEW c \in Clients, SelectsOf(c, {nextTok}) PROVE SelectsOf(c, Nat \ {0, pending[c].tok})
  <2>1. nextTok \in Nat \ {0} /\ pending[c].tok \in Nat /\ pending[c].tok < nextTok
    BY DEF TypeOK, BarrierType, Transaction, FreshTokens
  <2>2. nextTok \in Nat \ {0, pending[c].tok}
    BY <2>1
  <2> QED
    BY <1>1, <2>2 DEF SelectsOf
<1> QED
  BY <1>1, NextIsBesideNext DEF AfreshNext

LEMMA InitFreshTokens == Init => FreshTokens
<1> SUFFICES ASSUME Init, NEW c \in Clients
             PROVE  /\ pending[c].tok < nextTok
                    /\ pending[c].tok = 0 <=> pending[c].pane = NoPane
                    /\ \A p \in Panes : /\ fetches[c][p] < nextTok
                                        /\ fetches[c][p] # 0 => fetches[c][p] # pending[c].tok
  BY DEF FreshTokens
<1>1. pending[c] = NoTx /\ nextTok = 1 /\ fetches[c] = [p \in Panes |-> 0]
  BY DEF Init, Fresh
<1> QED
  BY <1>1 DEF NoTx

LEMMA NextFreshTokens == IInv /\ FreshTokens /\ [Next]_vars => FreshTokens'
<1> SUFFICES ASSUME TypeOK, FreshTokens, [Next]_vars PROVE FreshTokens'
  BY DEF IInv
<1> USE NoPaneAssumption DEF entry, client, barrier, history
<1>1. ASSUME NEW c \in Clients, HandleOpen(c) PROVE FreshTokens'
  BY <1>1 DEF HandleOpen, FreshTokens
<1>2. ASSUME NEW c \in Clients, HandleClose(c) PROVE FreshTokens'
  BY <1>2 DEF HandleClose, ForgetBarrier, NoTx, TypeOK, ClientType, BarrierType, Transaction, FreshTokens
<1>3. ASSUME NEW c \in Clients, HandleDeviceConnect(c) PROVE FreshTokens'
  BY <1>3 DEF HandleDeviceConnect, FreshTokens
<1>4. ASSUME NEW c \in Clients, HandleDeviceDisconnect(c) PROVE FreshTokens'
  BY <1>4 DEF HandleDeviceDisconnect, TypeOK, ClientType, BarrierType, Transaction, FreshTokens
<1>5. ASSUME NEW c \in Clients, NEW p \in Panes, NEW want \in BOOLEAN,
              TmuxSelect(c, p, want) PROVE FreshTokens'
  BY <1>5, SMTT(30) DEF TmuxSelect, HandleTmuxSelect, Draw, TypeOK, ClientType, BarrierType, Transaction, FreshTokens
<1>6. ASSUME NEW c \in Clients, NEW p \in Panes, HandleFocusPane(c, p) PROVE FreshTokens'
  BY <1>6 DEF HandleFocusPane, FreshTokens
<1>7. ASSUME NEW c \in Clients, NEW p \in Panes, TmuxFetch(c, p) PROVE FreshTokens'
  <2>1. /\ pending' = pending /\ nextTok' = nextTok + 1 /\ nextTok \in Nat
        /\ fetches' = [fetches EXCEPT ![c][p] = nextTok]
    BY <1>7 DEF TmuxFetch, HandleFetchPaneHistory, Draw, TypeOK
  <2>2. ASSUME NEW d \in Clients, NEW q \in Panes
        PROVE  fetches'[d][q] \in {fetches[d][q], nextTok}
    BY <2>1 DEF TypeOK, ClientType
  <2>3. ASSUME NEW d \in Clients, NEW q \in Panes
        PROVE  fetches[d][q] \in Nat /\ pending[d].tok \in Nat
    BY DEF TypeOK, ClientType, BarrierType, Transaction
  <2> QED
    BY <2>1, <2>2, <2>3 DEF FreshTokens
<1>8. ASSUME NEW c \in Clients, NEW S \in SUBSET Panes, HandleSubscribePanes(c, S) PROVE FreshTokens'
  BY <1>8 DEF HandleSubscribePanes, FreshTokens
<1>9. ASSUME NEW c \in Clients, LiveTimerFires(c) PROVE FreshTokens'
  <2>1. fetches' = fetches /\ nextTok' = nextTok /\ nextTok \in Nat \ {0}
    BY <1>9 DEF LiveTimerFires, TypeOK
  <2>2. pending' = pending \/ pending' = [pending EXCEPT ![c] = NoTx]
    BY <1>9 DEF LiveTimerFires, SendLiveResume
  <2>3. NoTx.tok = 0 /\ NoTx.pane = NoPane
    BY DEF NoTx
  <2>4. \A e \in Clients : pending'[e] = pending[e] \/ pending'[e] = NoTx
    BY <2>2 DEF TypeOK, BarrierType
  <2> QED
    BY <2>1, <2>3, <2>4 DEF FreshTokens
<1>10. ASSUME NEW c \in Clients, HistoryTimerFires(c) PROVE FreshTokens'
  <2>1. fetches' = fetches /\ nextTok' = nextTok /\ nextTok \in Nat \ {0}
    BY <1>10 DEF HistoryTimerFires, TypeOK
  <2>2. pending' = pending \/ pending' = [pending EXCEPT ![c] = NoTx]
    BY <1>10 DEF HistoryTimerFires, SendLiveResume
  <2>3. NoTx.tok = 0 /\ NoTx.pane = NoPane
    BY DEF NoTx
  <2>4. \A e \in Clients : pending'[e] = pending[e] \/ pending'[e] = NoTx
    BY <2>2 DEF TypeOK, BarrierType
  <2> QED
    BY <2>1, <2>3, <2>4 DEF FreshTokens
<1>11. ASSUME NEW c \in Clients, Deliver(c) PROVE FreshTokens'
  BY <1>11 DEF Deliver, FreshTokens
<1>12. ASSUME NEW p \in Panes, BroadcastTerminalOutput(p) PROVE FreshTokens'
  BY <1>12 DEF BroadcastTerminalOutput, FreshTokens
<1>13. ASSUME NEW k \in captures, TakeCapture(k) PROVE FreshTokens'
  BY <1>13 DEF TakeCapture, FreshTokens
<1>14. ASSUME NEW k \in captures, BroadcastTerminalHistory(k) PROVE FreshTokens'
  BY <1>14 DEF BroadcastTerminalHistory, TypeOK, ClientType, BarrierType, Transaction, FreshTokens
<1>15. ASSUME NEW k \in captures, DropCapture(k) PROVE FreshTokens'
  <2>1. k.client \in Clients /\ k.pane \in Panes
    BY DEF TypeOK, Capture
  <2>2. /\ fetches' = fetches \/ fetches' = [fetches EXCEPT ![k.client][k.pane] = 0]
        /\ pending' = pending /\ nextTok' = nextTok /\ nextTok \in Nat \ {0}
    BY <1>15 DEF DropCapture, TypeOK
  <2>3. \A c \in Clients, p \in Panes : fetches'[c][p] = fetches[c][p] \/ fetches'[c][p] = 0
    <3>1. fetches \in [Clients -> [Panes -> Nat]]
      BY DEF TypeOK, ClientType
    <3> QED
      BY <2>1, <2>2, <3>1
  <2> QED
    BY <2>2, <2>3 DEF FreshTokens
<1>16. ASSUME BroadcastStateSnapshot PROVE FreshTokens'
  BY <1>16 DEF BroadcastStateSnapshot, FreshTokens
<1>17. ASSUME HandleConnectionClose PROVE FreshTokens'
  BY <1>17 DEF HandleConnectionClose, FreshTokens
<1>18. ASSUME RetryConnection PROVE FreshTokens'
  BY <1>18 DEF RetryConnection, FreshTokens
<1>19. ASSUME GiveUpConnection PROVE FreshTokens'
  BY <1>19 DEF GiveUpConnection, FreshTokens
<1>20. CASE UNCHANGED vars
  BY <1>20 DEF vars, FreshTokens
<1> QED
  BY <1>1, <1>2, <1>3, <1>4, <1>5, <1>6, <1>7, <1>8, <1>9, <1>10, <1>11, <1>12, <1>13, <1>14, <1>15, <1>16, <1>17, <1>18, <1>19, <1>20
     DEF Next, SocketStep, SwitchStep, BarrierStep, RuntimeStep, LossStep

-----------------------------------------------------------------------------
(* Each step, seen by one socket, is a step of the promise.                *)

\* A frame appended to a wire is what the promise calls sending one.
LEMMA AppendSends ==
    ASSUME TypeOK, NEW c \in Clients, NEW m \in Frame, wire'[c] = Append(wire[c], m)
    PROVE  Promise!SendsOne(c) /\ Promise!New(c) = m
<1>1. wire[c] \in Seq(Frame)
  BY DEF TypeOK
<1>2. /\ Len(wire'[c]) = Len(wire[c]) + 1 /\ Len(wire[c]) \in Nat
      /\ \A i \in 1 .. Len(wire[c]) : wire'[c][i] = wire[c][i]
      /\ wire'[c][Len(wire[c]) + 1] = m
  BY <1>1, AppendProperties, LenProperties
<1> QED
  BY <1>2 DEF Promise!SendsOne, Promise!Sends, Promise!New

\* A socket whose switch and wire a step leaves alone is not concerned.
LEMMA Untouched ==
    ASSUME TypeOK, NEW c \in Clients,
           pending'[c] = pending[c], sst'[c] = sst[c], wire'[c] = wire[c]
    PROVE  Promise!Step(c)
BY DEF Promise!Step, Promise!Refocus, Cur

\* A frame about the device's status.
LEMMA TellStep ==
    ASSUME TypeOK, NEW c \in Clients,
           NEW s \in {"CONNECTED", "DISCONNECTED", "RECONNECTING", "RECONNECTED", "LOST"},
           pending'[c] = pending[c], sst'[c] = sst[c], selected'[c] \in {selected[c], NoPane},
           wire'[c] = Append(wire[c], Status(s))
    PROVE  Promise!Step(c)
<1>1. Status(s) \in Frame /\ Status(s).k = s
  BY FrameTypes DEF Status
<1>2. Promise!SendsOne(c) /\ Promise!New(c) = Status(s)
  BY <1>1, AppendSends
<1> QED
  BY <1>1, <1>2 DEF Promise!Step, Promise!Tell, Cur

\* SWITCH_ACK.
LEMMA BeginStep ==
    ASSUME TypeOK, NEW c \in Clients, NEW p \in Panes, NEW want \in BOOLEAN,
           NEW t \in Nat \ {0, pending[c].tok}, HandleTmuxSelect(c, t, p, want)
    PROVE  Promise!Step(c)
<1>1. /\ pending'[c] = [tok |-> t, pane |-> p, want |-> want]
      /\ sst'[c] = "ACKED" /\ selected'[c] = p
      /\ wire'[c] = Append(wire[c], Ack(t, p))
  BY DEF HandleTmuxSelect, Send, TypeOK, ClientType, BarrierType
<1>2. t # 0 /\ pending[c].tok # t /\ pending[c].tok \in Nat
  BY DEF TypeOK, BarrierType, Transaction
<1>3. Promise!SendsOne(c) /\ Promise!New(c) = Ack(t, p)
  BY <1>1, <1>2, FrameTypes, AppendSends
<1>4. Cur'[c] = [tok |-> t, pane |-> p, stage |-> "acked"] /\ Cur[c].tok = pending[c].tok
  BY <1>1, <1>2 DEF Cur
<1> QED
  BY <1>1, <1>2, <1>3, <1>4 DEF Promise!Step, Promise!Begin, Ack

\* Frames appended to a wire.
LEMMA ConcatFrames ==
    ASSUME NEW t \in Seq(Frame), NEW f \in Seq(Frame)
    PROVE  /\ Len(t \o f) = Len(t) + Len(f)
           /\ \A i \in 1 .. Len(t) : (t \o f)[i] = t[i]
           /\ \A i \in Len(t) + 1 .. Len(t \o f) : \E j \in 1 .. Len(f) : (t \o f)[i] = f[j]
<1>1. /\ Len(t \o f) = Len(t) + Len(f)
      /\ \A i \in 1 .. Len(t) + Len(f) : (t \o f)[i] = IF i <= Len(t) THEN t[i] ELSE f[i - Len(t)]
  BY ConcatProperties
<1>2. Len(t) \in Nat /\ Len(f) \in Nat
  BY LenProperties
<1>3. ASSUME NEW i \in Len(t) + 1 .. Len(t \o f) PROVE \E j \in 1 .. Len(f) : (t \o f)[i] = f[j]
  <2>1. i - Len(t) \in 1 .. Len(f) /\ (t \o f)[i] = f[i - Len(t)]
    BY <1>1, <1>2
  <2> QED
    BY <2>1
<1> QED
  BY <1>1, <1>2, <1>3

\* A frame and then more frames appended to a wire.
LEMMA SendThenFlush ==
    ASSUME NEW s \in Seq(Frame), NEW m \in Frame, NEW f \in Seq(Frame)
    PROVE  /\ Len(Append(s, m) \o f) > Len(s)
           /\ \A i \in 1 .. Len(s) : (Append(s, m) \o f)[i] = s[i]
           /\ (Append(s, m) \o f)[Len(s) + 1] = m
           /\ \A i \in Len(s) + 2 .. Len(Append(s, m) \o f) :
                  \E j \in 1 .. Len(f) : (Append(s, m) \o f)[i] = f[j]
<1>1. /\ Append(s, m) \in Seq(Frame) /\ Len(Append(s, m)) = Len(s) + 1
      /\ Append(s, m)[Len(s) + 1] = m /\ \A i \in 1 .. Len(s) : Append(s, m)[i] = s[i]
  BY AppendProperties
<1>2. Len(s) \in Nat /\ Len(f) \in Nat
  BY LenProperties
<1>3. PICK t : t = Append(s, m)
  OBVIOUS
<1>4. /\ t \in Seq(Frame) /\ Len(t) = Len(s) + 1 /\ t[Len(s) + 1] = m
      /\ \A i \in 1 .. Len(s) : t[i] = s[i]
  BY <1>1, <1>3
<1>5. /\ Len(t \o f) = Len(t) + Len(f)
      /\ \A i \in 1 .. Len(t) : (t \o f)[i] = t[i]
      /\ \A i \in Len(t) + 1 .. Len(t \o f) : \E j \in 1 .. Len(f) : (t \o f)[i] = f[j]
  BY <1>4, ConcatFrames
<1>6. /\ Len(t \o f) > Len(s)
      /\ \A i \in 1 .. Len(s) : (t \o f)[i] = s[i]
      /\ (t \o f)[Len(s) + 1] = m
      /\ \A i \in Len(s) + 2 .. Len(t \o f) : \E j \in 1 .. Len(f) : (t \o f)[i] = f[j]
  <2>1. Len(t \o f) > Len(s)
    BY <1>2, <1>4, <1>5
  <2>2. ASSUME NEW i \in 1 .. Len(s) PROVE (t \o f)[i] = s[i]
    <3>1. i \in 1 .. Len(t)
      BY <1>2, <1>4
    <3> QED
      BY <3>1, <1>4, <1>5
  <2>3. (t \o f)[Len(s) + 1] = m
    <3>1. Len(s) + 1 \in 1 .. Len(t)
      BY <1>2, <1>4
    <3> QED
      BY <3>1, <1>4, <1>5
  <2>4. ASSUME NEW i \in Len(s) + 2 .. Len(t \o f)
        PROVE  \E j \in 1 .. Len(f) : (t \o f)[i] = f[j]
    <3>1. i \in Len(t) + 1 .. Len(t \o f)
      BY <1>2, <1>4
    <3> QED
      BY <3>1, <1>5
  <2> QED
    BY <2>1, <2>2, <2>3, <2>4
<1> QED
  BY <1>3, <1>6

\* LIVE_RESUME and the flush.
LEMMA ResumeStep ==
    ASSUME TypeOK, PaneIdle, NEW c \in Clients, SendLiveResume(c),
           pending[c].tok # 0, selected' = selected
    PROVE  Promise!Step(c)
<1> DEFINE tx == pending[c]
           flushed == [i \in 1 .. Len(buffer[c]) |-> Output(tx.pane, buffer[c][i])]
           m == Resumed(tx.tok, tx.pane)
           w == Append(wire[c], m)
<1>1. /\ tx \in Transaction /\ buffer[c] \in Seq(Chunk) /\ wire[c] \in Seq(Frame)
      /\ m \in Frame /\ Len(wire[c]) \in Nat /\ Len(buffer[c]) \in Nat
  BY FrameTypes, LenProperties DEF TypeOK, BarrierType, Transaction
<1>2. flushed \in Seq(Frame) /\ Len(flushed) = Len(buffer[c])
  BY <1>1, FlushType, LenProperties DEF Transaction
<1>3. wire'[c] = w \o flushed
  BY DEF SendLiveResume, TypeOK
<1>4. \A i \in 1 .. Len(flushed) : flushed[i].k = "OUTPUT" /\ flushed[i].pane = tx.pane
  BY <1>2 DEF Output
<1>5. wire[c] \in Seq(Frame) /\ m \in Frame /\ flushed \in Seq(Frame)
      /\ wire'[c] = Append(wire[c], m) \o flushed
  BY <1>1, <1>2, <1>3
<1> HIDE DEF flushed, m
<1>6. /\ Len(wire'[c]) > Len(wire[c])
      /\ \A i \in 1 .. Len(wire[c]) : wire'[c][i] = wire[c][i]
      /\ wire'[c][Len(wire[c]) + 1] = m
      /\ \A i \in Len(wire[c]) + 2 .. Len(wire'[c]) :
             \E j \in 1 .. Len(flushed) : wire'[c][i] = flushed[j]
  <2> DEFINE v == Append(wire[c], m) \o flushed
  <2>1. /\ Len(v) > Len(wire[c])
        /\ \A i \in 1 .. Len(wire[c]) : v[i] = wire[c][i]
        /\ v[Len(wire[c]) + 1] = m
        /\ \A i \in Len(wire[c]) + 2 .. Len(v) : \E j \in 1 .. Len(flushed) : v[i] = flushed[j]
    BY <1>5, SendThenFlush
  <2>2. wire'[c] = v
    BY <1>5
  <2> HIDE DEF v
  <2> QED
    BY <2>1, <2>2
<1>7. Promise!Sends(c) /\ Promise!New(c) = m
  BY <1>6 DEF Promise!Sends, Promise!New
<1>8. \A i \in Len(wire[c]) + 2 .. Len(wire'[c]) :
          wire'[c][i].k = "OUTPUT" /\ wire'[c][i].pane = tx.pane
  BY <1>4, <1>6
<1>9. Cur'[c] = Promise!Idle /\ Cur[c].tok = tx.tok /\ Cur[c].pane = tx.pane
  BY DEF SendLiveResume, NoTx, Cur, Promise!Idle, TypeOK, BarrierType
<1>10. Cur[c] # Promise!Idle
  BY <1>9 DEF Promise!Idle
<1> QED
  BY <1>7, <1>8, <1>9, <1>10 DEF Promise!Step, Promise!Resume, Resumed, m

\* TERM_OUTPUT to the sockets that follow the pane and do not hold it back.
LEMMA OutputStep ==
    ASSUME TypeOK, GateHasTimer, PaneIdle, NEW p \in Panes, BroadcastTerminalOutput(p),
           NEW c \in Clients
    PROVE  Promise!Step(c)
<1> DEFINE o == [src |-> p, n |-> emitted[p] + 1]
           sent == c \in attached /\ up /\ Follows(c, p) /\ ~HeldBack(c, p)
<1>1. UNCHANGED <<pending, sst, selected>>
  BY DEF BroadcastTerminalOutput, client
<1>2. CASE ~sent
  BY <1>1, <1>2, Untouched DEF BroadcastTerminalOutput
<1>3. CASE sent
  <2>1. o \in Chunk /\ Output(p, o) \in Frame
    BY FrameTypes DEF TypeOK, Chunk
  <2>2. wire'[c] = Append(wire[c], Output(p, o))
    BY <1>3 DEF BroadcastTerminalOutput
  <2>3. Promise!SendsOne(c) /\ Promise!New(c) = Output(p, o)
    BY <2>1, <2>2, AppendSends
  <2>4. selected[c] = p => Cur[c] = Promise!Idle
    BY <1>3 DEF HeldBack, TypeOK, BarrierType, Transaction, GateHasTimer, GateOK, PaneIdle,
                Cur, Promise!Idle
  <2> QED
    BY <1>1, <2>3, <2>4 DEF Promise!Step, Promise!Live, Output, Cur
<1> QED
  BY <1>2, <1>3

\* TERM_HISTORY: into the open switch, or to a fetch.
LEMMA HistoryStep ==
    ASSUME TypeOK, GateHasTimer, FetchesApart, NEW k \in captures, BroadcastTerminalHistory(k),
           NEW c \in Clients
    PROVE  Promise!Step(c)
<1> DEFINE toBarrier == c \in attached /\ selected[c] = k.pane /\ TakesHistory(c, k.pane)
           toFetch == c \in attached /\ selected[c] # k.pane /\ fetches[c][k.pane] # 0
<1>1. /\ UNCHANGED <<pending, selected>>
      /\ k \in Capture /\ k.pane \in Panes /\ k.upTo >= 0
  BY DEF BroadcastTerminalHistory, TypeOK, Capture
<1>2. CASE toBarrier
  <2>1. /\ pending[c].tok # 0 /\ pending[c].tok \in Nat /\ pending[c].pane = k.pane
        /\ sst[c] = "ACKED" /\ sst'[c] = "HISTORY_APPLIED"
    BY <1>2 DEF BroadcastTerminalHistory, TakesHistory, TypeOK, BarrierType, Transaction
  <2>2. wire'[c] = Append(wire[c], History(pending[c].tok, k))
    BY <1>2 DEF BroadcastTerminalHistory
  <2>3. Promise!SendsOne(c) /\ Promise!New(c) = History(pending[c].tok, k)
    BY <1>1, <2>1, <2>2, FrameTypes, AppendSends
  <2>4. /\ Cur[c] = [tok |-> pending[c].tok, pane |-> k.pane, stage |-> "acked"]
        /\ Cur'[c] = [tok |-> pending[c].tok, pane |-> k.pane, stage |-> "history"]
    BY <1>1, <2>1 DEF Cur
  <2> QED
    BY <1>1, <2>3, <2>4 DEF Promise!Step, Promise!Fill, History
<1>3. CASE ~toBarrier /\ toFetch
  <2>1. /\ fetches[c][k.pane] \in Nat /\ fetches[c][k.pane] # pending[c].tok
    BY <1>1, <1>3 DEF TypeOK, ClientType, FetchesApart
  <2>2. wire'[c] = Append(wire[c], History(fetches[c][k.pane], k)) /\ sst'[c] = sst[c]
    BY <1>3 DEF BroadcastTerminalHistory
  <2>3. Promise!SendsOne(c) /\ Promise!New(c) = History(fetches[c][k.pane], k)
    BY <1>1, <2>1, <2>2, FrameTypes, AppendSends
  <2>4. Cur'[c] = Cur[c] /\ Cur[c].tok = pending[c].tok
    BY <1>1, <2>2 DEF Cur
  <2> QED
    BY <1>1, <2>1, <2>3, <2>4 DEF Promise!Step, Promise!Reply, History
<1>4. CASE ~toBarrier /\ ~toFetch
  BY <1>1, <1>4, Untouched DEF BroadcastTerminalHistory
<1> QED
  BY <1>2, <1>3, <1>4

LEMMA InitPromise == Init => Promise!Init
BY DEF Init, Fresh, NoTx, Cur, Promise!Init, Promise!Idle

LEMMA AfreshPromise == IInv /\ PaneIdle /\ FetchesApart /\ AfreshNext => Promise!Next
<1> SUFFICES ASSUME TypeOK, GateHasTimer, PaneIdle, FetchesApart, AfreshNext, NEW d \in Clients
             PROVE  Promise!Step(d)
  BY DEF IInv, Promise!Next
<1> USE DEF entry, client, barrier, history
<1>1. ASSUME NEW c \in Clients, HandleOpen(c) PROVE Promise!Step(d)
  BY <1>1, Untouched DEF HandleOpen
<1>2. ASSUME NEW c \in Clients, HandleClose(c) PROVE Promise!Step(d)
  BY <1>2 DEF HandleClose, ForgetBarrier, NoTx, Cur, Promise!Step, Promise!Close, Promise!Refocus, Promise!Idle, TypeOK, ClientType, BarrierType
<1>3. ASSUME NEW c \in Clients, HandleDeviceConnect(c) PROVE Promise!Step(d)
  BY <1>3, Untouched, TellStep DEF HandleDeviceConnect, Send, TypeOK
<1>4. ASSUME NEW c \in Clients, HandleDeviceDisconnect(c) PROVE Promise!Step(d)
  BY <1>4, Untouched, TellStep DEF HandleDeviceDisconnect, Send, TypeOK, ClientType
<1>5. ASSUME NEW c \in Clients, SelectsOf(c, Nat \ {0, pending[c].tok}) PROVE Promise!Step(d)
  <2>1. PICK p \in Panes, t \in Nat \ {0, pending[c].tok}, want \in BOOLEAN : HandleTmuxSelect(c, t, p, want)
    BY <1>5 DEF SelectsOf
  <2>2. CASE d = c
    BY <2>1, <2>2, BeginStep
  <2>3. CASE d # c
    BY <2>1, <2>3, Untouched DEF HandleTmuxSelect, Send, TypeOK, BarrierType
  <2> QED
    BY <2>2, <2>3
<1>6. ASSUME NEW c \in Clients, NEW p \in Panes, HandleFocusPane(c, p) PROVE Promise!Step(d)
  BY <1>6, Untouched DEF HandleFocusPane
<1>7. ASSUME NEW c \in Clients, NEW p \in Panes, NEW t \in Nat \ {0}, HandleFetchPaneHistory(c, t, p)
      PROVE  Promise!Step(d)
  BY <1>7, Untouched DEF HandleFetchPaneHistory
<1>8. ASSUME NEW c \in Clients, NEW S \in SUBSET Panes, HandleSubscribePanes(c, S) PROVE Promise!Step(d)
  BY <1>8, Untouched DEF HandleSubscribePanes
<1>9. ASSUME NEW c \in Clients, LiveTimerFires(c) PROVE Promise!Step(d)
  <2>1. pending[c].tok # 0 /\ MayResume(c, Head(timers[c]).tok)
    BY <1>9 DEF LiveTimerFires, MayResume, GateHasTimer, GateOK, TypeOK, BarrierType
  <2>2. SendLiveResume(c) /\ selected' = selected
    BY <1>9, <2>1 DEF LiveTimerFires
  <2>3. CASE d = c
    BY <2>1, <2>2, <2>3, ResumeStep
  <2>4. CASE d # c
    BY <2>2, <2>4, Untouched DEF SendLiveResume, TypeOK, BarrierType
  <2> QED
    BY <2>3, <2>4
<1>10. ASSUME NEW c \in Clients, HistoryTimerFires(c) PROVE Promise!Step(d)
  <2>1. pending[c].tok # 0 /\ MayResume(c, Head(timers[c]).tok)
    BY <1>10 DEF HistoryTimerFires, MayResume, GateHasTimer, GateOK, TypeOK, BarrierType
  <2>2. SendLiveResume(c) /\ selected' = selected
    BY <1>10, <2>1 DEF HistoryTimerFires
  <2>3. CASE d = c
    BY <2>1, <2>2, <2>3, ResumeStep
  <2>4. CASE d # c
    BY <2>2, <2>4, Untouched DEF SendLiveResume, TypeOK, BarrierType
  <2> QED
    BY <2>3, <2>4
<1>11. ASSUME NEW c \in Clients, Takes(c) PROVE Promise!Step(d)
  BY <1>11, Untouched DEF Takes, Cur, Promise!Step, Promise!Read, TypeOK
<1>12. ASSUME NEW p \in Panes, BroadcastTerminalOutput(p) PROVE Promise!Step(d)
  BY <1>12, OutputStep
<1>13. ASSUME NEW k \in captures, TakeCapture(k) PROVE Promise!Step(d)
  BY <1>13, Untouched DEF TakeCapture
<1>14. ASSUME NEW k \in captures, BroadcastTerminalHistory(k) PROVE Promise!Step(d)
  BY <1>14, HistoryStep
<1>15. ASSUME NEW k \in captures, DropCapture(k) PROVE Promise!Step(d)
  BY <1>15, Untouched DEF DropCapture
<1>16. ASSUME BroadcastStateSnapshot PROVE Promise!Step(d)
  BY <1>16, Untouched DEF BroadcastStateSnapshot
<1>17. ASSUME HandleConnectionClose PROVE Promise!Step(d)
  BY <1>17, Untouched, TellStep DEF HandleConnectionClose
<1>18. ASSUME RetryConnection PROVE Promise!Step(d)
  BY <1>18, Untouched, TellStep DEF RetryConnection
<1>19. ASSUME GiveUpConnection PROVE Promise!Step(d)
  BY <1>19, Untouched, TellStep DEF GiveUpConnection, TypeOK, ClientType
<1>20. CASE Idles
  BY <1>20, Untouched DEF Idles
<1> QED
  BY <1>1, <1>2, <1>3, <1>4, <1>5, <1>6, <1>7, <1>8, <1>9, <1>10, <1>11, <1>12, <1>13, <1>14, <1>15, <1>16, <1>17, <1>18, <1>19, <1>20
     DEF AfreshNext, BesideNext, ActsBeside, SocketStep, BarrierStep, RuntimeStep, LossStep

LEMMA NextPromise == IInv /\ FreshTokens /\ [Next]_vars => [Promise!Next]_Promise!vars
BY NextIsAfreshNext, FreshIsApart, AfreshPromise DEF IInv

\* The gateway's barrier implements the switch protocol of SwitchPromise:
\* whatever the timers, the captures, the fetches, the other sockets and the
\* device do, a socket sees SWITCH_ACK, at most one TERM_HISTORY, LIVE_RESUME
\* and the held-back output, in this order, and no live output of its focused
\* pane in between.
THEOREM BarrierKeepsPromise == Spec => KeepsPromise
<1>1. Init => Promise!Init
  BY InitPromise
<1> QED
  BY <1>1, InitIInv, NextIInv, InitFreshTokens, NextFreshTokens, NextPromise, PTL
     DEF Spec, KeepsPromise, Promise!Spec
=============================================================================

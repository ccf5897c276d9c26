-------------------------- MODULE SelectStateMachine --------------------------
(***************************************************************************)
(* The browser's half of a pane switch, for one device: the select         *)
(* transaction and its output gate (fe ws-borsh/state-machine.ts), and the *)
(* per-pane history gates through which the machine and the store write to *)
(* the terminals (fe ws-borsh/pane-sink-registry.ts).                      *)
(*                                                                         *)
(* A browser is a member c of Clients.  The operators are the handlers;    *)
(* PaneSwitch calls them with what the user does and what the gateway      *)
(* sends.  A terminal is the list of what has been written to it since it  *)
(* was last reset; a terminal not mounted yet, for which the registry      *)
(* keeps the same list, is not told from one that is.                      *)
(***************************************************************************)
EXTENDS Integers, Sequences

CONSTANTS Clients, Panes, NoPane,
          MaxBuffer   \* capacity of either gate (1000 in the code)

VARIABLES
    tx,            \* transactions: [tok, pane, state]; tok = 0: none
    timer,         \* the stage the transaction's timer waits for, or "none"
    held,          \* the output gate: on iff the map has an entry, its buffer
    historyGates,  \* per pane: [tok, buf]; tok = 0: no gate
    screen         \* per pane: what its terminal shows

machine == <<tx, timer, held>>
sinks   == <<historyGates, screen>>

NoTransaction == [tok |-> 0, pane |-> NoPane, state |-> "STABLE"]
NoGate        == [tok |-> 0, buf |-> <<>>]
Flowing       == [on |-> FALSE, buf |-> <<>>]

\* What is written to a terminal: a live output, or a history up to the n-th.
Live(o)    == [k |-> "output", src |-> o.src, n |-> o.n]
Past(p, n) == [k |-> "history", src |-> p, n |-> n]

Init == /\ tx = [c \in Clients |-> NoTransaction]
        /\ timer = [c \in Clients |-> "none"]
        /\ held = [c \in Clients |-> Flowing]
        /\ historyGates = [c \in Clients |-> [p \in Panes |-> NoGate]]
        /\ screen = [c \in Clients |-> [p \in Panes |-> <<>>]]
-----------------------------------------------------------------------------
\* Both gates drop their oldest items beyond their capacity.
Latest(b) == IF Len(b) > MaxBuffer THEN SubSeq(b, Len(b) - MaxBuffer + 1, Len(b)) ELSE b

Write(c, p, ws) == screen' = [screen EXCEPT ![c][p] = @ \o ws]

\* dispatchPaneOutput for each item of b: a history gate holds them back.
DispatchPaneOutput(c, p, b) ==
    IF historyGates[c][p].tok # 0
    THEN /\ historyGates' = [historyGates EXCEPT ![c][p].buf = Latest(@ \o b)]
         /\ UNCHANGED screen
    ELSE Write(c, p, b) /\ UNCHANGED historyGates

\* The older gate's output is shown, and kept.
BeginPaneHistoryGateBug(c, p, t) ==
    /\ Write(c, p, historyGates[c][p].buf)
    /\ historyGates' = [historyGates EXCEPT ![c][p].tok = t]

\* beginPaneHistoryGate: an older gate of the pane is closed, its output shown.
BeginPaneHistoryGate(c, p, t) ==
    /\ Write(c, p, historyGates[c][p].buf)
    /\ historyGates' = [historyGates EXCEPT ![c][p] = [tok |-> t, buf |-> <<>>]]

\* The history has not come within 3000 ms: the gate's output is shown.
HistoryGateTimeout(c, p) ==
    /\ historyGates[c][p].tok # 0
    /\ Write(c, p, historyGates[c][p].buf)
    /\ historyGates' = [historyGates EXCEPT ![c][p] = NoGate]

\* dispatchPaneHistory under the gate's token: the terminal is reset, and shows
\* the history and then what the gate held back.
DispatchPaneHistory(c, p, n) ==
    /\ screen' = [screen EXCEPT ![c][p] = <<Past(p, n)>> \o historyGates[c][p].buf]
    /\ historyGates' = [historyGates EXCEPT ![c][p] = NoGate]

\* The device's history gates are closed and what they held is forgotten.
CleanupDevicePaneState(c) ==
    /\ historyGates' = [historyGates EXCEPT ![c] = [p \in Panes |-> NoGate]]
    /\ UNCHANGED screen
-----------------------------------------------------------------------------
\* The transaction of c ends and what it held back is forgotten.
EndTransaction(c) ==
    /\ tx' = [tx EXCEPT ![c] = NoTransaction]
    /\ timer' = [timer EXCEPT ![c] = "none"]
    /\ held' = [held EXCEPT ![c] = Flowing]

\* handleSelectStart: a transaction that is still open is cancelled.
SelectStart(c, t, p) ==
    /\ tx' = [tx EXCEPT ![c] = [tok |-> t, pane |-> p, state |-> "SELECTING"]]
    /\ timer' = [timer EXCEPT ![c] = "ack"]
    /\ held' = [held EXCEPT ![c] = [on |-> TRUE, buf |-> <<>>]]
    /\ UNCHANGED sinks

\* The frame's token is the open transaction's and its state expects the frame.
Awaits(c, t, states) == t # 0 /\ tx[c].tok = t /\ tx[c].state \in states
TakesAck(c, t)     == Awaits(c, t, {"SELECTING"})
TakesHistory(c, t) == Awaits(c, t, {"ACKED"})
TakesResumeBug(c, t) == Awaits(c, t, {"HISTORY_APPLIED"})   \* not without a history
TakesResume(c, t)  == Awaits(c, t, {"ACKED", "HISTORY_APPLIED"})

\* handleSwitchAck: the terminal is reset.
SwitchAck(c, t) ==
    \/ /\ TakesAck(c, t)
       /\ tx' = [tx EXCEPT ![c].state = "ACKED"]
       /\ timer' = [timer EXCEPT ![c] = "live"]
       /\ screen' = [screen EXCEPT ![c][tx[c].pane] = <<>>]
       /\ UNCHANGED <<held, historyGates>>
    \/ ~TakesAck(c, t) /\ UNCHANGED <<machine, sinks>>

\* An open gate of the pane swallows every history but its own.
ForTransactionBug(c, t, p) == historyGates[c][p].tok = 0 /\ TakesHistory(c, t)

\* The history is not the pane's gate's, and the open transaction awaits it.
ForTransaction(c, t, p) == historyGates[c][p].tok # t /\ TakesHistory(c, t)

\* KIND_TERM_HISTORY: for the pane's history gate if it bears the gate's token,
\* else handleHistory, which writes it past the gate.
TermHistory(c, t, p, n) ==
    \/ /\ historyGates[c][p].tok = t
       /\ DispatchPaneHistory(c, p, n)
       /\ UNCHANGED machine
    \/ /\ ForTransaction(c, t, p)
       /\ tx' = [tx EXCEPT ![c].state = "HISTORY_APPLIED"]
       /\ timer' = [timer EXCEPT ![c] = "live"]
       /\ Write(c, tx[c].pane, <<Past(p, n)>>)
       /\ UNCHANGED <<held, historyGates>>
    \/ /\ historyGates[c][p].tok # t /\ ~ForTransaction(c, t, p)
       /\ UNCHANGED <<machine, sinks>>

\* handleLiveResume: the gate opens, and what it held back is shown.
LiveResume(c, t) ==
    \/ /\ TakesResume(c, t)
       /\ EndTransaction(c)
       /\ DispatchPaneOutput(c, tx[c].pane, held[c].buf)
    \/ ~TakesResume(c, t) /\ UNCHANGED <<machine, sinks>>

\* Every pane's output is held back.
HoldsBackBug(c, p) == held[c].on

\* handleOutput holds the output of p back.
HoldsBack(c, p) == held[c].on /\ (tx[c].tok = 0 \/ tx[c].pane = p)

\* handleOutput: held back, or shown.
TermOutput(c, p, o) ==
    \/ /\ HoldsBack(c, p)
       /\ held' = [held EXCEPT ![c].buf = Latest(Append(@, Live(o)))]
       /\ UNCHANGED <<tx, timer, sinks>>
    \/ /\ ~HoldsBack(c, p)
       /\ DispatchPaneOutput(c, p, <<Live(o)>>)
       /\ UNCHANGED machine

\* The gate is left closed.
TimeoutBug(c) ==
    /\ timer[c] # "none"
    /\ tx' = [tx EXCEPT ![c] = NoTransaction]
    /\ timer' = [timer EXCEPT ![c] = "none"]
    /\ UNCHANGED <<held, sinks>>

\* handleTimeout: no ACK within 1500 ms, or no LIVE_RESUME within 2000 ms.
Timeout(c) == timer[c] # "none" /\ EndTransaction(c) /\ UNCHANGED sinks

\* cleanup: the transaction is cancelled.
Cleanup(c) == EndTransaction(c)
-----------------------------------------------------------------------------
Item == [k : {"output", "history"}, src : Panes, n : Nat]
TypeOK ==
    /\ tx \in [Clients -> [tok : Nat, pane : Panes \cup {NoPane},
                           state : {"STABLE", "SELECTING", "ACKED", "HISTORY_APPLIED"}]]
    /\ timer \in [Clients -> {"none", "ack", "live"}]
    /\ held \in [Clients -> [on : BOOLEAN, buf : Seq(Item)]]
    /\ historyGates \in [Clients -> [Panes -> [tok : Nat, buf : Seq(Item)]]]
    /\ screen \in [Clients -> [Panes -> Seq(Item)]]

\* The browser's gate never sticks: it is on exactly while a transaction is open,
\* and then the timer of the stage the transaction is in is armed.
MachineOK ==
    \A c \in Clients :
        /\ held[c].on <=> tx[c].tok # 0
        /\ tx[c].tok = 0 => timer[c] = "none" /\ held[c].buf = <<>> /\ tx[c].state = "STABLE"
        /\ tx[c].tok # 0 => timer[c] = IF tx[c].state = "SELECTING" THEN "ack" ELSE "live"
=============================================================================

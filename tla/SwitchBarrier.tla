---------------------------- MODULE SwitchBarrier ----------------------------
(***************************************************************************)
(* The gateway's pane-switch barrier for one device: ws/index.ts (the      *)
(* handlers of a browser socket and the broadcasts of the tmux runtime),   *)
(* ws/borsh/switch-barrier.ts (the transactions and their timers) and      *)
(* ws/borsh/session-state.ts (select state and output gate).  All of that  *)
(* state is keyed by (socket, device), so one device is enough; the        *)
(* sockets share the device's runtime, its output and its captures.        *)
(*                                                                         *)
(* A JavaScript handler runs to completion, so an action is a whole        *)
(* handler; what may interleave are the handlers, the timers, and the      *)
(* three steps of a history capture, which runs in external tmux commands. *)
(*                                                                         *)
(* Pane output is abstracted to (pane, index): the n-th output of a pane.  *)
(* A capture of a pane is abstracted to the number of outputs it contains. *)
(***************************************************************************)
EXTENDS Integers, Sequences

CONSTANTS Clients,    \* the browser sockets
          Panes,      \* the panes of the device
          NoPane,     \* "no pane"
          MaxBuffer,  \* capacity of an output gate (1000 in the code)
          MaxToken,   \* bound: tokens the clients ever generate
          MaxOut      \* bound: outputs a pane ever produces

ASSUME NoPaneAssumption == NoPane \notin Panes
ASSUME BoundsAssumption ==
    /\ MaxBuffer \in Nat \ {0}
    /\ MaxToken \in Nat
    /\ MaxOut \in Nat

VARIABLES
    open,        \* sockets with a session state (handleOpen .. handleClose)
    attached,    \* entry.clients; the device has an entry iff it is not empty
    up,          \* entry.runtime is alive and subscribed to
    known,       \* panes of entry.lastSnapshot
    selected,    \* borshState.selectedPanes[deviceId]
    subscribed,  \* borshState.subscribedPanes[deviceId]
    fetches,     \* borshState.pendingHistoryFetches: a token per pane, or 0
    pending,     \* the pending transaction: [tok, pane, want]; tok = 0: none
    sst,         \* state of the select transaction
    timers,      \* pending.timers: the armed timers, in order
    gate,        \* state of the output gate
    buffer,      \* buffer of the output gate: [src, n] records
    captures,    \* history captures in progress
    emitted,     \* emitted[p]: outputs pane p has produced
    wire,        \* frames sent to a socket and not yet read by it
    nextTok,     \* the next token a client draws (random 16 bytes: never twice)
    base,        \* history: emitted[pane] when the open switch began, -1 when
                 \*   the socket has missed output of that pane since
    mixed        \* history: the focus moved while a switch was open

client  == <<selected, subscribed, fetches>>
barrier == <<pending, sst, timers, gate, buffer>>
history == <<base, mixed>>
entry   == <<attached, up, known>>
vars == <<open, entry, client, barrier, captures, emitted, wire, nextTok, history>>
-----------------------------------------------------------------------------
NoTx     == [tok |-> 0, pane |-> NoPane, want |-> FALSE]
Tokens   == 1 .. MaxToken
Transaction == [tok : Nat, pane : Panes \cup {NoPane}, want : BOOLEAN]
\* SELECTING and LIVE are passed through inside one handler; SELECT_FAILED needs
\* the ACK timer, which the handler that arms it clears.
States   == {"STABLE", "ACKED", "HISTORY_APPLIED"}
Timer    == [kind : {"history", "live"}, tok : Nat]
Chunk    == [src : Panes, n : Nat]
Capture  == [client : Clients, tok : Nat, pane : Panes, fetch : BOOLEAN, upTo : Int]
FrameKinds == {"ACK", "HISTORY", "RESUME", "OUTPUT",
               "CONNECTED", "DISCONNECTED", "RECONNECTING", "RECONNECTED", "LOST"}
Frame    == [k : FrameKinds, tok : Nat, pane : Panes \cup {NoPane},
             src : Panes \cup {NoPane}, n : Nat, of : Nat]

\* Frames.  `src' is the pane the bytes come from, `of' the switch whose capture
\* a history is (its own token if a fetch made it).  Neither is in the frame;
\* they are what the properties compare with what the frame says.
Ack(t, p)     == [k |-> "ACK", tok |-> t, pane |-> p, src |-> p, n |-> 0, of |-> t]
Resumed(t, p) == [k |-> "RESUME", tok |-> t, pane |-> p, src |-> p, n |-> 0, of |-> t]
History(t, k) == [k |-> "HISTORY", tok |-> t, pane |-> k.pane, src |-> k.pane,
                  n |-> k.upTo, of |-> IF k.fetch THEN t ELSE k.tok]
Output(p, o)  == [k |-> "OUTPUT", tok |-> 0, pane |-> p, src |-> o.src, n |-> o.n, of |-> 0]
Status(s)     == [k |-> s, tok |-> 0, pane |-> NoPane, src |-> NoPane, n |-> 0, of |-> 0]
-----------------------------------------------------------------------------
\* Operators named ...Bug are plausible mistakes in the operator that follows
\* them; no action uses them.

\* A full buffer refuses the newest item instead.
PushBoundedBug(b, o) == IF Len(b) >= MaxBuffer THEN b ELSE Append(b, o)

\* The output gate's buffer drops its oldest item when it is full.
PushBounded(b, o) == Append(IF Len(b) >= MaxBuffer THEN Tail(b) ELSE b, o)

\* The timer sendSwitchAck arms: the wait for the history, or, when none was
\* asked for, the delay before LIVE_RESUME.
TimerAfterAck(t, want) == [kind |-> IF want THEN "history" ELSE "live", tok |-> t]

\* The wait for the history stays armed.
KeptTimerBug(ts, t) == Append(ts, [kind |-> "live", tok |-> t])

\* The delay before LIVE_RESUME is not armed.
NoDelayBug(ts, t) == Tail(ts)

\* sendTermHistory clears the first timer of the transaction, whichever it is,
\* and arms the delay before LIVE_RESUME.
TimersAfterHistory(ts, t) == Append(Tail(ts), [kind |-> "live", tok |-> t])

\* A second capture of the pane goes ahead too.
TakesHistoryAgainBug(c, p) == pending[c].tok # 0 /\ pending[c].pane = p

\* sendTermHistory goes ahead: the first capture of the transaction's pane.
TakesHistory(c, p) ==
    /\ pending[c].tok # 0
    /\ sst[c] = "ACKED"
    /\ pending[c].pane = p

\* sendLiveResume goes ahead for the timer of token t.
MayResume(c, t) ==
    /\ pending[c].tok # 0
    /\ sst[c] \in {"ACKED", "HISTORY_APPLIED"}
    /\ pending[c].tok = t

\* A socket follows pane p: it is focused on it or subscribed to it.
Follows(c, p) == selected[c] = p \/ p \in subscribed[c]

\* Output flows again once the history is sent.
FlowsAfterHistoryBug(c, p) == selected[c] = p /\ sst[c] = "ACKED"

\* Output of p is held back from c: only the focused pane takes part.
HeldBack(c, p) == selected[c] = p /\ gate[c] = "BUFFERING"

\* A history capture the runtime starts; it needs a live runtime.
StartCapture(c, t, p, isFetch) ==
    captures' = IF up
                THEN captures \cup {[client |-> c, tok |-> t, pane |-> p,
                                     fetch |-> isFetch, upTo |-> -1]}
                ELSE captures

\* The device's entry keeps the sockets S; without sockets it is released and
\* deleted, and what its runtime still answers reaches nobody.
KeepEntryFor(S) ==
    /\ attached' = S
    /\ IF S = {}
       THEN up' = TRUE /\ known' = {} /\ captures' = {}
       ELSE UNCHANGED <<up, known, captures>>

\* The barrier of c is reset as by cancelTransaction and the loss of its state.
ForgetBarrier(c) ==
    /\ pending' = [pending EXCEPT ![c] = NoTx]
    /\ sst' = [sst EXCEPT ![c] = "STABLE"]
    /\ timers' = [timers EXCEPT ![c] = <<>>]
    /\ gate' = [gate EXCEPT ![c] = "FLOWING"]
    /\ buffer' = [buffer EXCEPT ![c] = <<>>]

Send(c, m) == wire' = [wire EXCEPT ![c] = Append(@, m)]

\* A focus that moves to p while a switch to another pane is open.
MovedOff(c, p) == pending[c].tok # 0 /\ p # pending[c].pane
-----------------------------------------------------------------------------
\* Nothing is selected, followed, pending or sent.
Fresh ==
    /\ selected = [c \in Clients |-> NoPane]
    /\ subscribed = [c \in Clients |-> {}]
    /\ fetches = [c \in Clients |-> [p \in Panes |-> 0]]
    /\ pending = [c \in Clients |-> NoTx]
    /\ sst = [c \in Clients |-> "STABLE"]
    /\ timers = [c \in Clients |-> <<>>]
    /\ gate = [c \in Clients |-> "FLOWING"]
    /\ buffer = [c \in Clients |-> <<>>]
    /\ captures = {}
    /\ emitted = [p \in Panes |-> 0]
    /\ wire = [c \in Clients |-> <<>>]
    /\ nextTok = 1
    /\ base = [c \in Clients |-> -1]
    /\ mixed = [c \in Clients |-> FALSE]

Init == /\ open = {} /\ attached = {} /\ up = TRUE /\ known = {}
        /\ Fresh

\* A socket opens.
HandleOpen(c) ==
    /\ c \notin open
    /\ open' = open \cup {c}
    /\ UNCHANGED <<entry, client, barrier, captures, emitted, wire, nextTok, history>>

\* The closed socket stays in the device's entry.
HandleCloseBug(c) ==
    /\ c \in open
    /\ open' = open \ {c}
    /\ ForgetBarrier(c)
    /\ UNCHANGED <<entry, client, captures, emitted, wire, nextTok, history>>

\* A socket closes: its transactions are cancelled, its session state deleted
\* and its place in the entry given up.
HandleClose(c) ==
    /\ c \in open
    /\ open' = open \ {c}
    /\ ForgetBarrier(c)
    /\ selected' = [selected EXCEPT ![c] = NoPane]
    /\ subscribed' = [subscribed EXCEPT ![c] = {}]
    /\ fetches' = [fetches EXCEPT ![c] = [p \in Panes |-> 0]]
    /\ KeepEntryFor(attached \ {c})
    /\ wire' = [wire EXCEPT ![c] = <<>>]
    /\ base' = [base EXCEPT ![c] = -1]
    /\ mixed' = [mixed EXCEPT ![c] = FALSE]
    /\ UNCHANGED <<emitted, nextTok>>

\* DEVICE_CONNECT: the socket joins the device's entry.  A new entry starts
\* without a snapshot.
HandleDeviceConnect(c) ==
    /\ c \in open
    /\ attached' = attached \cup {c}
    /\ Send(c, Status("CONNECTED"))
    /\ UNCHANGED <<open, up, known, client, barrier, captures, emitted, nextTok, history>>

\* DEVICE_DISCONNECT: the socket leaves the entry.  The barrier is not told.
HandleDeviceDisconnect(c) ==
    /\ c \in open
    /\ KeepEntryFor(attached \ {c})
    /\ selected' = [selected EXCEPT ![c] = NoPane]
    /\ subscribed' = [subscribed EXCEPT ![c] = {}]
    /\ fetches' = [fetches EXCEPT ![c] = [p \in Panes |-> 0]]
    /\ Send(c, Status("DISCONNECTED"))
    /\ base' = [base EXCEPT ![c] = -1]
    /\ mixed' = [mixed EXCEPT ![c] = @ \/ MovedOff(c, NoPane)]
    /\ UNCHANGED <<open, barrier, emitted, nextTok>>

\* TMUX_SELECT: canSelectPane, startTransaction (which cancels the previous
\* transaction and drops its buffer), sendSwitchAck, runtime.selectPane.
HandleTmuxSelect(c, t, p, want) ==
    /\ c \in open /\ attached # {} /\ p \in known
    /\ pending' = [pending EXCEPT ![c] = [tok |-> t, pane |-> p, want |-> want]]
    /\ sst' = [sst EXCEPT ![c] = "ACKED"]
    /\ timers' = [timers EXCEPT ![c] = <<TimerAfterAck(t, want)>>]
    /\ gate' = [gate EXCEPT ![c] = "BUFFERING"]
    /\ buffer' = [buffer EXCEPT ![c] = <<>>]
    /\ selected' = [selected EXCEPT ![c] = p]
    /\ Send(c, Ack(t, p))
    /\ StartCapture(c, t, p, FALSE)
    /\ base' = [base EXCEPT ![c] = IF up /\ c \in attached THEN emitted[p] ELSE -1]
    /\ UNCHANGED <<open, entry, subscribed, fetches, emitted, mixed>>

\* A select the gateway ignores: no entry, or a pane no snapshot has shown.
IgnoresSelect(c, p) == c \in open /\ (attached = {} \/ p \notin known)

\* TMUX_FOCUS_PANE: the focus moves; the barrier is not told.
HandleFocusPane(c, p) ==
    /\ c \in open /\ attached # {} /\ p \in known
    /\ selected' = [selected EXCEPT ![c] = p]
    /\ base' = [base EXCEPT ![c] = IF MovedOff(c, p) THEN -1 ELSE @]
    /\ mixed' = [mixed EXCEPT ![c] = @ \/ MovedOff(c, p)]
    /\ UNCHANGED <<open, entry, subscribed, fetches, barrier, captures, emitted, wire, nextTok>>

\* TMUX_SUBSCRIBE_PANES: the whole set is declared anew.
HandleSubscribePanes(c, S) ==
    /\ c \in open /\ attached # {}
    /\ subscribed' = [subscribed EXCEPT ![c] = S \cap known]
    /\ UNCHANGED <<open, entry, selected, fetches, barrier, captures, emitted, wire,
                   nextTok, history>>

\* TMUX_FETCH_PANE_HISTORY under request token t.
HandleFetchPaneHistory(c, t, p) ==
    /\ c \in open /\ attached # {}
    /\ fetches' = [fetches EXCEPT ![c][p] = t]
    /\ StartCapture(c, t, p, TRUE)
    /\ UNCHANGED <<open, entry, selected, subscribed, barrier, emitted, wire, history>>
-----------------------------------------------------------------------------
\* The runtime delivers the next output of pane p to every socket that follows
\* it.  While the runtime is gone the pane runs on unheard.
BroadcastTerminalOutput(p) ==
    LET o == [src |-> p, n |-> emitted[p] + 1]
        Hears(c) == c \in attached /\ up /\ Follows(c, p)
    IN
    /\ emitted[p] < MaxOut
    /\ emitted' = [emitted EXCEPT ![p] = @ + 1]
    /\ buffer' = [c \in Clients |-> IF Hears(c) /\ HeldBack(c, p)
                                    THEN PushBounded(buffer[c], o) ELSE buffer[c]]
    /\ wire' = [c \in Clients |-> IF Hears(c) /\ ~HeldBack(c, p)
                                  THEN Append(wire[c], Output(p, o)) ELSE wire[c]]
    /\ UNCHANGED <<open, entry, client, pending, sst, timers, gate, captures, nextTok, history>>

\* tmux takes the capture.
TakeCapture(k) ==
    /\ k \in captures /\ k.upTo = -1
    /\ captures' = (captures \ {k}) \cup {[k EXCEPT !.upTo = emitted[k.pane]]}
    /\ UNCHANGED <<open, entry, client, barrier, emitted, wire, nextTok, history>>

\* The capture reaches the gateway, which offers it to every socket of the
\* device: to the barrier of those focused on the pane, under the fetch token
\* of those that asked for it.
BroadcastTerminalHistory(k) ==
    LET ToBarrier(c) == c \in attached /\ selected[c] = k.pane /\ TakesHistory(c, k.pane)
        ToFetch(c)   == c \in attached /\ selected[c] # k.pane /\ fetches[c][k.pane] # 0
    IN
    /\ k \in captures /\ k.upTo >= 0
    /\ captures' = captures \ {k}
    /\ sst' = [c \in Clients |-> IF ToBarrier(c) THEN "HISTORY_APPLIED" ELSE sst[c]]
    /\ timers' = [c \in Clients |-> IF ToBarrier(c)
                                    THEN TimersAfterHistory(timers[c], pending[c].tok)
                                    ELSE timers[c]]
    /\ fetches' = [c \in Clients |-> IF ToFetch(c)
                                     THEN [fetches[c] EXCEPT ![k.pane] = 0] ELSE fetches[c]]
    /\ wire' = [c \in Clients |->
                  IF ToBarrier(c) THEN Append(wire[c], History(pending[c].tok, k))
                  ELSE IF ToFetch(c) THEN Append(wire[c], History(fetches[c][k.pane], k))
                  ELSE wire[c]]
    /\ UNCHANGED <<open, entry, selected, subscribed, pending, gate, buffer, emitted,
                   nextTok, history>>

\* The capture is empty, or a command of it fails: no history.  A failed fetch
\* forgets its request.
DropCapture(k) ==
    /\ k \in captures
    /\ captures' = captures \ {k}
    /\ \/ UNCHANGED fetches
       \/ k.fetch /\ fetches' = [fetches EXCEPT ![k.client][k.pane] = 0]
    /\ UNCHANGED <<open, entry, selected, subscribed, barrier, emitted, wire, nextTok, history>>
-----------------------------------------------------------------------------
\* sendLiveResume: LIVE_RESUME, then the buffer, all of it under the pane of the
\* transaction; the transaction is complete.
SendLiveResume(c) ==
    LET tx == pending[c]
        flushed == [i \in 1 .. Len(buffer[c]) |-> Output(tx.pane, buffer[c][i])]
    IN
    /\ wire' = [wire EXCEPT ![c] = Append(@, Resumed(tx.tok, tx.pane)) \o flushed]
    /\ pending' = [pending EXCEPT ![c] = NoTx]
    /\ sst' = [sst EXCEPT ![c] = "STABLE"]
    /\ timers' = [timers EXCEPT ![c] = <<>>]
    /\ gate' = [gate EXCEPT ![c] = "FLOWING"]
    /\ buffer' = [buffer EXCEPT ![c] = <<>>]

\* The delay after the history (or after the ACK) is over.
LiveTimerFires(c) ==
    /\ timers[c] # <<>> /\ Head(timers[c]).kind = "live"
    /\ IF MayResume(c, Head(timers[c]).tok)
       THEN SendLiveResume(c)
       ELSE /\ timers' = [timers EXCEPT ![c] = Tail(@)]
            /\ UNCHANGED <<pending, sst, gate, buffer, wire>>
    /\ base' = [base EXCEPT ![c] = -1]
    /\ UNCHANGED <<open, entry, client, captures, emitted, nextTok, mixed>>

\* The history did not come in time: live without it, and the gate opens even
\* if sendLiveResume declined.
HistoryTimerFires(c) ==
    /\ timers[c] # <<>> /\ Head(timers[c]).kind = "history"
    /\ IF MayResume(c, Head(timers[c]).tok)
       THEN SendLiveResume(c)
       ELSE /\ timers' = [timers EXCEPT ![c] = Tail(@)]
            /\ IF pending[c].tok = Head(timers[c]).tok
               THEN /\ gate' = [gate EXCEPT ![c] = "FLOWING"]
                    /\ buffer' = [buffer EXCEPT ![c] = <<>>]
               ELSE UNCHANGED <<gate, buffer>>
            /\ UNCHANGED <<pending, sst, wire>>
    /\ base' = [base EXCEPT ![c] = -1]
    /\ UNCHANGED <<open, entry, client, captures, emitted, nextTok, mixed>>
-----------------------------------------------------------------------------
\* The runtime reports a snapshot of the device.
BroadcastStateSnapshot ==
    /\ attached # {} /\ up
    /\ known' = Panes
    /\ UNCHANGED <<open, attached, up, client, barrier, captures, emitted, wire, nextTok, history>>

\* The runtime closes and a retry is scheduled: the entry stays, deaf.
HandleConnectionClose ==
    /\ attached # {} /\ up
    /\ up' = FALSE /\ captures' = {}
    /\ wire' = [c \in Clients |-> IF c \in attached
                                  THEN Append(wire[c], Status("RECONNECTING")) ELSE wire[c]]
    /\ base' = [c \in Clients |-> -1]
    /\ UNCHANGED <<open, attached, known, client, barrier, emitted, nextTok, mixed>>

\* The retry succeeds: a new entry with the same sockets and no snapshot.
RetryConnection ==
    /\ ~up
    /\ up' = TRUE /\ known' = {}
    /\ wire' = [c \in Clients |-> IF c \in attached
                                  THEN Append(wire[c], Status("RECONNECTED")) ELSE wire[c]]
    /\ UNCHANGED <<open, attached, client, barrier, captures, emitted, nextTok, history>>

\* The runtime closes and no retry is left: the entry is deleted.
GiveUpConnection ==
    /\ attached # {} /\ up
    /\ KeepEntryFor({})
    /\ selected' = [c \in Clients |-> IF c \in attached THEN NoPane ELSE selected[c]]
    /\ wire' = [c \in Clients |-> IF c \in attached
                                  THEN Append(wire[c], Status("LOST")) ELSE wire[c]]
    /\ base' = [c \in Clients |-> -1]
    /\ mixed' = [c \in Clients |-> mixed[c] \/ (c \in attached /\ MovedOff(c, NoPane))]
    /\ UNCHANGED <<open, subscribed, fetches, barrier, emitted, nextTok>>

\* The network: the socket reads its next frame.
Deliver(c) ==
    /\ wire[c] # <<>>
    /\ wire' = [wire EXCEPT ![c] = Tail(@)]
    /\ UNCHANGED <<open, entry, client, barrier, captures, emitted, nextTok, history>>
-----------------------------------------------------------------------------
\* A client's requests draw the next token.
Draw == nextTok <= MaxToken /\ nextTok' = nextTok + 1

TmuxSelect(c, p, want) == Draw /\ HandleTmuxSelect(c, nextTok, p, want)
TmuxFetch(c, p) == Draw /\ HandleFetchPaneHistory(c, nextTok, p)

BarrierStep(c) == LiveTimerFires(c) \/ HistoryTimerFires(c)

\* A socket comes or goes, or joins or leaves the device.
SocketStep(c) == \/ HandleOpen(c) \/ HandleClose(c)
                 \/ HandleDeviceConnect(c) \/ HandleDeviceDisconnect(c)

\* An attached socket looks at panes, and the gateway's timers run.
SwitchStep(c) ==
    \/ \E p \in Panes : \/ \E want \in BOOLEAN : TmuxSelect(c, p, want)
                       \/ HandleFocusPane(c, p)
                       \/ TmuxFetch(c, p)
    \/ \E S \in SUBSET Panes : HandleSubscribePanes(c, S)
    \/ BarrierStep(c)
    \/ Deliver(c)

\* The runtime speaks.
RuntimeStep ==
    \/ \E p \in Panes : BroadcastTerminalOutput(p)
    \/ \E k \in captures : TakeCapture(k) \/ BroadcastTerminalHistory(k) \/ DropCapture(k)
    \/ BroadcastStateSnapshot

\* The runtime is lost.
LossStep == HandleConnectionClose \/ RetryConnection \/ GiveUpConnection

Next == \/ \E c \in Clients : SocketStep(c) \/ SwitchStep(c)
        \/ RuntimeStep \/ LossStep

Spec == Init /\ [][Next]_vars

\* An armed timer fires; a socket that is open reads.  Nothing else is fair:
\* users, tmux and the device owe the gateway nothing.
Fairness == \A c \in Clients : WF_vars(BarrierStep(c)) /\ WF_vars(Deliver(c))
FairSpec == Spec /\ Fairness
-----------------------------------------------------------------------------
EntryType ==
    /\ open \in SUBSET Clients /\ attached \in SUBSET open
    /\ up \in BOOLEAN /\ known \in SUBSET Panes
ClientType ==
    /\ selected \in [Clients -> Panes \cup {NoPane}]
    /\ subscribed \in [Clients -> SUBSET Panes]
    /\ fetches \in [Clients -> [Panes -> Nat]]
BarrierType ==
    /\ pending \in [Clients -> Transaction]
    /\ sst \in [Clients -> States]
    /\ timers \in [Clients -> Seq(Timer)]
    /\ gate \in [Clients -> {"FLOWING", "BUFFERING"}]
    /\ buffer \in [Clients -> Seq(Chunk)]
HistoryType == base \in [Clients -> Int] /\ mixed \in [Clients -> BOOLEAN]
TypeOK ==
    /\ EntryType /\ ClientType /\ BarrierType /\ HistoryType
    /\ captures \in SUBSET Capture
    /\ emitted \in [Panes -> Nat]
    /\ wire \in [Clients -> Seq(Frame)]
    /\ nextTok \in Nat \ {0}
-----------------------------------------------------------------------------
\* The gate never sticks: it holds output back exactly while a switch is open,
\* and an open switch has exactly one armed timer, of its own token and of the
\* kind its stage waits for, in a state from which that timer may resume it.
GateOK(c) ==
    /\ gate[c] = "BUFFERING" <=> pending[c].tok # 0
    /\ pending[c].tok = 0 => timers[c] = <<>> /\ buffer[c] = <<>> /\ sst[c] = "STABLE"
    /\ pending[c].tok # 0 =>
         /\ Len(timers[c]) = 1 /\ timers[c][1].tok = pending[c].tok
         /\ sst[c] \in {"ACKED", "HISTORY_APPLIED"}
         /\ timers[c][1].kind = "history" <=> sst[c] = "ACKED" /\ pending[c].want
GateHasTimer == \A c \in Clients : GateOK(c)

\* b is the latest outputs of p after its lo-th and up to its hi-th, all of them
\* up to the capacity, in order, once each.
HoldsLatest(b, p, lo, hi) ==
    /\ Len(b) = IF hi - lo < MaxBuffer THEN hi - lo ELSE MaxBuffer
    /\ \A i \in 1 .. Len(b) : b[i] = [src |-> p, n |-> hi - Len(b) + i]

\* What the gate holds back is complete: for a socket that has heard its pane
\* since the switch began it is the latest outputs since then.
HeldBackIsComplete ==
    \A c \in Clients : (pending[c].tok # 0 /\ base[c] # -1) =>
        HoldsLatest(buffer[c], pending[c].pane, base[c], emitted[pending[c].pane])

\* All that is on its way to c, the outputs held back last.
OnTheWay(c) == wire[c] \o [i \in 1 .. Len(buffer[c]) |-> Output(pending[c].pane, buffer[c][i])]

\* The outputs of a pane reach a socket in order and under its name, through
\* switches, timeouts and device loss, unless the focus moved during a switch.
OutputInOrder ==
    \A c \in Clients : ~mixed[c] =>
        LET w == OnTheWay(c)
            outputs == {i \in DOMAIN w : w[i].k = "OUTPUT"} IN
        /\ \A i \in outputs : w[i].src = w[i].pane
        /\ \A i, j \in outputs : (i < j /\ w[i].src = w[j].src) => w[i].n < w[j].n

\* Output is sent under the name of the pane it comes from: only the focused
\* pane takes part in the barrier (comment at index.ts:1257).
OutputKeepsItsPane ==
    \A c \in Clients : \A i \in DOMAIN wire[c] :
        wire[c][i].k = "OUTPUT" => wire[c][i].src = wire[c][i].pane

\* The history of a replaced switch is dropped: a switch is never given a
\* capture that was asked for before the switch (barrier design, line 115).
OldHistoryIsDropped ==
    [][\A c \in Clients : (sst[c] = "ACKED" /\ sst'[c] = "HISTORY_APPLIED") =>
           wire'[c][Len(wire'[c])].of >= pending[c].tok]_vars

Cur == [c \in Clients |->
          [tok |-> pending[c].tok, pane |-> pending[c].pane,
           stage |-> IF pending[c].tok = 0 THEN "idle"
                     ELSE IF sst[c] = "ACKED" THEN "acked" ELSE "history"]]
Promise == INSTANCE SwitchPromise WITH cur <- Cur, focus <- selected

\* The barrier keeps the protocol of SwitchPromise on every socket.
KeepsPromise == Promise!Spec

\* Every switch announced by SWITCH_ACK is resumed, replaced, or dies with its
\* socket.
SwitchEnds == \A c \in Clients : \A t \in Tokens :
                 (pending[c].tok = t) ~> (pending[c].tok # t)
=============================================================================

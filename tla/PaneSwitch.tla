------------------------------ MODULE PaneSwitch ------------------------------
(***************************************************************************)
(* A pane switch end to end: browsers (fe stores/tmux.ts and the select    *)
(* machine), their sockets (fe ws-borsh/client.ts), and the gateway of     *)
(* SwitchBarrier.  A browser's requests and the gateway's frames travel in *)
(* order and are lost together when the socket is lost; the browser then   *)
(* keeps its machine, queues what it sends, and connects again.            *)
(***************************************************************************)
EXTENDS SwitchBarrier

VARIABLES
    tx, timer, held, historyGates, screen,   \* of SelectStateMachine
    want,       \* store.selectedPanes[deviceId]
    joined,     \* the device is in store.connectedDevices
    connected,  \* store.deviceConnected[deviceId]
    requests,   \* sent and not yet read by the gateway; while the socket is
                \*   down, client.pendingMessages
    missed,     \* history: since the last select began a request was lost
                \*   with its socket, or ignored by the gateway
    gap,        \* history: since the last select began output may have been
                \*   lost to the terminal, or not sent to its socket
    blurred     \* history: the focus once moved while a switch was open

FE == INSTANCE SelectStateMachine

gateway == <<entry, open, client, barrier, captures, emitted, wire, history>>
machine == <<tx, timer, held>>
browser == <<machine, historyGates, screen>>
store   == <<want, joined, connected>>
notes   == <<missed, gap, blurred>>
allVars == <<vars, browser, store, requests, notes>>

Request(k, t, p, S) == [k |-> k, tok |-> t, pane |-> p, panes |-> S]
Connect    == Request("CONNECT", 0, NoPane, {})
Disconnect == Request("DISCONNECT", 0, NoPane, {})

\* A request overtakes those that wait.
AskBug(c, r) == requests' = [requests EXCEPT ![c] = <<r>> \o @]

\* client.send: in order, to the socket or to the queue.
Ask(c, r) == requests' = [requests EXCEPT ![c] = Append(@, r)]

Note(h, c) == [h EXCEPT ![c] = TRUE]
Blur == blurred' = [c \in Clients |-> blurred[c] \/ mixed'[c]]
-----------------------------------------------------------------------------
AllInit ==
    /\ Init /\ FE!Init
    /\ want = [c \in Clients |-> NoPane]
    /\ joined = [c \in Clients |-> FALSE]
    /\ connected = [c \in Clients |-> FALSE]
    /\ requests = [c \in Clients |-> <<>>]
    /\ missed = [c \in Clients |-> FALSE]
    /\ gap = [c \in Clients |-> FALSE]
    /\ blurred = [c \in Clients |-> FALSE]

\* connectDevice.
ConnectDevice(c) ==
    /\ ~joined[c]
    /\ joined' = [joined EXCEPT ![c] = TRUE]
    /\ Ask(c, Connect)
    /\ UNCHANGED <<vars, browser, want, connected, notes>>

\* disconnectDevice: the machine is cleaned up at once.
DisconnectDevice(c) ==
    /\ joined[c]
    /\ joined' = [joined EXCEPT ![c] = FALSE]
    /\ FE!Cleanup(c)
    /\ Ask(c, Disconnect)
    /\ UNCHANGED <<vars, historyGates, screen, want, connected, notes>>

\* selectPane: the machine starts a transaction before the request is sent.
StartSelect(c, p) ==
    /\ Draw
    /\ want' = [want EXCEPT ![c] = p]
    /\ FE!SelectStart(c, nextTok, p)
    /\ Ask(c, Request("SELECT", nextTok, p, {}))
    /\ missed' = [missed EXCEPT ![c] = FALSE]
    /\ gap' = [gap EXCEPT ![c] = FALSE]
    /\ UNCHANGED blurred

\* The user turns to pane p.
SelectPane(c, p) ==
    /\ connected[c]
    /\ StartSelect(c, p)
    /\ UNCHANGED <<gateway, joined, connected>>

\* focusPane: the light switch inside a split window.
FocusPane(c, p) ==
    /\ connected[c] /\ want[c] # NoPane
    /\ want' = [want EXCEPT ![c] = p]
    /\ Ask(c, Request("FOCUS", 0, p, {}))
    /\ gap' = Note(gap, c)
    /\ UNCHANGED <<vars, browser, joined, connected, missed, blurred>>

\* subscribePanes.
SubscribePanes(c, S) ==
    /\ connected[c]
    /\ Ask(c, Request("SUBSCRIBE", 0, NoPane, S))
    /\ UNCHANGED <<vars, browser, store, notes>>

\* fetchPaneHistory: the pane's history gate opens before the request is sent.
FetchPaneHistory(c, p) ==
    /\ connected[c] /\ p # want[c]
    /\ Draw
    /\ FE!BeginPaneHistoryGate(c, p, nextTok)
    /\ Ask(c, Request("FETCH", nextTok, p, {}))
    /\ UNCHANGED <<gateway, machine, store, notes>>
-----------------------------------------------------------------------------
\* The gateway reads a request it acts on ...
Heeds(c, r) ==
    \/ r.k = "CONNECT" /\ HandleDeviceConnect(c)
    \/ r.k = "DISCONNECT" /\ HandleDeviceDisconnect(c)
    \/ r.k = "SELECT" /\ HandleTmuxSelect(c, r.tok, r.pane, TRUE) /\ UNCHANGED nextTok
    \/ r.k = "FOCUS" /\ HandleFocusPane(c, r.pane)
    \/ r.k = "SUBSCRIBE" /\ HandleSubscribePanes(c, r.panes)
    \/ r.k = "FETCH" /\ HandleFetchPaneHistory(c, r.tok, r.pane) /\ UNCHANGED nextTok

\* ... or one it drops without an answer.
Ignores(c, r) ==
    /\ c \in open
    /\ \/ r.k \in {"SELECT", "FOCUS"} /\ IgnoresSelect(c, r.pane)
       \/ r.k \in {"SUBSCRIBE", "FETCH"} /\ attached = {}

\* A select heeded for a socket that the device's output does not reach: another
\* socket keeps the entry, or its runtime is lost.
HeedsDeaf(c, r) == r.k = "SELECT" /\ ~(up /\ c \in attached)

Serve(c) ==
    /\ requests[c] # <<>>
    /\ requests' = [requests EXCEPT ![c] = Tail(@)]
    /\ LET r == Head(requests[c]) IN
       \/ /\ Heeds(c, r)
          /\ gap' = IF r.k = "DISCONNECT" \/ HeedsDeaf(c, r) THEN Note(gap, c) ELSE gap
          /\ UNCHANGED missed
       \/ /\ Ignores(c, r)
          /\ missed' = IF r.k \in {"SELECT", "FOCUS"} THEN Note(missed, c) ELSE missed
          /\ gap' = IF r.k = "SELECT" THEN Note(gap, c) ELSE gap
          /\ UNCHANGED vars
    /\ Blur
    /\ UNCHANGED <<browser, store>>
-----------------------------------------------------------------------------
\* maybeReselectCurrentPane goes ahead: not while a transaction is open.
MayReselect(c) == want[c] # NoPane /\ tx[c].tok = 0

\* DEVICE_CONNECTED, or the event "reconnected".
HearsConnected(c) ==
    /\ connected' = Note(connected, c)
    /\ \/ MayReselect(c) /\ StartSelect(c, want[c])
       \/ /\ ~MayReselect(c)
          /\ UNCHANGED <<browser, want, requests, nextTok, notes>>

\* DEVICE_DISCONNECTED, or the event "disconnected", which leaves the panes'
\* history gates.
HearsDisconnected(c, k) ==
    /\ connected' = [connected EXCEPT ![c] = FALSE]
    /\ FE!Cleanup(c)
    /\ IF k = "DISCONNECTED" THEN FE!CleanupDevicePaneState(c)
                             ELSE UNCHANGED <<historyGates, screen>>
    /\ UNCHANGED <<want, requests, nextTok, notes>>

\* A frame of the switch protocol.
HearsFrame(c, m) ==
    /\ \/ m.k = "ACK" /\ FE!SwitchAck(c, m.tok)
       \/ m.k = "HISTORY" /\ FE!TermHistory(c, m.tok, m.pane, m.n)
       \/ m.k = "RESUME" /\ FE!LiveResume(c, m.tok)
       \/ m.k = "OUTPUT" /\ FE!TermOutput(c, m.pane, [src |-> m.src, n |-> m.n])
       \/ m.k = "RECONNECTING" /\ UNCHANGED browser
    /\ UNCHANGED <<want, connected, requests, nextTok, notes>>

\* The browser reads its next frame.
Read(c) ==
    /\ wire[c] # <<>>
    /\ wire' = [wire EXCEPT ![c] = Tail(@)]
    /\ LET m == Head(wire[c]) IN
       \/ m.k \in {"CONNECTED", "RECONNECTED"} /\ HearsConnected(c)
       \/ m.k \in {"DISCONNECTED", "LOST"} /\ HearsDisconnected(c, m.k)
       \/ HearsFrame(c, m)
    /\ UNCHANGED <<open, entry, client, barrier, captures, emitted, history, joined>>

\* The transaction's timer runs out.
SelectTimeout(c) ==
    /\ FE!Timeout(c)
    /\ gap' = Note(gap, c)
    /\ UNCHANGED <<vars, store, requests, missed, blurred>>

\* A history gate's timer runs out.
HistoryGateTimeout(c, p) ==
    /\ FE!HistoryGateTimeout(c, p)
    /\ UNCHANGED <<vars, machine, store, requests, notes>>
-----------------------------------------------------------------------------
\* The socket is lost, with all that was under way in it.  The browser's machine
\* and what the store knows of the device stay.
LoseSocket(c) ==
    /\ HandleClose(c)
    /\ requests' = [requests EXCEPT ![c] = <<>>]
    /\ missed' = Note(missed, c)
    /\ gap' = Note(gap, c)
    /\ UNCHANGED <<browser, store, blurred>>

\* The socket is READY: the store's handler connects the device, then the queue
\* is flushed.
OpenSocket(c) ==
    /\ HandleOpen(c)
    /\ requests' = IF joined[c] THEN [requests EXCEPT ![c] = <<Connect>> \o @] ELSE requests
    /\ UNCHANGED <<browser, store, notes>>

\* The gateway's own steps.  Output is lost to c when its history is: not taken,
\* too late, or taken before the switch began; and when the runtime is.
GatewayStep ==
    /\ \/ /\ \/ \E p \in Panes : BroadcastTerminalOutput(p)
             \/ BroadcastStateSnapshot \/ RetryConnection
             \/ \E k \in captures : TakeCapture(k)
             \/ \E c \in Clients : LiveTimerFires(c)
          /\ UNCHANGED gap
       \/ \E k \in captures :
             /\ BroadcastTerminalHistory(k)
             /\ gap' = [c \in Clients |-> gap[c] \/ (sst'[c] # sst[c] /\ k.upTo < base[c])]
       \/ /\ \E k \in captures : DropCapture(k)
          /\ gap' = [c \in Clients |-> TRUE]
       \/ HandleConnectionClose /\ gap' = [c \in Clients |-> TRUE]
       \/ GiveUpConnection /\ gap' = [c \in Clients |-> TRUE]
       \/ \E c \in Clients : HistoryTimerFires(c) /\ gap' = Note(gap, c)
    /\ Blur
    /\ UNCHANGED <<browser, store, requests, missed>>

UserStep(c) ==
    \/ ConnectDevice(c) \/ DisconnectDevice(c)
    \/ \E p \in Panes : SelectPane(c, p) \/ FocusPane(c, p) \/ FetchPaneHistory(c, p)
    \/ \E S \in SUBSET Panes : SubscribePanes(c, S)

BrowserStep(c) ==
    \/ Read(c) \/ SelectTimeout(c)
    \/ \E p \in Panes : HistoryGateTimeout(c, p)

AllNext ==
    \/ \E c \in Clients : \/ UserStep(c) \/ BrowserStep(c) \/ Serve(c)
                          \/ LoseSocket(c) \/ OpenSocket(c)
    \/ GatewayStep

\* The steps of a browser that only selects and focuses panes, of a device and a
\* socket that are not lost.
SteadyNext ==
    \/ \E c \in Clients :
          \/ ConnectDevice(c) \/ OpenSocket(c) \/ Serve(c)
          \/ \E p \in Panes : SelectPane(c, p) \/ FocusPane(c, p)
          \/ Read(c) \/ SelectTimeout(c)
    \/ GatewayStep /\ up' /\ attached' = attached

AllSpec    == AllInit /\ [][AllNext]_allVars
SteadySpec == AllInit /\ [][SteadyNext]_allVars
\* The same with sockets that are lost.
RejoinSpec == AllInit /\ [][SteadyNext \/ \E c \in Clients : LoseSocket(c)]_allVars
-----------------------------------------------------------------------------
Requests == [k : {"CONNECT", "DISCONNECT", "SELECT", "FOCUS", "SUBSCRIBE", "FETCH"},
             tok : Nat, pane : Panes \cup {NoPane}, panes : SUBSET Panes]
AllTypeOK ==
    /\ TypeOK /\ FE!TypeOK
    /\ want \in [Clients -> Panes \cup {NoPane}]
    /\ joined \in [Clients -> BOOLEAN] /\ connected \in [Clients -> BOOLEAN]
    /\ requests \in [Clients -> Seq(Requests)]
    /\ \A h \in {missed, gap, blurred} : h \in [Clients -> BOOLEAN]

\* The browser's gate is on exactly while a transaction is open, and its timer
\* is then armed for the stage the transaction is in.
MachineNeverSticks == FE!MachineOK

\* The gateway's and the browser's halves agree on the order of a switch: a
\* frame that bears the token of the browser's transaction is never one the
\* transaction does not expect.
NoFrameRefused ==
    \A c \in Clients :
        (wire[c] # <<>> /\ tx[c].tok # 0 /\ Head(wire[c]).tok = tx[c].tok) =>
            LET m == Head(wire[c]) IN
            \/ m.k = "ACK" /\ FE!TakesAck(c, m.tok)
            \/ m.k = "HISTORY" /\ FE!TakesHistory(c, m.tok)
            \/ m.k = "RESUME" /\ FE!TakesResume(c, m.tok)

\* A browser does not wait in vain: unless its request was lost or ignored, the
\* gateway has the request, or the switch, or its LIVE_RESUME is on its way.
WaitsForSomething ==
    \A c \in Clients : (tx[c].tok # 0 /\ ~missed[c]) =>
        \/ \E i \in DOMAIN requests[c] : requests[c][i].k = "SELECT" /\ requests[c][i].tok = tx[c].tok
        \/ pending[c].tok = tx[c].tok
        \/ \E i \in DOMAIN wire[c] : wire[c][i].k = "RESUME" /\ wire[c][i].tok = tx[c].tok

\* Nothing is under way between c's browser and the gateway.
AtRest(c) == /\ c \in attached /\ joined[c] /\ connected[c]
             /\ requests[c] = <<>> /\ wire[c] = <<>>
             /\ tx[c].tok = 0 /\ pending[c].tok = 0

\* The two sides agree on the focus whenever they are at rest, unless a request
\* was lost or ignored since the last select.
FocusAgrees ==
    \A c \in Clients : (AtRest(c) /\ want[c] # NoPane /\ ~missed[c]) => selected[c] = want[c]

\* A browser that has once shown its pane and is at rest has it selected at the
\* gateway, also after it was disconnected: it is to select it again then
\* (barrier design, line 128).
FocusSurvivesReconnect ==
    \A c \in Clients : (AtRest(c) /\ want[c] # NoPane /\ screen[c][want[c]] # <<>>) =>
        selected[c] = want[c]

\* A terminal shows its own pane only, whatever the two gates hold back and for
\* whichever pane, unless the focus moved during a switch (see finding
\* focus_misattribution).
TerminalsKeepApart ==
    \A c \in Clients : ~blurred[c] =>
        \A p \in Panes : \A i \in DOMAIN screen[c][p] : screen[c][p][i].src = p

\* Terminal p of c shows the n-th output of p, as such or in a history.
Shows(c, p, n) == \E i \in DOMAIN screen[c][p] :
                     LET w == screen[c][p][i] IN
                     w.src = p /\ IF w.k = "history" THEN n <= w.n ELSE n = w.n

\* A terminal never shows a pane's live outputs out of order or twice, through
\* both gates, time-outs, replaced switches and reconnections, unless the focus
\* moved during a switch.
ShownInOrder ==
    \A c \in Clients : ~blurred[c] => \A p \in Panes :
        LET w == screen[c][p]
            live == {i \in DOMAIN w : w[i].k = "output"} IN
        \A i, j \in live : (i < j /\ w[i].src = w[j].src) => w[i].n < w[j].n

\* After a switch the terminal shows all that the pane has put out, unless
\* something that loses output happened since (see gap).
ScreenIsWhole ==
    \A c \in Clients : (AtRest(c) /\ want[c] # NoPane /\ ~missed[c] /\ ~gap[c]) =>
        LET p == want[c] IN
        (historyGates[c][p].tok = 0 /\ emitted[p] <= MaxBuffer) =>
            \A n \in 1 .. emitted[p] : Shows(c, p, n)
=============================================================================

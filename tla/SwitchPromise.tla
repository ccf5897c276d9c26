---------------------------- MODULE SwitchPromise ----------------------------
(***************************************************************************)
(* What the gateway promises to one browser socket about a pane switch,    *)
(* with none of its timers, captures or buffers.  For every socket there   *)
(* is at most one switch `cur'; it is announced by SWITCH_ACK, may be      *)
(* filled by one TERM_HISTORY, and is closed by LIVE_RESUME followed at    *)
(* once by the output held back; until then the pane the socket is focused *)
(* on receives no live output.  A newer switch replaces an open one, and   *)
(* nothing is ever sent again for the replaced one.  The socket's frames   *)
(* form a FIFO `wire'.                                                     *)
(***************************************************************************)
EXTENDS Naturals, Sequences

CONSTANTS Clients, Panes, NoPane

VARIABLES cur,      \* cur[c]: the open switch, Idle when there is none
          focus,    \* focus[c]: the pane whose output the socket follows
          wire      \* wire[c]: frames sent to the socket and not yet read

vars == <<cur, focus, wire>>

Idle == [tok |-> 0, pane |-> NoPane, stage |-> "idle"]

\* The step sends the socket of c at least one frame; New(c) is the first.
Sends(c) == /\ Len(wire'[c]) > Len(wire[c])
            /\ \A i \in 1 .. Len(wire[c]) : wire'[c][i] = wire[c][i]
New(c)   == wire'[c][Len(wire[c]) + 1]
SendsOne(c) == Sends(c) /\ Len(wire'[c]) = Len(wire[c]) + 1

\* A new switch: SWITCH_ACK is the first frame of it.
Begin(c) ==
    /\ cur'[c].stage = "acked"
    /\ cur'[c].tok # 0 /\ cur'[c].tok # cur[c].tok
    /\ focus'[c] = cur'[c].pane
    /\ SendsOne(c)
    /\ New(c).k = "ACK" /\ New(c).tok = cur'[c].tok /\ New(c).pane = cur'[c].pane

\* The switch is given its history, at most once.
Fill(c) ==
    /\ cur[c].stage = "acked"
    /\ cur'[c] = [cur[c] EXCEPT !.stage = "history"]
    /\ focus'[c] = focus[c]
    /\ SendsOne(c)
    /\ New(c).k = "HISTORY" /\ New(c).tok = cur[c].tok /\ New(c).pane = cur[c].pane

\* The switch is closed: LIVE_RESUME, then the output that was held back.
Resume(c) ==
    /\ cur[c] # Idle
    /\ cur'[c] = Idle
    /\ focus'[c] = focus[c]
    /\ Sends(c)
    /\ New(c).k = "RESUME" /\ New(c).tok = cur[c].tok
    /\ \A i \in Len(wire[c]) + 2 .. Len(wire'[c]) :
          wire'[c][i].k = "OUTPUT" /\ wire'[c][i].pane = cur[c].pane

\* Output of a pane that no open switch holds back.
Live(c) ==
    /\ cur'[c] = cur[c] /\ focus'[c] = focus[c]
    /\ SendsOne(c)
    /\ New(c).k = "OUTPUT"
    /\ New(c).pane = focus[c] => cur[c] = Idle

\* History a socket fetched, under a token that is not the open switch's.
Reply(c) ==
    /\ cur'[c] = cur[c] /\ focus'[c] = focus[c]
    /\ SendsOne(c)
    /\ New(c).k = "HISTORY" /\ New(c).tok # cur[c].tok

\* The device's connection status, with which the focus may be lost.
Tell(c) ==
    /\ cur'[c] = cur[c] /\ focus'[c] \in {focus[c], NoPane}
    /\ SendsOne(c)
    /\ New(c).k \in {"CONNECTED", "DISCONNECTED", "RECONNECTING", "RECONNECTED", "LOST"}

\* The socket reads a frame.
Read(c) == /\ wire[c] # <<>> /\ wire'[c] = Tail(wire[c])
           /\ cur'[c] = cur[c] /\ focus'[c] = focus[c]

\* The focus moves without a switch (TMUX_FOCUS_PANE), or nothing happens to c.
Refocus(c) == cur'[c] = cur[c] /\ wire'[c] = wire[c]

\* The socket closes: everything about it is forgotten.
Close(c) == cur'[c] = Idle /\ wire'[c] = <<>> /\ focus'[c] = NoPane

Init == /\ cur = [c \in Clients |-> Idle]
        /\ focus = [c \in Clients |-> NoPane]
        /\ wire = [c \in Clients |-> <<>>]

Step(c) == \/ Begin(c) \/ Fill(c) \/ Resume(c)
           \/ Live(c) \/ Reply(c) \/ Tell(c)
           \/ Read(c) \/ Refocus(c) \/ Close(c)

\* One broadcast of the gateway reaches several sockets in one step.
Next == \A c \in Clients : Step(c)

Spec == Init /\ [][Next]_vars
=============================================================================

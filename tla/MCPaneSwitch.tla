----------------------------- MODULE MCPaneSwitch -----------------------------
(***************************************************************************)
(* PaneSwitch on small instances.                                          *)
(***************************************************************************)
EXTENDS PaneSwitch, TLC, Functions

CONSTANTS MaxEvents,    \* bound: selects begun and outputs of all panes, together
          MaxWire,      \* bound: frames but TERM_OUTPUT a socket leaves unread
          MaxRequests   \* bound: requests but CONNECT the gateway leaves unread

Symmetry == Permutations(Clients) \cup Permutations(Panes)

FewEvents == nextTok - 1 + SumFunction(emitted) <= MaxEvents

ShortQueues ==
    \A c \in Clients :
        /\ Len(SelectSeq(wire[c], LAMBDA m : m.k # "OUTPUT")) <= MaxWire
        /\ Len(SelectSeq(requests[c], LAMBDA r : r.k # "CONNECT")) <= MaxRequests
=============================================================================

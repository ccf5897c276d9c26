--------------------------- MODULE MCSwitchBarrier ---------------------------
(***************************************************************************)
(* SwitchBarrier on small instances.                                       *)
(***************************************************************************)
EXTENDS SwitchBarrier, TLC

CONSTANT MaxWire    \* bound: frames a socket leaves unread

Symmetry == Permutations(Clients) \cup Permutations(Panes)

\* The gateway never looks at what a socket has not read, so this cuts only how
\* far the frames of one socket are compared with each other.
ShortWire == \A c \in Clients : Len(wire[c]) <= MaxWire
=============================================================================

---------------------------- MODULE MCAgentSession ----------------------------
(***************************************************************************)
(* AgentSession on a small instance.                                       *)
(***************************************************************************)
EXTENDS AgentSession

CONSTANTS MaxEvents,     \* bound: messages and requests together
          MaxOutlived    \* bound: the same once a run has outlived a shutdown

FewEvents ==
    said + Cardinality(AskedBefore) <= IF "outlived" \in slips THEN MaxOutlived ELSE MaxEvents
=============================================================================

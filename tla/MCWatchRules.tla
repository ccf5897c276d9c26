----------------------------- MODULE MCWatchRules -----------------------------
(***************************************************************************)
(* WatchRules on small instances.                                          *)
(***************************************************************************)
EXTENDS WatchRules

CONSTANTS w1, w2

\* A rule for a value that stands still, confirmed by the model; and either one
\* that the model judges, or one for a match that goes on firing.
Still  == [type |-> "unchanged", once |-> TRUE, reset |-> TRUE, confirm |-> TRUE]
Judged == [type |-> "llm", once |-> TRUE, reset |-> FALSE, confirm |-> FALSE]
Match  == [type |-> "match", once |-> FALSE, reset |-> FALSE, confirm |-> FALSE]

MCKinds == {[w \in Rules |-> IF w = w1 THEN Still ELSE other] : other \in {Judged, Match}}
=============================================================================

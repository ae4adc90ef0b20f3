---------------------------- MODULE MCFlowStore ----------------------------
(***************************************************************************)
(* Small instances of FlowStore.                                           *)
(***************************************************************************)
EXTENDS FlowStore, TLC

CONSTANTS a1, a2, e1, e2, t1

OneAgent == {a1}
TwoAgents == {a1, a2}
NoEntities == {}
OneEntity == {e1}
TwoEntities == {e1, e2}
OneToken == {t1}
NoTokens == {}

\* Nothing tells the two agents apart.
AgentSymmetry == Permutations(TwoAgents)

NoAmounts == {}
OneAmount == {1}
=============================================================================

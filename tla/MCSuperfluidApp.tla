-------------------------- MODULE MCSuperfluidApp --------------------------
(***************************************************************************)
(* A small instance of SuperfluidApp: one account with every role, two     *)
(* agents, one Super Token, and a contract that is no agent and no Super   *)
(* Token, answers getHost all the same, and is the user without a role.    *)
(***************************************************************************)
EXTENDS SuperfluidApp, TLC

CONSTANTS u1, a1, a2, other, t1

MCAccounts == {u1}
MCAgents == {a1, a2}
MCOther == {other}
MCTokens == {t1}
MCAnswering == {t1, other}
MCManagers == {u1}

\* Nothing tells the two agents apart: both start alike and both obey the app.
MCSymmetry == Permutations(MCAgents)
=============================================================================

--------------------------- MODULE MCUpdateFlow ---------------------------
(***************************************************************************)
(* A small instance of UpdateFlow: bx is listed and flows in and out; ax   *)
(* comes before it once it is listed; cx is only typed.                    *)
(***************************************************************************)
EXTENDS UpdateFlow

TwoTokens == <<"ax", "bx">>
ToBob == [token |-> "bx", entity |-> "bob", incoming |-> FALSE]
FromMe == [token |-> "bx", entity |-> "me", incoming |-> TRUE]
BothFlows == {ToBob, FromMe}
Start == {[listed |-> {"bx"}, funds |-> [ax |-> 0, bx |-> 4], flows |-> BothFlows]}
AllSuperTokens == {"ax", "bx", "cx"}
AllAddresses == AllSuperTokens \cup {"agent", "me", "bob"}
Decimal == [x \in AllAddresses |-> 3]
Balances == [x \in AllAddresses |-> IF x = "ax" THEN 0 ELSE 5]
Periods == [ax |-> 2, bx |-> 2]
=============================================================================

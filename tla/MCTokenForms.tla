--------------------------- MODULE MCTokenForms ---------------------------
(***************************************************************************)
(* A small instance of TokenForms: two listed tokens, one that is typed,   *)
(* and a text that is no address.  18 decimals are 3 here.                 *)
(***************************************************************************)
EXTENDS TokenForms

TwoTokens == <<"ax", "bx">>
SecondListed == {"bx"}
AllSuperTokens == {"ax", "bx", "cx"}
UnderlyingOf == [ax |-> "a", bx |-> "b", cx |-> "c"]
AllAddresses == {"ax", "bx", "cx", "a", "b", "c"}
Decimal == [x \in AllAddresses |-> IF x \in AllSuperTokens THEN 3 ELSE IF x = "a" THEN 2 ELSE 1]
Balances == [x \in AllAddresses |-> IF x \in {"bx", "c"} THEN 0 ELSE IF x \in AllSuperTokens THEN 20 ELSE 205]
TypedTexts == {"cx", "x"}

\* 1.0125 and .0015
SomeNumerals == {[whole |-> <<1>>, dec |-> <<0, 1, 2, 5>>],
             [whole |-> <<>>, dec |-> <<0, 0, 1, 5>>]}
=============================================================================

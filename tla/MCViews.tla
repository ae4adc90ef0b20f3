------------------------------ MODULE MCViews ------------------------------
(***************************************************************************)
(* Small instances of the views.  A day has two moments, a page one flow,  *)
(* a wide carousel two cards; two of the three card tokens have a price.   *)
(***************************************************************************)
EXTENDS Views, TLC

TwoTokens == <<"ax", "bx">>
DateRanges == {[start |-> -1, end |-> -1], [start |-> 1, end |-> 2], [start |-> 2, end |-> 3]}

ThreeCards == <<"ax", "bx", "cx">>
RateTokens == [ax |-> "a", bx |-> "none", cx |-> "c"]

SomePrices == {[whole |-> <<0>>, dec |-> <<0, 5>>],
               [whole |-> <<1, 0>>, dec |-> <<>>],
               [whole |-> <<1>>, dec |-> <<2, 5>>]}
SomeFlows == -3..1

Alice == [name |-> "alice", address |-> "0xa"]
Alina == [name |-> "alina", address |-> "0xb"]
TwoPeople == {Alice, Alina}
SomeTexts == {"", "al", "alice", "ali", "0xb"}
FoundFor == [t \in SomeTexts |-> CASE t = "alice" -> {Alice} [] t = "0xb" -> {Alina} [] OTHER -> TwoPeople]
             @@ [t \in {"alina"} |-> {Alina}] @@ [t \in {"0xa"} |-> {Alice}]
=============================================================================

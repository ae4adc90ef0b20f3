----------------------------- MODULE Decimals -----------------------------
(***************************************************************************)
(* helpers/math.js: the conversion between the amounts people type and the *)
(* integers the contracts take.  A numeral is its digits before and after  *)
(* the point.  Left out is whatever else Number accepts (AmountInput asks  *)
(* no more): `1e-3` goes through a double and comes back with its error,   *)
(* from 1e21 on with an exponent; `1E3`, `0x10` and `Infinity` are cut up  *)
(* as if they were digits.                                                 *)
(***************************************************************************)
EXTENDS Integers, SequencesExt

Digit == 0..9
Numerals == [whole : Seq(Digit), dec : Seq(Digit)]

Zeros(n) == IF n > 0 THEN [i \in 1..n |-> 0] ELSE <<>>

\* The number that n becomes when the digits are written behind it.
Behind(n, digits) ==
  LET v[i \in 0..Len(digits)] == IF i = 0 THEN n ELSE 10 * v[i - 1] + digits[i] IN v[Len(digits)]

Value(digits) == Behind(0, digits)
PowerOfTen(n) == Behind(1, Zeros(n))

DigitsUpTo(max) ==
  LET f[n \in 0..max] == IF n < 10 THEN <<n>> ELSE Append(f[n \div 10], n % 10) IN f

NonZero(d) == d # 0

TrimStart(s) ==
  LET first == SelectInSeq(s, NonZero) IN IF first = 0 THEN <<>> ELSE SubSeq(s, first, Len(s))

TrimEnd(s) == SubSeq(s, 1, SelectLastInSeq(s, NonZero))

PadStart(s, n) == Zeros(n - Len(s)) \o s
PadEnd(s, n) == s \o Zeros(n - Len(s))

splitDecimalNumber(num) == [whole |-> TrimStart(num.whole), dec |-> TrimEnd(num.dec)]

\* Mutation: leading zeroes of the decimal part are lost.
FromDecimalsUnpadded(digits, decimals) ==
  LET whole == TrimStart(digits)
      point == IF Len(whole) > decimals THEN Len(whole) - decimals ELSE 0
  IN  [whole |-> SubSeq(whole, 1, point), dec |-> TrimEnd(SubSeq(whole, point + 1, Len(whole)))]

\* An integer in the token's smallest unit, as a numeral.
fromDecimals(digits, decimals) ==
  LET whole == TrimStart(digits)
      padded == PadStart(whole, decimals + 1)
      point == Len(padded) - decimals
  IN  IF whole = <<>> THEN [whole |-> <<0>>, dec |-> <<>>]
      ELSE [whole |-> SubSeq(padded, 1, point), dec |-> TrimEnd(SubSeq(padded, point + 1, Len(padded)))]

\* Mutation: the typed digits are not cut at the token's decimals.
ToDecimalsUncut(num, decimals) ==
  LET d == splitDecimalNumber(num) IN PadEnd(d.whole \o d.dec, Len(d.whole) + decimals)

\* A numeral as an integer in the token's smallest unit; the rest is cut off.
toDecimals(num, decimals) ==
  LET d == splitDecimalNumber(num)
      length == Len(d.whole) + decimals
  IN  IF d.whole = <<>> /\ (d.dec = <<>> \/ decimals = 0) THEN <<0>>
      ELSE SubSeq(PadEnd(d.whole \o d.dec, length), 1, length)
=============================================================================

-------------------------------- MODULE Money --------------------------------
(***************************************************************************)
(* Amounts on their way into a receipt (src/src/core/money.ts): decimal    *)
(* text and numbers of a JSON file become whole cents, or are refused.     *)
(* Numerals are taken as they are written: amounts are left out that no     *)
(* double is near, and those at the very limit of the check below, where   *)
(* the rounding of a double decides.                                       *)
(***************************************************************************)
EXTENDS Integers

CONSTANTS
  Scales,    \* 10^n for the numbers n of decimal places that are written
  Precision  \* numbers that differ by a unit in Precision count as one: 10^9

ASSUME ScalesAreNumbers == Scales \subseteq Nat \ {0} /\ Precision \in Nat \ {0}

\* A decimal numeral, of a text or of a number in a JSON file: its digits
\* without the point, and the power of ten they are to be divided by.
Decimal == [negative : BOOLEAN, digits : Nat, scale : Scales]

Abs(n) == IF n < 0 THEN 0 - n ELSE n

Signed(v) == IF v.negative THEN 0 - v.digits ELSE v.digits

IsWhole(v) == v.digits % v.scale = 0

\* Mutation of Cents: the sign is that of the whole part, "-0.30" is 30 cents.
CentsOfSignedWhole(v) ==
  LET whole == v.digits \div v.scale
      frac  == (v.digits % v.scale) * (100 \div v.scale)
  IN  IF v.negative THEN frac - 100 * whole ELSE 100 * whole + frac

\* cents() of a text with at most two decimals, which are padded to two.
Cents(v) ==
  LET whole == v.digits \div v.scale
      frac  == (v.digits % v.scale) * (100 \div v.scale)
  IN  IF v.negative THEN 0 - (100 * whole + frac) ELSE 100 * whole + frac

FormatCents(c) == [negative |-> c < 0, digits |-> Abs(c), scale |-> 100]

\* Number.toFixed(2).  Which way it rounds a tie depends on the binary number,
\* but the result is used only where it is as good as the amount itself.
ToFixed2(v) ==
  [negative |-> v.negative, scale |-> 100,
   digits |-> (2 * 100 * v.digits + v.scale) \div (2 * v.scale)]

\* So many cents are the numeral, or differ from it by a unit in Precision.
IsNear(c, v) == Abs(c * v.scale - 100 * Signed(v)) <= (100 * v.scale) \div Precision

-----------------------------------------------------------------------------
(* An amount of a ReceiptInput is a number of whole units, or Money.       *)

IsMoney(v) == "cents" \in DOMAIN v

\* moneyFromJsonNumber() throws for a finer amount, unless it is near one of
\* two places: 2.5000000001 is 2.50 ...
AtMostTwoPlaces(v) == IsWhole(v) \/ IsNear(Signed(ToFixed2(v)), v)

\* ... and makes Money of one with a fraction.
MoneyFromJsonNumber(v) == IF IsWhole(v) THEN v ELSE [cents |-> Cents(ToFixed2(v))]

\* amountToCents() throws for a number with a fraction.
IsExact(v) == IsMoney(v) \/ IsWhole(v)

AmountToCents(v) == IF IsMoney(v) THEN v.cents ELSE (Signed(v) \div v.scale) * 100

=============================================================================

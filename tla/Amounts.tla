------------------------------ MODULE Amounts -------------------------------
(***************************************************************************)
(* Amounts as they are written and read: packages/types money.ts and the   *)
(* field of the web client that takes sums and products (lib/money.ts).    *)
(*                                                                         *)
(* An amount is a whole number of minor units, a currency's scale how many *)
(* of them make one.  A decimal is what its text says: a sign, a whole     *)
(* part, a fraction and the scale of the fraction.  Marks, spaces and      *)
(* groups of digits are left out, and a text they make unreadable is not   *)
(* wellFormed.  Scales are powers of ten.                                  *)
(***************************************************************************)
EXTENDS Integers, Sequences

Abs(n) == IF n < 0 THEN -n ELSE n

-----------------------------------------------------------------------------
(* packages/types *)

toDecimalString(value, scale) ==
  [negative |-> value < 0, whole |-> Abs(value) \div scale, fraction |-> Abs(value) % scale,
   scale |-> scale]

HasTooManyDigits(decimal, scale) == decimal.scale > scale

parseDecimalString(decimal, scale) ==
  LET minor == decimal.whole * scale + decimal.fraction * (scale \div decimal.scale)
  IN  IF decimal.negative THEN -minor ELSE minor

-----------------------------------------------------------------------------
(* The field: a sum of pieces, each a product of an amount and factors *)

Value(minor, partial) == [fault |-> "none", minor |-> minor, partial |-> partial]
Fault(what) == [fault |-> what, minor |-> 0, partial |-> FALSE]

(* A half is rounded away from zero. *)
rounded(numerator, denominator) ==
  LET top == Abs(numerator)
      bottom == Abs(denominator)
      up == IF (top % bottom) * 2 >= bottom THEN top \div bottom + 1 ELSE top \div bottom
  IN  IF (numerator < 0) # (denominator < 0) THEN -up ELSE up

readTerm(term, scale) ==
  CASE term.blank                     -> Value(0, TRUE)
    [] ~term.blank /\ ~term.wellFormed -> Fault("shape")
    [] ~term.blank /\ term.wellFormed /\ HasTooManyDigits(term, scale) -> Fault("digits")
    [] OTHER                          -> Value(parseDecimalString(term, scale), FALSE)

(* readFactor, and the division by zero it leaves to its caller. *)
Unusable(factor) == ~factor.wellFormed \/ (factor.op = "/" /\ factor.by = 0)

Over(factor)  == IF factor.op = "*" THEN factor.by ELSE factor.scale
Under(factor) == IF factor.op = "*" THEN factor.scale ELSE factor.by

(* The fraction a product of the first n factors leaves the amount multiplied by. *)
Fraction(factors) ==
  LET upto[n \in 0..Len(factors)] ==
        IF n = 0 THEN <<1, 1>>
                 ELSE <<upto[n - 1][1] * Over(factors[n]), upto[n - 1][2] * Under(factors[n])>>
  IN  upto[Len(factors)]

readProduct(product, scale) ==
  LET term == readTerm(product.first, scale)
      fraction == Fraction(product.factors)
  IN  IF product.factors # <<>> /\ product.first.blank THEN Fault("shape")
      ELSE IF term.fault # "none" \/ product.factors = <<>> THEN term
      ELSE IF \E n \in DOMAIN product.factors : Unusable(product.factors[n]) THEN Fault("shape")
      ELSE Value(rounded(term.minor * fraction[1], fraction[2]), FALSE)

(* What the first n pieces come to, or the first fault among them. *)
Total(pieces, scale) ==
  LET add(sofar, piece) ==
        LET term == readProduct(piece, scale) IN
          IF sofar.fault # "none" THEN sofar
          ELSE IF term.fault # "none" THEN term
          ELSE Value(sofar.minor + (IF piece.negative THEN -term.minor ELSE term.minor),
                     sofar.partial \/ term.partial)
      upto[n \in 0..Len(pieces)] ==
        IF n = 0 THEN Value(0, FALSE) ELSE add(upto[n - 1], pieces[n])
  IN  upto[Len(pieces)]

readAmount(pieces, scale, signed) ==
  LET total == Total(pieces, scale) IN
    IF total.fault = "none" /\ total.minor < 0 /\ ~signed
      THEN [Fault("negative") EXCEPT !.partial = total.partial] ELSE total

-----------------------------------------------------------------------------
(* What they are for *)

(* r is a whole number nearest to n / d, and of two the one further from zero. *)
IsNearest(r, n, d) ==
  /\ 2 * Abs(r * d - n) <= Abs(d)
  /\ 2 * Abs(r * d - n) = Abs(d) => Abs(r * d) > Abs(n)

(* The text of an amount as the field shows it, read back. *)
Shown(value, scale) ==
  LET text == toDecimalString(value, scale) IN
    <<[negative |-> text.negative, factors |-> <<>>,
       first |-> [negative |-> FALSE, whole |-> text.whole, fraction |-> text.fraction,
                  scale |-> text.scale, blank |-> FALSE, wellFormed |-> TRUE]]>>
=============================================================================

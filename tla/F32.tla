--------------------------------- MODULE F32 ---------------------------------
(***************************************************************************)
(* The non-negative single-precision numbers the crate computes with, at a *)
(* precision small enough to enumerate.                                    *)
(*                                                                         *)
(* A value is a natural number counting units of the least subnormal, so   *)
(* that comparison of floats is comparison of naturals.  A finite value is *)
(* m * 2^e with m < 2^Precision and e <= MaxExponent (binary32 has         *)
(* Precision = 24 and MaxExponent = 253).  Inf is the first number beyond  *)
(* the largest finite one on the grid of its binade, which is where IEEE   *)
(* 754 round-to-nearest starts to answer infinity.                         *)
(***************************************************************************)
EXTENDS Integers

CONSTANTS Precision,     (* significant bits of a finite value             *)
          MaxExponent    (* the exponent of the largest binade             *)

ASSUME PrecisionAssumption == Precision \in Nat \ {0} /\ MaxExponent \in Nat

Inf       == 2 ^ (Precision + MaxExponent)
MaxFinite == (2 ^ Precision - 1) * 2 ^ MaxExponent

(* The exponent of the binade x lies in, and the distance between floats there. *)
Binade(x) == CHOOSE e \in 0 .. (MaxExponent + 1) :
                /\ x < 2 ^ (Precision + e)
                /\ \A d \in 0 .. (e - 1) : x >= 2 ^ (Precision + d)
Ulp(x)    == 2 ^ Binade(x)

(* Round to nearest, ties to even, of the exact quotient num / den. *)
NearestEven(num, den) ==
  LET q == num \div den
      r == num % den
  IN  IF 2 * r < den \/ (2 * r = den /\ q % 2 = 0) THEN q ELSE q + 1

Round(x) ==
  IF x >= Inf THEN Inf
  ELSE NearestEven(x, Ulp(x)) * Ulp(x)

RoundSigned(x) == IF x < 0 THEN -Round(-x) ELSE Round(x)

FiniteValues == {x \in 0 .. MaxFinite : Round(x) = x}

(* f32 `+`, `-` and division by a length, on finite operands or Inf. *)
FAdd(x, y) == IF x = Inf \/ y = Inf THEN Inf ELSE RoundSigned(x + y)
FSub(x, y) == RoundSigned(x - y)
FDiv(x, n) ==
  LET u == Ulp(x \div n) IN Round(NearestEven(x, n * u) * u)

(* Cost::next_up: the least finite value above one below MaxFinite. *)
FNextUp(cost) == cost + Ulp(cost)

(* add_distance without its last test: IEEE 754 addition keeps MaxFinite   *)
(* where the exact sum is less than half a unit above it.                  *)
FAddRounding(left, right) == FAdd(left, right)

(***************************************************************************)
(* add_distance: the error-free transformation recovers what the addition  *)
(* rounded away when the sum came back as MaxFinite.                       *)
(***************************************************************************)
FAddDistance(left, right) ==
  LET sum          == FAdd(left, right)
      rightRounded == FSub(sum, left)
      residual     == FAdd(FSub(left, FSub(sum, rightRounded)),
                           FSub(right, rightRounded))
  IN  IF sum = MaxFinite /\ residual > 0 THEN Inf ELSE sum
==============================================================================

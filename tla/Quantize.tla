-------------------------------- MODULE Quantize --------------------------------
(***************************************************************************)
(* perimeter/index/quantize.py for one dimension: the sign bit and the     *)
(* affine int8 code.  Vectors are integers, so what the code divides by    *)
(* 255 is kept as a multiple of 1/255 here.  float32 rounding is left out. *)
(***************************************************************************)
EXTENDS Integers

Bit(v) == IF v > 0 THEN 1 ELSE 0                         \* binarize
hamming_distance(a, b) == IF a = b THEN 0 ELSE 1

(* fit: the smallest value and the width of a sample; a constant sample    *)
(* has width 1.                                                            *)
Minimum(S) == CHOOSE x \in S : \A y \in S : x <= y
Maximum(S) == CHOOSE x \in S : \A y \in S : y <= x
Width(S) == Maximum(S) - Minimum(S)
fit(S) == [minimum |-> Minimum(S), scale |-> IF Width(S) = 0 THEN 1 ELSE Width(S)]

(* np.rint of a / b: to the nearest integer, a tie to the even one. *)
Rint(a, b) ==
  LET low == a \div b
      rest == 2 * (a % b)
  IN IF rest < b \/ (rest = b /\ low % 2 = 0) THEN low ELSE low + 1

Clip(level) == IF level < -128 THEN -128 ELSE IF level > 127 THEN 127 ELSE level

encode(q, v) == Clip(Rint(255 * (v - q.minimum), q.scale) - 128)

decode255(q, code) == (code + 128) * q.scale + 255 * q.minimum

(* The shortcut: the query is scaled once, the codes are not decoded. *)
rescore255(q, query, code) ==
  code * (query * q.scale) + query * (128 * q.scale + 255 * q.minimum)
=============================================================================

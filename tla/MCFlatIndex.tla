------------------------------ MODULE MCFlatIndex ------------------------------
(***************************************************************************)
(* A document of two chunks and one of one chunk; versions whose vectors   *)
(* have different bits, or the same and another score.                     *)
(***************************************************************************)
EXTENDS FlatIndex

CONSTANTS a1, a2, b1, a, b, v, w, x

Document == [c \in Ids |-> IF c = b1 THEN b ELSE a]
Values == [y \in Versions |-> IF y = v THEN -1 ELSE IF y = w THEN 2 ELSE 1]
Directions == {-1, 1}
=============================================================================

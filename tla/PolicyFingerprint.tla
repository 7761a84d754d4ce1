--------------------------- MODULE PolicyFingerprint ---------------------------
(***************************************************************************)
(* policy_fingerprint (perimeter/core/document.py): the bytes it feeds to  *)
(* sha256, taken as injective.  An id is a sequence of character codes;    *)
(* nothing separates or escapes the ids but the sign in front of each.     *)
(***************************************************************************)
EXTENDS Integers, SequencesExt

Plus  == 43
Minus == 45

(* Python's order of strings. *)
Before(s, t) ==
  \E n \in 1..Len(t) :
     /\ \A i \in 1..(n - 1) : i <= Len(s) /\ s[i] = t[i]
     /\ n <= Len(s) => s[n] < t[n]

Signed(sign, ids) ==
  LET ordered == SetToSortSeq(ids, Before)
  IN  FlattenSeq([i \in DOMAIN ordered |-> <<sign>> \o ordered[i]])

policy_fingerprint(content_hash, policy) ==
  <<content_hash>> \o Signed(Plus, policy.grants) \o Signed(Minus, policy.denies)
=============================================================================

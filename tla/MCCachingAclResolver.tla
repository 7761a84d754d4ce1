------------------------- MODULE MCCachingAclResolver -------------------------
(***************************************************************************)
(* Small instances of the resolver cache: a group eng that may be nested   *)
(* in staff, and callers whose front door forwards a group or none.         *)
(***************************************************************************)
EXTENDS CachingAclResolver

CONSTANTS eng, staff

Direct    == {[id |-> u, groups |-> {}] : u \in Users}
Forwarded == {[id |-> u, groups |-> S] : u \in Users, S \in {{}, {eng}, {staff}}}

EngInStaff == [g \in Groups |-> IF g = eng THEN {staff} ELSE {}]
Flat       == [g \in Groups |-> {}]
=============================================================================

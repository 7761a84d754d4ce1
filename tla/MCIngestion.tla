------------------------------ MODULE MCIngestion ------------------------------
(***************************************************************************)
(* Small instances of ingestion: versions of one and two chunks and one    *)
(* that is blank; private and wide differ in policy only.                  *)
(***************************************************************************)
EXTENDS Ingestion, PolicyFingerprint

CONSTANTS wide, private, long, blank, a, b, bad

Spans == [v \in Versions |-> IF v = blank THEN 0 ELSE IF v = long THEN 2 ELSE 1]

(* sha256 over an unambiguous encoding: equal only for equal versions. *)
Injective == [v \in Versions |-> v]

(* private is the version of wide whose policy could not be read; the other *)
(* versions are nobody's already.                                          *)
Nobody == [v \in Versions |-> IF v = wide /\ private \in Versions THEN private ELSE v]

Every == [d \in Docs |-> Versions]
Few   == [d \in Docs |-> IF d = a THEN {wide, long, blank} ELSE {wide}]

Server       == {[entry |-> "server", durable |-> TRUE]}
Cli          == {[entry |-> "cli", durable |-> TRUE]}
ServerOrCli  == [entry : {"server", "cli"}, durable : {TRUE}]
                  \cup {[entry |-> "server", durable |-> FALSE]}

(* One text under three policies: a grant to eng-ops, a grant to eng with  *)
(* a deny of ops, and nobody.                                              *)
Eng == <<101>>
Ops == <<111>>
EngOps == Eng \o <<Minus>> \o Ops

Rewritten == {[grants |-> {EngOps}, denies |-> {}],
              [grants |-> {Eng}, denies |-> {Ops}],
              [grants |-> {}, denies |-> {}]}
OneSpan == [v \in Versions |-> 1]
Encoded == [v \in Versions |-> policy_fingerprint(0, v)]
Withheld == [v \in Versions |-> [grants |-> {}, denies |-> {}]]
=============================================================================

------------------------------ MODULE AclService ------------------------------
(***************************************************************************)
(* What a caller may rely on from a resolver with a TTL, without any       *)
(* signal of membership changes and with any number of threads calling:    *)
(* each call answers with principals that were all true of the caller at   *)
(* some moment less than a TTL before the call began, or later.  The empty *)
(* set is always allowed (an upstream failure answers nothing), and a call *)
(* may raise.                                                              *)
(***************************************************************************)
EXTENDS AclDirectory

CONSTANT Threads

VARIABLE call  \* call[t]: the resolve that thread t is in, if any

Idle == [state |-> "idle"]
Pending(k, since) == [state |-> "pending", key |-> k, since |-> since]
Answered(k, since, S) ==
  [state |-> "answered", key |-> k, since |-> since, permissions |-> S]
Raised == [state |-> "raised"]

vars == <<dir, down, now, lost, call>>

Recent(k, p, since) ==
  LastTrue(k, p) >= since \/ LastTrue(k, p) + TTL > since

Init == DirInit /\ call = [t \in Threads |-> Idle]

Call(t, k) ==
  /\ call[t] = Idle
  /\ call' = [call EXCEPT ![t] = Pending(k, now)]
  /\ UNCHANGED dirVars

Answer(t) ==
  /\ call[t].state = "pending"
  /\ LET k     == call[t].key
         since == call[t].since
     IN  \E S \in SUBSET {p \in Principals : Recent(k, p, since)} :
            call' = [call EXCEPT ![t] = Answered(k, since, S)]
  /\ UNCHANGED dirVars

Raise(t) ==
  /\ call[t].state = "pending"
  /\ call' = [call EXCEPT ![t] = Raised]
  /\ UNCHANGED dirVars

Return(t) ==
  /\ call[t].state \in {"answered", "raised"}
  /\ call' = [call EXCEPT ![t] = Idle]
  /\ UNCHANGED dirVars

Directory ==
  /\ (\E u \in Users, g \in Groups : Change(u, g)) \/ Outage \/ Tick
  /\ UNCHANGED call

Next ==
  \/ \E t \in Threads :
        \/ \E k \in Keys : Call(t, k)
        \/ Answer(t)
        \/ Raise(t)
        \/ Return(t)
  \/ Directory

Spec == Init /\ [][Next]_vars
=============================================================================

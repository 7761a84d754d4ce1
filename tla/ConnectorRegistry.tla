---------------------------- MODULE ConnectorRegistry ----------------------------
(***************************************************************************)
(* The configurations of ConnectorRegistry (perimeter/server/              *)
(* connectors.py), in memory and in a JSON file that every change writes   *)
(* in place, with admin requests in several threads, a write that fails    *)
(* and a process that stops.  Of a configuration there is only its name;   *)
(* what add refuses for its form is refused before anything changes, and   *)
(* ingest, which changes no configuration, is in module Ingestion.         *)
(***************************************************************************)
EXTENDS Integers, FiniteSets

CONSTANTS Names, Threads,
          MaxChanges, \* bound: changes asked for in a behaviour
          MaxFaults   \* bound: failed writes and stops

VARIABLES
  up,       \* "down", "up", or "refused": _load raised
  configs,  \* _configs: names
  file,     \* whether it is "absent", "torn" (truncated) or "whole", and its names
  request,  \* per thread: its change: "none", to "save", to "open" the file or to
            \* "write" it with a text
  changes, faults,  \* counters
  promised, \* history: the configurations when a change was last answered
  certain   \* history: no two changes overlapped, none was cut short

registryVars == <<up, configs, file, request, changes, faults, promised, certain>>

NoRequest == [step |-> "none", text |-> {}]

RegistryInit ==
  /\ up = "down" /\ configs = {}
  /\ file = [state |-> "absent", names |-> {}]
  /\ request = [w \in Threads |-> NoRequest]
  /\ changes = 0 /\ faults = 0
  /\ promised = {} /\ certain = TRUE

Changing == {w \in Threads : request[w].step # "none"}

-----------------------------------------------------------------------------
_load ==
  /\ up = "down"
  /\ up' = IF file.state = "torn" THEN "refused" ELSE "up"
  /\ configs' = file.names
  /\ UNCHANGED <<file, request, changes, faults, promised, certain>>

Change(w) ==
  /\ up = "up" /\ request[w].step = "none" /\ changes < MaxChanges
  /\ changes' = changes + 1
  /\ request' = [request EXCEPT ![w].step = "save"]
  /\ certain' = (certain /\ Changing = {})
  /\ UNCHANGED <<up, file, faults, promised>>

(* Mutant of remove: it changes memory only. *)
remove_MemoryOnly(w, n) ==
  /\ up = "up" /\ request[w].step = "none" /\ changes < MaxChanges
  /\ n \in configs /\ configs' = configs \ {n}
  /\ changes' = changes + 1
  /\ promised' = configs'
  /\ UNCHANGED <<up, file, request, faults, certain>>

add(w, n) == Change(w) /\ n \notin configs /\ configs' = configs \cup {n}
remove(w, n) == Change(w) /\ n \in configs /\ configs' = configs \ {n}

(* _save: the text is made of the configurations, the file is opened,      *)
(* which truncates it, and written; then the request is answered.          *)
Serialise(w) ==
  /\ request[w].step = "save"
  /\ request' = [request EXCEPT ![w] = [step |-> "open", text |-> configs]]
  /\ UNCHANGED <<up, configs, file, changes, faults, promised, certain>>

Truncate(w) ==
  /\ request[w].step = "open"
  /\ request' = [request EXCEPT ![w].step = "write"]
  /\ file' = [state |-> "torn", names |-> {}]
  /\ UNCHANGED <<up, configs, changes, faults, promised, certain>>

Write(w) ==
  /\ request[w].step = "write"
  /\ file' = [state |-> "whole", names |-> request[w].text]
  /\ request' = [request EXCEPT ![w] = NoRequest]
  /\ promised' = configs
  /\ UNCHANGED <<up, configs, changes, faults, certain>>

Fault == faults < MaxFaults /\ faults' = faults + 1

(* OSError, before the file is opened or after: the change stays in memory *)
(* and the request is answered with an error.                              *)
SaveFails(w) ==
  /\ Fault
  /\ request[w].step # "none"
  /\ request' = [request EXCEPT ![w] = NoRequest]
  /\ certain' = FALSE
  /\ UNCHANGED <<up, configs, file, changes, promised>>

Stop ==
  /\ up = "up" /\ Fault
  /\ up' = "down"
  /\ configs' = {}
  /\ request' = [w \in Threads |-> NoRequest]
  /\ certain' = (certain /\ Changing = {})
  /\ UNCHANGED <<file, changes, promised>>

RegistryNext ==
  \/ _load \/ Stop
  \/ \E w \in Threads, n \in Names : add(w, n) \/ remove(w, n)
  \/ \E w \in Threads : Serialise(w) \/ Truncate(w) \/ Write(w) \/ SaveFails(w)

RegistrySpec == RegistryInit /\ [][RegistryNext]_registryVars

-----------------------------------------------------------------------------
(* As long as no two changes overlap and none is cut short, what the admin *)
(* endpoints have answered is what memory and the file have, and what a    *)
(* process that starts finds: no configuration is lost or comes back, and  *)
(* the server does start.  Each condition is needed: the last file written *)
(* need not be the newer one, and one cut short may not be readable.       *)
RestartFindsPromised ==
  certain =>
    /\ up # "refused"
    /\ Changing = {} => file.names = promised /\ (up = "up" => configs = promised)
=============================================================================

------------------------------- MODULE SerialBus -------------------------------
(***************************************************************************)
(* What collectors that share a bus may count on: operations on it are done *)
(* one after the other, and each is answered, once, as if its collector had *)
(* the bus to itself: a read with the register that was asked for, of the   *)
(* device that the collector's operations reach, always the same one.  How  *)
(* that device is found, how many system calls an operation takes and how   *)
(* often it is retried cannot be seen.                                      *)
(***************************************************************************)
CONSTANTS
  Collectors,
  Devices,
  Registers,
  Pending, Done, Failed   \* results that are no register's contents

VARIABLES
  target,   \* the device that each collector's operations reach
  key,      \* what each collector's operations need for themselves
  phase,    \* of the operation of each collector
  op,       \* the operation
  result    \* of the last operation

serialVars == <<target, key, phase, op, result>>

Operations == [client : {"reader", "writer"}, reg : Registers]

SerialInit ==
  /\ target \in [Collectors -> Devices] /\ DOMAIN key = Collectors
  /\ phase = [c \in Collectors |-> "rest"]
  /\ op \in [Collectors -> Operations]
  /\ result = [c \in Collectors |-> Pending]

Ask(c) ==
  /\ phase[c] = "rest" /\ phase' = [phase EXCEPT ![c] = "want"]
  /\ \E o \in Operations : op' = [op EXCEPT ![c] = o]
  /\ result' = [result EXCEPT ![c] = Pending]
  /\ UNCHANGED <<target, key>>

\* Nobody else is using what the operation needs.
Take(c) ==
  /\ phase[c] = "want" /\ phase' = [phase EXCEPT ![c] = "busy"]
  /\ \A e \in Collectors : key[e] = key[c] => phase[e] # "busy"
  /\ UNCHANGED <<target, key, op, result>>

Reply(c) ==
  /\ phase[c] = "busy" /\ phase' = [phase EXCEPT ![c] = "rest"]
  /\ LET answer == IF op[c].client = "reader" THEN <<target[c], op[c].reg>> ELSE Done
     IN  \E r \in {Failed, answer} : result' = [result EXCEPT ![c] = r]
  /\ UNCHANGED <<target, key, op>>

SerialNext == \E c \in Collectors : Ask(c) \/ Take(c) \/ Reply(c)

SerialSpec == SerialInit /\ [][SerialNext]_serialVars
===============================================================================

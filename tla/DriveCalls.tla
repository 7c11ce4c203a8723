----------------------------- MODULE DriveCalls -----------------------------
(***************************************************************************)
(* What an object-dictionary call promises its coroutine, whatever happens *)
(* on the wire: the call ends once, it succeeds only if the drive really   *)
(* executed the request, and the drive executes one request at most once   *)
(* per attempt of the retry budget - possibly after the call has already   *)
(* failed.  ModbusSession implements this specification.                   *)
(***************************************************************************)
EXTENDS Naturals

CONSTANTS
  MaxRequests,   \* bound: how many calls are made
  MaxAttempts    \* RetryPolicy.max_attempts

VARIABLES
  outcome,       \* what the coroutine has seen of each call
  executed       \* how often the drive executed each request

callVars == <<outcome, executed>>

Ids == 1..MaxRequests

CallsInit ==
  /\ outcome = [i \in Ids |-> "none"]
  /\ executed = [i \in Ids |-> 0]

Submit(i) ==
  /\ outcome[i] = "none"
  /\ outcome' = [outcome EXCEPT ![i] = "pending"]
  /\ UNCHANGED executed

Execute(i) ==
  /\ outcome[i] # "none"
  /\ executed[i] < MaxAttempts
  /\ executed' = [executed EXCEPT ![i] = @ + 1]
  /\ UNCHANGED outcome

Complete(i) ==
  /\ outcome[i] = "pending"
  /\ executed[i] > 0
  /\ outcome' = [outcome EXCEPT ![i] = "ok"]
  /\ UNCHANGED executed

GiveUp(i) ==
  /\ outcome[i] = "pending"
  /\ outcome' = [outcome EXCEPT ![i] = "err"]
  /\ UNCHANGED executed

CallsNext == \E i \in Ids : Submit(i) \/ Execute(i) \/ Complete(i) \/ GiveUp(i)

CallsSpec == CallsInit /\ [][CallsNext]_callVars
=============================================================================

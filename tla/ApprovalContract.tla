-------------------------- MODULE ApprovalContract --------------------------
(***************************************************************************)
(* What the approval queue promises about one request, whatever the        *)
(* protocol that carries it out: a decision is made once; only an approved *)
(* request ever has an effect, and it has it at most once; an outcome is   *)
(* published only after the approval, and only once.  A tool call may      *)
(* still land after its request was given up as a conflict, but a request  *)
(* published as succeeded has nothing left to do.                          *)
(***************************************************************************)
EXTENDS Naturals

CONSTANT Requests

VARIABLES
  decision,         \* "none", "approved" or "rejected"
  effects,          \* times the requested effect was brought about
  outcome           \* "open", "succeeded" or "conflict"

vars == <<decision, effects, outcome>>

Init ==
  /\ decision = [r \in Requests |-> "none"]
  /\ effects = [r \in Requests |-> 0]
  /\ outcome = [r \in Requests |-> "open"]

Decide(r) ==
  /\ decision[r] = "none"
  /\ \E d \in {"approved", "rejected"} :
       decision' = [decision EXCEPT ![r] = d]
  /\ UNCHANGED <<effects, outcome>>

(* The effect happens and the outcome is not published with it *)
Effect(r) ==
  /\ decision[r] = "approved"
  /\ effects[r] = 0
  /\ outcome[r] # "succeeded"
  /\ effects' = [effects EXCEPT ![r] = 1]
  /\ UNCHANGED <<decision, outcome>>

(* The outcome is published, together with the effect where both commit at once *)
Settle(r) ==
  /\ decision[r] = "approved"
  /\ outcome[r] = "open"
  /\ \E o \in {"succeeded", "conflict"} :
       outcome' = [outcome EXCEPT ![r] = o]
  /\ \/ UNCHANGED effects
     \/ effects[r] = 0 /\ effects' = [effects EXCEPT ![r] = 1]
  /\ UNCHANGED decision

Next == \E r \in Requests : Decide(r) \/ Effect(r) \/ Settle(r)

Spec == Init /\ [][Next]_vars
=============================================================================

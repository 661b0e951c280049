------------------------------ MODULE OnceOnly ------------------------------
(***************************************************************************)
(* What an idempotency key promises, whoever calls and however often: the   *)
(* first action to use a key owns it for good, that action has its effect    *)
(* at most once, and the one outcome ever reported for the key says whether  *)
(* it did.  GuardedExecution implements it.                                  *)
(***************************************************************************)
EXTENDS Integers

CONSTANTS Keys,     (* idempotency keys of one organization                  *)
          Actions,  (* action fingerprints                                   *)
          NoAction  (* the key was never used                                *)

VARIABLES owner,      (* the action that owns the key                        *)
          performed,  (* how often the key's action has had its effect       *)
          outcome     (* the outcome on record for the key, "NONE" before    *)

vars == <<owner, performed, outcome>>

Outcomes == {"OBSERVED_SUCCEEDED", "OBSERVED_FAILED", "DENIED_NOT_EXECUTED", "UNKNOWN"}

(* What an outcome says about the effect; UNKNOWN says nothing.              *)
Honest(o, n) ==
  /\ o = "OBSERVED_SUCCEEDED" => n = 1
  /\ o \in {"OBSERVED_FAILED", "DENIED_NOT_EXECUTED"} => n = 0

Init ==
  /\ owner = [k \in Keys |-> NoAction]
  /\ performed = [k \in Keys |-> 0]
  /\ outcome = [k \in Keys |-> "NONE"]

Own(k, a) ==
  /\ owner[k] = NoAction
  /\ owner' = [owner EXCEPT ![k] = a]
  /\ UNCHANGED <<performed, outcome>>

Perform(k) ==
  /\ owner[k] # NoAction /\ performed[k] = 0 /\ outcome[k] = "NONE"
  /\ performed' = [performed EXCEPT ![k] = 1]
  /\ UNCHANGED <<owner, outcome>>

Report(k, o) ==
  /\ owner[k] # NoAction /\ outcome[k] = "NONE"
  /\ Honest(o, performed[k])
  /\ outcome' = [outcome EXCEPT ![k] = o]
  /\ UNCHANGED <<owner, performed>>

Next ==
  \E k \in Keys :
    \/ \E a \in Actions : Own(k, a)
    \/ Perform(k)
    \/ \E o \in Outcomes : Report(k, o)

Spec == Init /\ [][Next]_vars
=============================================================================

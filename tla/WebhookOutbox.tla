---------------------------- MODULE WebhookOutbox ----------------------------
(***************************************************************************)
(* What the durable outbox promises about one event row, without leases,   *)
(* workers or attempts: a row is settled as DELIVERED only after its        *)
(* receiver acknowledged it, a DELIVERED row is final, and a DEAD row only  *)
(* comes back through an operator's requeue.  WebhookDelivery implements it.*)
(***************************************************************************)

CONSTANT Rows  (* the rows of webhook_outbox *)

VARIABLES status,       (* the row's status column                           *)
          acknowledged  (* the rows whose receiver has answered 2xx          *)

vars == <<status, acknowledged>>

Open == {"PENDING", "FAILED"}

Init ==
  /\ status = [r \in Rows |-> "PENDING"]
  /\ acknowledged = {}

(* The receiver may answer 2xx at any time, again after the row is settled:  *)
(* delivery is at least once.                                                *)
Acknowledge(r) ==
  /\ acknowledged' = acknowledged \cup {r}
  /\ UNCHANGED status

(* One recorded outcome of an attempt on an open row.                        *)
Settle(r, outcome) ==
  /\ status[r] \in Open
  /\ outcome = "DELIVERED" => r \in acknowledged
  /\ status' = [status EXCEPT ![r] = outcome]
  /\ UNCHANGED acknowledged

Requeue(r) ==
  /\ status[r] = "DEAD"
  /\ status' = [status EXCEPT ![r] = "PENDING"]
  /\ UNCHANGED acknowledged

Next ==
  \E r \in Rows :
    \/ Acknowledge(r)
    \/ \E outcome \in {"DELIVERED", "FAILED", "DEAD"} : Settle(r, outcome)
    \/ Requeue(r)

Spec == Init /\ [][Next]_vars
=============================================================================

----------------------------- MODULE ScanService -----------------------------
(***************************************************************************)
(* What the malware scan promises an upload: it is answered at most once,   *)
(* PASSED only for a file without malware and MALWARE only for one with it, *)
(* whatever fails on the way.                                               *)
(***************************************************************************)
CONSTANTS Uploads

VARIABLES outcome,  (* per upload: what it was told about its file           *)
          clean     (* per upload: no signature of any shard matches the file *)

Outcomes == {"NONE", "REFUSED", "PASSED", "MALWARE", "UNAVAILABLE"}

Init ==
  /\ outcome = [u \in Uploads |-> "NONE"]
  /\ clean \in [Uploads -> BOOLEAN]

Justified(u, o) ==
  /\ o = "PASSED" => clean[u]
  /\ o = "MALWARE" => ~clean[u]

(* One incident may end several uploads at once.                             *)
Tell ==
  /\ clean' = clean
  /\ outcome' \in [Uploads -> Outcomes]
  /\ \A u \in Uploads : outcome'[u] # outcome[u] =>
       outcome[u] = "NONE" /\ Justified(u, outcome'[u])

Spec == Init /\ [][Tell]_<<outcome, clean>>
=============================================================================

----------------------------- MODULE MCDecisions -----------------------------
(* Three decisions taken apart from one another, one of them per behaviour:  *)
(* the authority of an action, the verdict on a medium, a claim on evidence. *)
EXTENDS MCAuthority, Verification, EvidenceStore

VARIABLE rule  (* the decision under examination                             *)

allVars == <<vars, verifyVars, storeVars, rule>>

Words == {"synthetic", "capture", "manipulation", "tamper", "splice", "authentic"}

(* One finding of each kind the resolvers tell apart, positive or negative,  *)
(* scored ones with and without confidence, and conflicting ones.            *)
MCFindings ==
  {Observation({w}, r, 90) : w \in Words, r \in {"positive", "negative"}}
  \cup {Observation({"copyright", "spam"}, "positive", Unrated)}
  \cup {Observation(w, r, c) : w \in {{"source", "claim"}, {"original", "creator"}},
                               r \in {"positive", "inconclusive"}, c \in {0, 40, 100}}
  \cup {[about |-> {w}, result |-> "inconclusive", confidence |-> 100, conflict |-> c] :
          w \in {"synthetic", "capture"}, c \in BOOLEAN}

Seen(d, type) ==
  [subject |-> "agent", digest |-> d, type |-> type, validation |-> "OBSERVED", observed |-> -1]

(* Two observations of one subject that contradict each other, the first     *)
(* fresh for one hour only.                                                  *)
MCObservations == {Seen("d1", "ACTION_CONFIRMATION"), Seen("d2", "OTHER")}

MCInit ==
  /\ rule \in {"authority", "verdict", "claim"}
  /\ Init /\ VerifyInit /\ StoreInit
  /\ rule # "verdict" => declared = "UNKNOWN"

MCNext ==
  /\ UNCHANGED rule
  /\ \/ rule = "authority" /\ Next /\ UNCHANGED <<verifyVars, storeVars>>
     \/ rule = "verdict" /\ VerifyNext /\ UNCHANGED <<vars, storeVars>>
     \/ rule = "claim" /\ StoreNext /\ UNCHANGED <<vars, verifyVars>>

MCSpec == MCInit /\ [][MCNext]_allVars
=============================================================================

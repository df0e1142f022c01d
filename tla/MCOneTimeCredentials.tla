------------------------ MODULE MCOneTimeCredentials ------------------------
(* Instances of OneTimeCredentials for TLC. *)
EXTENDS OneTimeCredentials, TLC

RequestSymmetry == Permutations(Reqs)

KindsInUse ==
    {row[i].kind : i \in {j \in Rows : row[j].status # "none"}}
      \cup {req[r].kind : r \in {q \in Reqs : req[q].pc \in {"create", "cancel"}}}

(* The rows of a behaviour are of one kind: no statement depends on rows of *)
(* two kinds, so mixing them would only multiply the states.  Verification  *)
(* tokens are the exception (a token presented as one of another type): two *)
(* rows of them may mix.  Two device codes are enough, since none of their  *)
(* statements touches more than one row but the sweep.                      *)
Bounded ==
    \/ Cardinality(KindsInUse) <= 1 /\ ("device" \in KindsInUse => nRow <= 2)
    \/ KindsInUse \subseteq Tokens /\ nRow <= 2

StaysBounded == Bounded'
=============================================================================

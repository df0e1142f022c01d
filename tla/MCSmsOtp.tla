------------------------------ MODULE MCSmsOtp ------------------------------
(* Instances of SmsOtp for TLC. *)
EXTENDS SmsOtp, TLC

CONSTANT user   \* one of the buckets

RequestSymmetry == Permutations(Reqs)

\* Every send counts for the user and for the realm; the user's limit is lower.
AllBuckets == [b \in Bindings |-> Buckets]
Limits     == [k \in Buckets |-> IF k = user THEN 2 ELSE 3]
Windows    == [k \in Buckets |-> 1]
=============================================================================

-------------------------- MODULE MCTokenLifecycle --------------------------
(* Instances of TokenLifecycle for TLC. *)
EXTENDS TokenLifecycle, TLC

RequestSymmetry == Permutations(Reqs)

(* Two questions share a run: what happens to the codes and tokens of one   *)
(* session (rotation, reuse, logout, expiry), and what happens to many      *)
(* sessions of one user or service account (the limits), for which codes,   *)
(* tokens, a second client, time and the sweep do not matter.               *)
TokensOfOne  == nSess <= 1 /\ \A r \in Reqs : req[r].user \in Users
SessionsOnly ==
    /\ nCode = 0 /\ nTok = 0 /\ now = 0 /\ cron.step = "sessions"
    /\ \A r \in Reqs : req[r].client = AnyClient /\ ~req[r].offline

(* Time goes from 0, where everything is fresh, to 2, where it has expired; *)
(* a session started then would only repeat the fresh case.                 *)
Profiles ==
    /\ (TokensOfOne \/ SessionsOnly)'
    /\ now = 1 => now' = 2
    /\ now = 2 => nCode' = nCode /\ nSess' = nSess
=============================================================================

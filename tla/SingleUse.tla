----------------------------- MODULE SingleUse -----------------------------
(***************************************************************************)
(* What a one-time credential promises, whatever table keeps it: it is     *)
(* issued once, at most one request takes it out of circulation, and only  *)
(* that request may act on it, once.  The request may also die in between, *)
(* and then the credential is lost.  OneTimeCredentials implements this    *)
(* for every credential whose claim is a DELETE.                           *)
(***************************************************************************)
EXTENDS Naturals

CONSTANT Ids     \* credentials

VARIABLES
    state,       \* where each credential is in its life
    uses         \* how often each one has been acted upon

States == {"unissued", "live", "held", "used", "void"}

\* held: claimed by one request and not acted upon yet; void: lost or withdrawn
Moves == {<<"unissued", "live">>, <<"live", "held">>, <<"live", "void">>,
          <<"held", "used">>, <<"held", "void">>}

Init ==
    /\ state = [i \in Ids |-> "unissued"]
    /\ uses = [i \in Ids |-> 0]

Move(i) ==
    /\ <<state[i], state'[i]>> \in Moves
    /\ uses'[i] = IF state'[i] = "used" THEN uses[i] + 1 ELSE uses[i]

Stay(i) == state'[i] = state[i] /\ uses'[i] = uses[i]

(* One statement may withdraw many credentials, or act on one and issue     *)
(* another: each takes its own step or none.                                *)
Next ==
    /\ state' \in [Ids -> States] /\ uses' \in [Ids -> Nat]
    /\ \A i \in Ids : Move(i) \/ Stay(i)

Spec == Init /\ [][Next]_<<state, uses>>
=============================================================================

---------------------------- MODULE Contribution ----------------------------
(***************************************************************************)
(* What the tracked-rides API promises a rider about the one track a ride   *)
(* may donate: it is offered at most once, it gets at most one verdict,     *)
(* which is final, and points are paid for it only together with an         *)
(* eligible verdict.  A held contribution may lose its rider first (it      *)
(* lapses), and deleting the ride withdraws it; points paid stay paid.      *)
(***************************************************************************)
EXTENDS Integers

CONSTANT Rides

VARIABLES
    contribution,   \* what has become of the track of each ride
    paid            \* the points paid for the track of each ride

Verdicts == {"eligible", "ineligible"}
Stages   == {"none", "held", "lapsed", "withdrawn"} \cup Verdicts

TypeOK ==
    /\ contribution \in [Rides -> Stages]
    /\ paid \in [Rides -> Nat]

Init ==
    /\ contribution = [r \in Rides |-> "none"]
    /\ paid = [r \in Rides |-> 0]

\* Points may be paid for r in the step that makes it eligible, in no other.
Pays(r, stage) ==
    /\ paid'[r] \in Nat
    /\ paid' = [paid EXCEPT ![r] = paid'[r]]
    /\ stage # "eligible" => paid' = paid

\* The track is donated: judged at once, or held until the feed has answered.
Offer(r) ==
    /\ contribution[r] = "none"
    /\ \E stage \in Verdicts \cup {"held"} :
           contribution' = [contribution EXCEPT ![r] = stage] /\ Pays(r, stage)

\* The feed, or the end of the watch window, has answered.
Settle(r) ==
    /\ contribution[r] = "held"
    /\ \E stage \in Verdicts :
           contribution' = [contribution EXCEPT ![r] = stage] /\ Pays(r, stage)

\* De-identification reaches held contributions too, several in one sweep.
Lapse(swept) ==
    /\ \A r \in swept : contribution[r] = "held"
    /\ contribution' = [r \in Rides |-> IF r \in swept THEN "lapsed" ELSE contribution[r]]
    /\ UNCHANGED paid

\* A rider deletes one ride or all of them.
Withdraw(gone) ==
    /\ contribution' = [r \in Rides |-> IF r \in gone THEN "withdrawn" ELSE contribution[r]]
    /\ UNCHANGED paid

Next ==
    \/ \E r \in Rides : Offer(r) \/ Settle(r)
    \/ \E some \in SUBSET Rides : Lapse(some) \/ Withdraw(some)

Spec == Init /\ [][Next]_<<contribution, paid>>
=============================================================================

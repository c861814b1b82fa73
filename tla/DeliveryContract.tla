-------------------------- MODULE DeliveryContract --------------------------
(***************************************************************************)
(* What webhook delivery promises for one event and one endpoint: attempts *)
(* until the receiver answers, the outcome it answered, and no promise     *)
(* across a crash.  An outcome once reached stays.                         *)
(***************************************************************************)
EXTENDS Naturals

CONSTANTS
    Deliveries   \* an event paired with an endpoint it goes to

VARIABLES
    status,      \* idle, trying, delivered, refused or lost
    accepted     \* how many attempts the receiver answered with success

Init ==
    /\ status = [d \in Deliveries |-> "idle"]
    /\ accepted = [d \in Deliveries |-> 0]

(* An event starts a delivery to every endpoint that listens for it.       *)
Start(D) ==
    /\ \A d \in D : status[d] = "idle"
    /\ status' = [d \in Deliveries |-> IF d \in D THEN "trying" ELSE status[d]]
    /\ UNCHANGED accepted

(* Only a delivery under way reaches the receiver.                         *)
Accept(d) ==
    /\ status[d] = "trying"
    /\ accepted' = [accepted EXCEPT ![d] = @ + 1]
    /\ UNCHANGED status

(* A delivery counts as delivered only after the receiver accepted it.     *)
Settle(d) ==
    /\ status[d] = "trying"
    /\ \/ accepted[d] > 0 /\ status' = [status EXCEPT ![d] = "delivered"]
       \/ status' = [status EXCEPT ![d] = "refused"]
    /\ UNCHANGED accepted

(* A failed statement loses one delivery, a crash all of those under way.  *)
Lose(D) ==
    /\ \A d \in D : status[d] = "trying"
    /\ status' = [d \in Deliveries |-> IF d \in D THEN "lost" ELSE status[d]]
    /\ UNCHANGED accepted

Next ==
    \/ \E D \in SUBSET Deliveries : Start(D) \/ Lose(D)
    \/ \E d \in Deliveries : Accept(d) \/ Settle(d)

Spec == Init /\ [][Next]_<<status, accepted>>
=============================================================================

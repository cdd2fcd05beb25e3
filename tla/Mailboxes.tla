------------------------------ MODULE Mailboxes ------------------------------
(***************************************************************************)
(* What the shared event queue promises to each call: a mailbox of its     *)
(* own.  An event arrives in exactly one mailbox, behind everything that   *)
(* arrived before; a delivery takes from every mailbox a (possibly empty)  *)
(* run of its oldest events.  Nothing is lost, nothing is delivered twice, *)
(* and no delivery to one call disturbs the order of another's events:     *)
(* "no way for a filtered read to lose or reorder another call's events"   *)
(* (client.cpp:526-528).                                                   *)
(***************************************************************************)
EXTENDS Integers

CONSTANT Ids    \* the calls sharing one client or server

VARIABLES
    box,        \* box[i]: arrival numbers of i's undelivered events
    clock       \* the last arrival number given out

vars == <<box, clock>>

Init == box = [i \in Ids |-> {}] /\ clock = 0

Arrive(i) ==
    /\ clock' = clock + 1
    /\ box' = [box EXCEPT ![i] = @ \cup {clock + 1}]

\* What is taken from a mailbox is older than what is left in it.
Deliver ==
    /\ \E newbox \in [Ids -> SUBSET (1..clock)] :
          /\ \A i \in Ids : /\ newbox[i] \subseteq box[i]
                            /\ \A m \in box[i] \ newbox[i], n \in newbox[i] : m < n
          /\ box' = newbox
    /\ UNCHANGED clock

Next == Deliver \/ \E i \in Ids : Arrive(i)

Spec == Init /\ [][Next]_vars
=============================================================================

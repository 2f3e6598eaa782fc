----------------------------- MODULE MCRosPubSub -----------------------------
(***************************************************************************)
(* RosPubSub for TLC.  Owners that take turns are as one, so a second one  *)
(* calls only when calls overlap.  What is bounded is the calls that are   *)
(* entered, never the steps of a call under way, so the fairness of Spec   *)
(* is that of every session here.                                          *)
(***************************************************************************)
EXTENDS RosPubSub, FiniteSets

CONSTANT First   \* the owner that calls when calls do not overlap

ASSUME FirstAssumption == First \in Owners

InPublish == {u \in Users : pc[u] \in {"getPublisher", "publish"}}
Entering  == {u \in Users : pc[u] = "addSubscription"}
Entered   == Cardinality({s \in Subs : subNode[s] # None} \cup Entering)

(* While calls take turns: a publisher beside one subscription, or two      *)
(* subscriptions.                                                           *)
Serially ==
    /\ \A o \in Owners \ {First} : pc[o] = "idle"
    /\ Entered > 1 => publisher = None /\ InPublish = {}

(* Once calls overlapped: one start and one subscription, or more starts    *)
(* beside idle users.                                                       *)
Overlapping ==
    \/ starts = 1 /\ Entered <= 1 /\ InPublish = {}
    \/ Entered = 0 /\ \A u \in Users : pc[u] = "idle"

Bounded == IF overlapped THEN Overlapping ELSE Serially

BoundedNext == Next /\ Bounded'

BoundedSpec == Init /\ [][BoundedNext]_vars /\ Fairness
=============================================================================

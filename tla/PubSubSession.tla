--------------------------- MODULE PubSubSession ----------------------------
(***************************************************************************)
(* What start, stop, subscribe and the unsubscribe function of a pubsub    *)
(* promise to the callbacks, as the ROS backend keeps it.  A callback      *)
(* begins only while the pubsub is up or stop has not joined yet, after    *)
(* the one before it has ended and for a subscription that is active.      *)
(* When stop has joined, none runs; when it has taken its node down, every *)
(* subscription is over, and stays so through the starts that follow.      *)
(*                                                                         *)
(* A session in which two calls of start and stop overlapped, or a join    *)
(* gave up on a callback, or a start that raised left a node behind, is    *)
(* contested: callbacks may run at any time and side by side, yet still    *)
(* for active subscriptions only.  A callback begins with the message that *)
(* the thread takes for it.                                                *)
(***************************************************************************)
CONSTANTS Subscriptions, Threads

VARIABLES mode,    \* down, starting, up, stopping, quiet or contested
          life,    \* each subscription: new, active, over
          calling  \* the threads that are in a callback

vars == <<mode, life, calling>>

In(state) == {s \in Subscriptions : life[s] = state}

Init ==
    /\ mode = "down"
    /\ life = [s \in Subscriptions |-> "new"]
    /\ calling = {}

Turn(from, to) ==
    /\ mode = from
    /\ mode' = to
    /\ UNCHANGED <<life, calling>>

Start   == Turn("down", "starting")
Started == Turn("starting", "up")
Failed  == In("active") = {} /\ Turn("starting", "down")
Stop    == Turn("up", "stopping")
Joined  == calling = {} /\ Turn("stopping", "quiet")
Contest == mode # "contested" /\ Turn(mode, "contested")

(* Subscriptions end with the node they were made on. *)
Lapse(some) == life' = [s \in Subscriptions |-> IF s \in some THEN "over" ELSE life[s]]

Release ==
    /\ \/ mode = "quiet" /\ mode' = "down" /\ Lapse(In("active"))
       \/ mode = "contested" /\ UNCHANGED mode /\ \E some \in SUBSET In("active") : Lapse(some)
    /\ UNCHANGED calling

Subscribe(s) ==
    /\ mode # "down"
    /\ life[s] = "new"
    /\ life' = [life EXCEPT ![s] = "active"]
    /\ UNCHANGED <<mode, calling>>

Unsubscribe(s) ==
    /\ life[s] = "active"
    /\ Lapse({s})
    /\ UNCHANGED <<mode, calling>>

Begin(t) ==
    /\ \/ mode \in {"up", "stopping"} /\ calling = {}
       \/ mode = "contested" /\ t \notin calling
    /\ In("active") # {}
    /\ calling' = calling \cup {t}
    /\ UNCHANGED <<mode, life>>

End(t) ==
    /\ t \in calling
    /\ calling' = calling \ {t}
    /\ UNCHANGED <<mode, life>>

Next ==
    \/ Start \/ Started \/ Failed \/ Stop \/ Joined \/ Release \/ Contest
    \/ \E s \in Subscriptions : Subscribe(s) \/ Unsubscribe(s)
    \/ \E t \in Threads : Begin(t) \/ End(t)

Spec == Init /\ [][Next]_vars
=============================================================================

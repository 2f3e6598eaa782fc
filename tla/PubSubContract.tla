--------------------------- MODULE PubSubContract ---------------------------
(***************************************************************************)
(* What a pubsub promises a subscriber (PubSub in spec.py, as the DDS      *)
(* backend keeps it).  A subscription is requested, active from some       *)
(* moment before subscribe() returns, and ended by an unsubscribe function *)
(* of its callback or cut by a stop().  Each sample goes once to every            *)
(* subscription that is active when its dispatch begins.  Samples already  *)
(* taken when stop() comes may still reach subscriptions it cut, and none  *)
(* that was ended before.                                                  *)
(***************************************************************************)
CONSTANTS Subscriptions, Dispatchers,
          Twins  \* the subscriptions made with one and the same callback

VARIABLES life,    \* each subscription: new, requested, active, ended, cut
          calling  \* whom each dispatcher has yet to give its sample

vars == <<life, calling>>

In(state) == {s \in Subscriptions : life[s] = state}

Init ==
    /\ life = [s \in Subscriptions |-> "new"]
    /\ calling = [d \in Dispatchers |-> {}]

Change(s, from, to) ==
    /\ life[s] = from
    /\ life' = [life EXCEPT ![s] = to]
    /\ UNCHANGED calling

Request(s)  == Change(s, "new", "requested")
Activate(s) == Change(s, "requested", "active")

(* An unsubscribe function ends every subscription of its callback. *)
Alike(s) == IF s \in Twins THEN Twins ELSE {s}

End(s) ==
    /\ life[s] \in {"active", "ended", "cut"}
    /\ life' = [u \in Subscriptions |->
                    IF u \in In("active") \cap Alike(s) THEN "ended" ELSE life[u]]
    /\ UNCHANGED calling

(* stop() cuts what is active and what has already found its reader. *)
Cut(found) ==
    /\ life' = [s \in Subscriptions |->
                    IF s \in In("active") \cup found THEN "cut" ELSE life[s]]
    /\ UNCHANGED calling

Dispatch(d) ==
    /\ calling[d] = {}
    /\ \/ calling' = [calling EXCEPT ![d] = In("active")]
       \/ \E late \in SUBSET In("cut") : calling' = [calling EXCEPT ![d] = late]
    /\ UNCHANGED life

Call(d, s) ==
    /\ s \in calling[d]
    /\ calling' = [calling EXCEPT ![d] = @ \ {s}]
    /\ UNCHANGED life

Next ==
    \/ \E s \in Subscriptions : Request(s) \/ Activate(s) \/ End(s)
    \/ \E found \in SUBSET In("requested") : Cut(found)
    \/ \E d \in Dispatchers : Dispatch(d) \/ \E s \in Subscriptions : Call(d, s)

Spec == Init /\ [][Next]_vars
=============================================================================

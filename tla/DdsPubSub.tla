----------------------------- MODULE DdsPubSub ------------------------------
(***************************************************************************)
(* DDS (ddspubsub.py) over DDSService (ddsservice.py): the participant,    *)
(* the writer and reader tables, and the listener that hands each sample   *)
(* to the callbacks registered when its turn comes.  One topic stands for  *)
(* all: the tables are keyed by topic and stop() clears them whole.        *)
(*                                                                         *)
(* Cyclone DDS is external: a reader that left the table loses its last    *)
(* reference and takes no new samples; the batch in hand is finished.      *)
(***************************************************************************)
EXTENDS Naturals

CONSTANTS Clients,       \* threads that use the pubsub
          MaxSubs,       \* bound: calls of subscribe
          Twins,         \* the subscriptions made with one and the same callback
          MaxListeners,  \* bound: listeners ever made
          MaxBatch       \* bound: samples one take returns

None      == 0
Subs      == 1 .. MaxSubs
Listeners == 1 .. MaxListeners

ASSUME DdsAssumption ==
    /\ MaxSubs \in Nat /\ MaxListeners \in Nat /\ MaxBatch \in Nat
    /\ Twins \subseteq Subs

VARIABLES
    pc,           \* next statement of each client
    sub, found,   \* the subscription and the listener a client works on
    participant,  \* _participants holds the domain
    writer,       \* _writers holds the topic
    listener,     \* the topic's entry in _readers and _listeners
    registered,   \* each listener's _callbacks, by subscription
    batch,        \* samples each listener took and has not begun to dispatch
    calling,      \* callbacks left for the sample being dispatched
    issued,       \* subscribe calls so far
    open,         \* subscriptions whose unsubscribe function was returned
    closed,       \* history: subscriptions whose unsubscribe returned
    cut           \* history: subscriptions a stop() took the listener from

clientVars  == <<pc, sub, found>>
tableVars   == <<participant, writer, listener>>
sampleVars  == <<batch, calling>>
historyVars == <<issued, open, closed, cut>>
vars == <<clientVars, tableVars, registered, sampleVars, historyVars>>

Init ==
    /\ pc = [c \in Clients |-> "idle"]
    /\ sub = [c \in Clients |-> None]
    /\ found = [c \in Clients |-> None]
    /\ participant = FALSE /\ writer = FALSE /\ listener = None
    /\ registered = [l \in Listeners |-> {}]
    /\ batch = [l \in Listeners |-> 0]
    /\ calling = [l \in Listeners |-> {}]
    /\ issued = 0 /\ open = {} /\ closed = {} /\ cut = {}

At(c, from, to) ==
    /\ pc[c] = from
    /\ pc' = [pc EXCEPT ![c] = to]

Forget(c) ==
    /\ sub' = [sub EXCEPT ![c] = None]
    /\ found' = [found EXCEPT ![c] = None]

WorkOn(c, s, l) ==
    /\ sub' = [sub EXCEPT ![c] = s]
    /\ found' = [found EXCEPT ![c] = l]

(* Subscriptions that pass the same callback object as s. *)
Alike(s) == IF s \in Twins THEN Twins ELSE {s}

-----------------------------------------------------------------------------
(* The service: the domain's participant is made once and never removed.   *)

StartService(c) ==
    /\ pc[c] = "idle"
    /\ participant' = TRUE
    /\ UNCHANGED <<clientVars, writer, listener, registered, sampleVars, historyVars>>

(* publish; without a participant it raises and changes nothing. *)
GetWriter(c) ==
    /\ pc[c] = "idle"
    /\ participant
    /\ writer' = TRUE
    /\ UNCHANGED <<clientVars, participant, listener, registered, sampleVars, historyVars>>

-----------------------------------------------------------------------------
(* subscribe finds the listener under the table's lock, then adds the       *)
(* callback under the listener's.                                           *)

(* Mutant: each subscribe makes a listener and takes over the table entry.  *)
GetListenerAnew(c) ==
    /\ participant
    /\ issued < MaxSubs
    /\ At(c, "idle", "add")
    /\ \E l \in Listeners :
          /\ listener = None \/ l = listener + 1
          /\ listener' = l
          /\ WorkOn(c, issued + 1, l)
    /\ issued' = issued + 1
    /\ UNCHANGED <<participant, writer, registered, sampleVars, open, closed, cut>>

Made(l) == listener = l \/ registered[l] # {} \/ \E c \in Clients : found[c] = l

GetListener(c) ==
    /\ participant
    /\ issued < MaxSubs
    /\ At(c, "idle", "add")
    /\ \E l \in Listeners :
          /\ IF listener = None THEN ~Made(l) /\ batch[l] = 0 /\ calling[l] = {}
                                ELSE l = listener
          /\ listener' = l
          /\ WorkOn(c, issued + 1, l)
    /\ issued' = issued + 1
    /\ UNCHANGED <<participant, writer, registered, sampleVars, open, closed, cut>>

AddCallback(c) ==
    /\ At(c, "add", "idle")
    /\ registered' = [registered EXCEPT ![found[c]] = @ \cup {sub[c]}]
    /\ open' = open \cup {sub[c]}
    /\ Forget(c)
    /\ UNCHANGED <<tableVars, sampleVars, issued, closed, cut>>

-----------------------------------------------------------------------------
(* The unsubscribe function: it looks the listener up again, and does       *)
(* nothing when the topic has none.  It may be called more than once.       *)

LookupListener(c, s) ==
    /\ s \in open
    /\ \/ /\ listener = None
          /\ pc[c] = "idle"
          /\ closed' = closed \cup {s}
          /\ UNCHANGED clientVars
       \/ /\ listener # None
          /\ At(c, "idle", "remove")
          /\ WorkOn(c, s, listener)
          /\ UNCHANGED closed
    /\ UNCHANGED <<tableVars, registered, sampleVars, issued, open, cut>>

(* Mutants: the callback stays; one entry of it is dropped, not all. *)
RemoveCallbackNot(c) ==
    /\ At(c, "remove", "idle")
    /\ closed' = closed \cup {sub[c]}
    /\ Forget(c)
    /\ UNCHANGED <<tableVars, registered, sampleVars, issued, open, cut>>

RemoveCallbackOnce(c) ==
    /\ At(c, "remove", "idle")
    /\ registered' = [registered EXCEPT ![found[c]] = @ \ {sub[c]}]
    /\ closed' = closed \cup {sub[c]}
    /\ Forget(c)
    /\ UNCHANGED <<tableVars, sampleVars, issued, open, cut>>

(* The filter drops every entry of the same callback. *)
RemoveCallback(c) ==
    /\ At(c, "remove", "idle")
    /\ registered' = [registered EXCEPT ![found[c]] = @ \ Alike(sub[c])]
    /\ closed' = closed \cup {sub[c]}
    /\ Forget(c)
    /\ UNCHANGED <<tableVars, sampleVars, issued, open, cut>>

-----------------------------------------------------------------------------
(* stop: the reader tables are cleared under one lock, the writers under    *)
(* another; the participant stays.                                          *)

StopReaders(c) ==
    /\ At(c, "idle", "stopWriters")
    /\ listener' = None
    /\ cut' = cut \cup (IF listener = None THEN {} ELSE registered[listener])
                  \cup {sub[d] : d \in {e \in Clients :
                                    pc[e] = "add" /\ found[e] = listener}}
    /\ UNCHANGED <<sub, found, participant, writer, registered, sampleVars,
                   issued, open, closed>>

StopWriters(c) ==
    /\ At(c, "stopWriters", "idle")
    /\ writer' = FALSE
    /\ UNCHANGED <<sub, found, participant, listener, registered, sampleVars,
                   historyVars>>

-----------------------------------------------------------------------------
(* on_data_available, on the reader's thread: take a batch, then for each   *)
(* sample go through the callbacks registered at that moment.               *)

Take(l) ==
    /\ l = listener
    /\ batch[l] = 0 /\ calling[l] = {}
    /\ \E n \in 1 .. MaxBatch : batch' = [batch EXCEPT ![l] = n]
    /\ UNCHANGED <<clientVars, tableVars, registered, calling, historyVars>>

NextSample(l) ==
    /\ batch[l] > 0 /\ calling[l] = {}
    /\ batch' = [batch EXCEPT ![l] = @ - 1]
    /\ calling' = [calling EXCEPT ![l] = registered[l]]
    /\ UNCHANGED <<clientVars, tableVars, registered, historyVars>>

(* A callback that raises is logged; the next one is called. *)
CallCallback(l, s) ==
    /\ s \in calling[l]
    /\ calling' = [calling EXCEPT ![l] = @ \ {s}]
    /\ UNCHANGED <<clientVars, tableVars, registered, batch, historyVars>>

-----------------------------------------------------------------------------
ClientStep(c) ==
    \/ StartService(c) \/ GetWriter(c)
    \/ GetListener(c) \/ AddCallback(c)
    \/ (\E s \in Subs : LookupListener(c, s)) \/ RemoveCallback(c)
    \/ StopReaders(c) \/ StopWriters(c)

Next ==
    \/ \E c \in Clients : ClientStep(c)
    \/ \E l \in Listeners : Take(l) \/ NextSample(l)
    \/ \E l \in Listeners, s \in Subs : CallCallback(l, s)

Spec == Init /\ [][Next]_vars

-----------------------------------------------------------------------------
TypeOK ==
    /\ pc \in [Clients -> {"idle", "add", "remove", "stopWriters"}]
    /\ sub \in [Clients -> Subs \cup {None}]
    /\ found \in [Clients -> Listeners \cup {None}]
    /\ {participant, writer} \subseteq BOOLEAN
    /\ listener \in Listeners \cup {None}
    /\ registered \in [Listeners -> SUBSET Subs]
    /\ batch \in [Listeners -> 0 .. MaxBatch]
    /\ calling \in [Listeners -> SUBSET Subs]
    /\ issued \in 0 .. MaxSubs
    /\ open \subseteq 1 .. issued /\ closed \subseteq open /\ cut \subseteq 1 .. issued
    /\ \A c \in Clients : pc[c] \in {"add", "remove"} => None \notin {sub[c], found[c]}

(* A subscription that subscribe() returned is served by the topic's reader *)
(* until its callback is unsubscribed or the service stops, whatever other  *)
(* threads subscribe, unsubscribe or publish meanwhile.                     *)
ActiveDelivers ==
    \A s \in open \ cut :
        Alike(s) \cap closed = {} => listener # None /\ s \in registered[listener]

(* A sample whose dispatch begins after an unsubscribe function returned is *)
(* not given to its subscription, except by a reader that stop() had        *)
(* discarded with a batch in hand.                                          *)
NewSample(l) == calling'[l] \ calling[l]

UnsubscribeHolds ==
    [][\A l \in Listeners : NewSample(l) \cap closed # {} => l # listener]_vars

(* DDS keeps the promise of PubSubContract. *)
Life(s) ==
    CASE s > issued -> "new"
      [] s \in cut -> "cut"
      [] listener # None /\ s \in registered[listener] -> "active"
      [] s \notin cut /\ \E c \in Clients : pc[c] = "add" /\ sub[c] = s -> "requested"
      [] OTHER -> "ended"

Contract == INSTANCE PubSubContract
    WITH Subscriptions <- Subs, Dispatchers <- Listeners,
         life <- [s \in Subs |-> Life(s)]

ImplementsContract == Contract!Spec
=============================================================================

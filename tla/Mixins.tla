------------------------------- MODULE Mixins -------------------------------
(***************************************************************************)
(* What spec.py builds on publish and subscribe: queue and aiter, which    *)
(* feed an asyncio queue from a callback; AllPubSub.subscribe_new_topics,  *)
(* which announces a topic at its first message; and                       *)
(* DiscoveryPubSub.subscribe_all, which subscribes to each topic that is   *)
(* discovered.  One reader, one watcher and one subscribe_all use the same *)
(* bus, each once.                                                         *)
(*                                                                         *)
(* The bus is external: dispatchers are the middleware's threads, each     *)
(* hands a message to the callbacks registered for its topic when the      *)
(* dispatch began.  A callback that raises is logged by the DDS listener   *)
(* and ends the spin thread of a RawROS.                                   *)
(***************************************************************************)
EXTENDS Naturals

CONSTANTS Topics,
          QueueTopic,   \* the topic whose messages the queue takes
          Dispatchers,  \* threads of the middleware
          MaxPending,   \* bounds: of max_pending,
          MaxQueued     \* and of an unbounded queue's length

None  == "none"

ASSUME MixinsAssumption ==
    /\ QueueTopic \in Topics /\ None \notin Topics
    /\ MaxPending \in Nat /\ MaxQueued \in Nat

(* Callbacks that keep state; what subscribe_all's own does is its user's.  *)
Roles == {"queue", "watch"}

VARIABLES
    isolating,    \* the bus goes on after a callback that raised
    maxsize,      \* of the asyncio queue; 0 is unbounded
    bus,          \* registered callbacks: role and topic
    message,      \* the topic of the message each dispatcher has in hand
    todo,         \* the roles it has yet to call
    dead,         \* dispatchers ended by a callback that raised
    reader,       \* the task that reads the queue, and where in get() it is
    queued,       \* messages in the queue
    missed,       \* history: how many were put after the reader had found none
                  \* and before it waited
    lock,         \* holders of subscribe_new_topics's lock
    fresh,        \* those that found their topic unseen
    seen,         \* its set of topics
    announced,    \* calls of its callback
    all,          \* subscribe_all: off, on, copying, ending, ended, raised
    reported,     \* topics whose on_new_topic runs and has not subscribed,
    joining,      \* has subscribed and not appended,
    subscribed,   \* has appended: the list of subscriptions
    ending,       \* unsubscribe_all's copy of it
    late          \* history: topics whose on_new_topic ran when the copy was made

busVars   == <<isolating, maxsize, bus>>
midVars   == <<message, todo, dead>>
queueVars == <<reader, queued, missed>>
watchVars == <<lock, fresh, seen, announced>>
allVars   == <<all, reported, joining, subscribed, ending, late>>
vars == <<busVars, midVars, queueVars, watchVars, allVars>>

Init ==
    /\ isolating \in BOOLEAN
    /\ maxsize \in 0 .. MaxPending
    /\ bus = {}
    /\ message = [d \in Dispatchers |-> None]
    /\ todo = [d \in Dispatchers |-> {}]
    /\ dead = {}
    /\ reader = "off" /\ queued = 0 /\ missed = 0
    /\ lock = {} /\ fresh = {} /\ seen = {} /\ announced = [t \in Topics |-> 0]
    /\ all = "off" /\ reported = {} /\ joining = {}
    /\ subscribed = {} /\ ending = {} /\ late = {}

-----------------------------------------------------------------------------
(* The bus.                                                                 *)

Begin(d, t) ==
    /\ d \notin dead /\ message[d] = None
    /\ \E r \in Roles : <<r, t>> \in bus
    /\ message' = [message EXCEPT ![d] = t]
    /\ todo' = [todo EXCEPT ![d] = {r \in Roles : <<r, t>> \in bus}]
    /\ UNCHANGED <<busVars, dead, queueVars, watchVars, allVars>>

Reading == {"open", "tested", "waiting", "woken"}

(* Bound: an unbounded queue is drained or left before it grows further.    *)
MayCall(d, r) ==
    /\ r \in todo[d] /\ d \notin lock
    /\ r = "queue" => maxsize > 0 \/ queued < MaxQueued \/ reader \notin Reading

Return(d, r) ==
    /\ todo' = [todo EXCEPT ![d] = @ \ {r}]
    /\ message' = [message EXCEPT ![d] = IF todo[d] = {r} THEN None ELSE @]
    /\ UNCHANGED dead

Raise(d, r) ==
    IF isolating THEN Return(d, r)
    ELSE /\ dead' = dead \cup {d}
         /\ todo' = [todo EXCEPT ![d] = {}]
         /\ message' = [message EXCEPT ![d] = None]

-----------------------------------------------------------------------------
(* queue and aiter: the callback puts without waiting, on the middleware's  *)
(* thread, into a queue that is for the threads of the event loop only.  A  *)
(* full queue raises there.                                                 *)

OpenQueue ==
    /\ reader = "off"
    /\ reader' = "open"
    /\ bus' = bus \cup {<<"queue", QueueTopic>>}
    /\ UNCHANGED <<isolating, maxsize, midVars, queued, missed, watchVars, allVars>>

Full == maxsize > 0 /\ queued >= maxsize

(* Mutant: no getter is resolved. *)
PutSilently(d) ==
    /\ MayCall(d, "queue")
    /\ IF Full
       THEN Raise(d, "queue") /\ UNCHANGED queueVars
       ELSE /\ Return(d, "queue")
            /\ queued' = IF maxsize = 0 /\ queued = MaxQueued THEN queued ELSE queued + 1
            /\ missed' = IF reader = "tested" THEN missed + 1 ELSE missed
            /\ UNCHANGED reader
    /\ UNCHANGED <<busVars, watchVars, allVars>>

(* The getter of a reader that waits is resolved; one that is not there yet *)
(* is not.  Past MaxQueued, which only a reader that is gone lets happen,   *)
(* the length no longer counts.                                             *)
Put(d) ==
    /\ MayCall(d, "queue")
    /\ IF Full
       THEN Raise(d, "queue") /\ UNCHANGED queueVars
       ELSE /\ Return(d, "queue")
            /\ queued' = IF maxsize = 0 /\ queued = MaxQueued THEN queued ELSE queued + 1
            /\ missed' = IF reader = "tested" THEN missed + 1 ELSE missed
            /\ reader' = IF reader = "waiting" THEN "woken" ELSE reader
    /\ UNCHANGED <<busVars, watchVars, allVars>>

(* get() of the asyncio queue: a message that is there is taken; else the   *)
(* reader, having tested, registers a getter and waits.                     *)
ReaderStep(from, to) ==
    /\ reader = from
    /\ reader' = to
    /\ UNCHANGED <<busVars, midVars, queued, watchVars, allVars>>

Get ==
    /\ reader = "open" /\ queued > 0
    /\ queued' = queued - 1
    /\ UNCHANGED <<busVars, midVars, reader, missed, watchVars, allVars>>

TestEmpty == queued = 0 /\ missed' = 0 /\ ReaderStep("open", "tested")
AddGetter == UNCHANGED missed /\ ReaderStep("tested", "waiting")

(* The loop runs the task again: not for the resolved getter, which nothing *)
(* in a foreign thread tells it of, but when it next turns.                 *)
LoopTurns == UNCHANGED missed /\ ReaderStep("woken", "open")

(* A loop over aiter that is left keeps its subscription until the          *)
(* generator is closed; the queue context unsubscribes on the way out.      *)
Leave ==
    /\ reader \in Reading \ {"tested"}
    /\ reader' = "left"
    /\ UNCHANGED <<busVars, midVars, queued, missed, watchVars, allVars>>

CloseQueue ==
    /\ reader \in (Reading \ {"tested"}) \cup {"left"}
    /\ reader' = "closed"
    /\ bus' = bus \ {<<"queue", QueueTopic>>}
    /\ UNCHANGED <<isolating, maxsize, midVars, queued, missed, watchVars, allVars>>

-----------------------------------------------------------------------------
(* AllPubSub.subscribe_new_topics: subscribe_all with a callback that       *)
(* tests, adds and announces under a lock of its own.                       *)

Watching == {"watch"} \X Topics

Watch ==
    /\ Watching \cap bus = {} /\ seen = {}
    /\ bus' = bus \cup Watching
    /\ UNCHANGED <<isolating, maxsize, midVars, queueVars, watchVars, allVars>>

Unwatch ==
    /\ Watching \subseteq bus
    /\ bus' = bus \ Watching
    /\ UNCHANGED <<isolating, maxsize, midVars, queueVars, watchVars, allVars>>

(* Mutant: nobody waits for the lock. *)
TakeLockNot(d) ==
    /\ MayCall(d, "watch")
    /\ lock' = lock \cup {d}
    /\ UNCHANGED <<busVars, midVars, queueVars, fresh, seen, announced, allVars>>

TakeLock(d) ==
    /\ MayCall(d, "watch")
    /\ lock = {}
    /\ lock' = {d}
    /\ UNCHANGED <<busVars, midVars, queueVars, fresh, seen, announced, allVars>>

TestSeen(d) ==
    /\ d \in lock \ fresh
    /\ IF message[d] \in seen
       THEN lock' = lock \ {d} /\ Return(d, "watch") /\ UNCHANGED fresh
       ELSE fresh' = fresh \cup {d} /\ UNCHANGED <<midVars, lock>>
    /\ UNCHANGED <<busVars, queueVars, seen, announced, allVars>>

(* The watcher's own callback may raise, with the topic in seen.            *)
Announce(d) ==
    /\ d \in fresh
    /\ seen' = seen \cup {message[d]}
    /\ announced' = [announced EXCEPT ![message[d]] = @ + 1]
    /\ lock' = lock \ {d} /\ fresh' = fresh \ {d}
    /\ Return(d, "watch") \/ Raise(d, "watch")
    /\ UNCHANGED <<busVars, queueVars, allVars>>

-----------------------------------------------------------------------------
(* DiscoveryPubSub.subscribe_all over the native subscribe_new_topics,      *)
(* which calls on_new_topic for a topic on a thread of its own, again only  *)
(* if the call raised, and starts no call after its unsubscribe function    *)
(* returned.                                                                *)

SubscribeAll ==
    /\ all = "off"
    /\ all' = "on"
    /\ UNCHANGED <<busVars, midVars, queueVars, watchVars, reported, joining,
                   subscribed, ending, late>>

(* Mutant: the discovery goes on after its unsubscribe function. *)
ReportAlways(t) ==
    /\ all # "off"
    /\ t \notin reported \cup joining \cup subscribed
    /\ reported' = reported \cup {t}
    /\ UNCHANGED <<busVars, midVars, queueVars, watchVars, all, joining,
                   subscribed, ending, late>>

Report(t) ==
    /\ all = "on"
    /\ t \notin reported \cup joining \cup subscribed
    /\ reported' = reported \cup {t}
    /\ UNCHANGED <<busVars, midVars, queueVars, watchVars, all, joining,
                   subscribed, ending, late>>

(* subscribe raises, and on_new_topic with it, or returns.                  *)
JoinTopic(t) ==
    /\ t \in reported
    /\ reported' = reported \ {t}
    /\ \/ UNCHANGED <<bus, joining>>
       \/ joining' = joining \cup {t} /\ bus' = bus \cup {<<"all", t>>}
    /\ UNCHANGED <<isolating, maxsize, midVars, queueVars, watchVars, all,
                   subscribed, ending, late>>

AppendTopic(t) ==
    /\ t \in joining
    /\ joining' = joining \ {t}
    /\ subscribed' = subscribed \cup {t}
    /\ UNCHANGED <<busVars, midVars, queueVars, watchVars, all, reported, ending, late>>

(* unsubscribe_all; the caller may call it again, with what is appended now. *)
(* The unsubscribe of the discovery that raises leaves everything as it is;  *)
(* that of a topic, whether it did its work or not, ends the loop.           *)
EndDiscovery ==
    /\ all = "on"
    /\ all' = "copying"
    /\ UNCHANGED <<busVars, midVars, queueVars, watchVars, reported, joining,
                   subscribed, ending, late>>

Copy ==
    /\ all \in {"copying", "ended", "raised"}
    /\ all' = "ending"
    /\ ending' = subscribed
    /\ late' = reported \cup joining
    /\ UNCHANGED <<busVars, midVars, queueVars, watchVars, reported, joining, subscribed>>

EndTopic(t) ==
    /\ all = "ending" /\ t \in ending
    /\ \/ UNCHANGED all /\ ending' = ending \ {t} /\ bus' = bus \ {<<"all", t>>}
       \/ all' = "raised" /\ UNCHANGED ending /\ bus' \in {bus, bus \ {<<"all", t>>}}
    /\ UNCHANGED <<isolating, maxsize, midVars, queueVars, watchVars, reported,
                   joining, subscribed, late>>

EndAll ==
    /\ all = "ending" /\ ending = {}
    /\ all' = "ended"
    /\ UNCHANGED <<busVars, midVars, queueVars, watchVars, reported, joining,
                   subscribed, ending, late>>

-----------------------------------------------------------------------------
Dispatch(d) == Put(d) \/ TakeLock(d) \/ TestSeen(d) \/ Announce(d)

UseQueue  == OpenQueue \/ Get \/ TestEmpty \/ AddGetter \/ LoopTurns \/ Leave \/ CloseQueue
UseWatch  == Watch \/ Unwatch
UseAll    == SubscribeAll \/ EndDiscovery \/ Copy \/ EndAll
Discovery == \E t \in Topics : Report(t) \/ JoinTopic(t) \/ AppendTopic(t) \/ EndTopic(t)

Next ==
    \/ \E d \in Dispatchers, t \in Topics : Begin(d, t)
    \/ \E d \in Dispatchers : Dispatch(d)
    \/ UseQueue \/ UseWatch \/ UseAll \/ Discovery

Spec == Init /\ [][Next]_vars

-----------------------------------------------------------------------------
(* Besides the types: a bounded queue never holds more than its maxsize.    *)
TypeOK ==
    /\ isolating \in BOOLEAN
    /\ maxsize \in 0 .. MaxPending
    /\ bus \subseteq (Roles \cup {"all"}) \X Topics
    /\ message \in [Dispatchers -> Topics \cup {None}]
    /\ todo \in [Dispatchers -> SUBSET Roles]
    /\ dead \subseteq Dispatchers
    /\ reader \in {"off", "left", "closed"} \cup Reading
    /\ queued \in 0 .. (IF maxsize > 0 THEN maxsize ELSE MaxQueued)
    /\ missed \in Nat
    /\ lock \subseteq Dispatchers /\ fresh \subseteq lock
    /\ seen \subseteq Topics
    /\ announced \in [Topics -> Nat]
    /\ all \in {"off", "on", "copying", "ending", "ended", "raised"}
    /\ reported \subseteq Topics /\ joining \subseteq Topics
    /\ subscribed \subseteq Topics
    /\ ending \subseteq subscribed
    /\ late \subseteq Topics

(* When on_msg returns for a message, the watcher's callback has been called *)
(* for its topic, once, whatever other dispatchers did with it meanwhile and *)
(* whether or not the callback raised.                                       *)
AnnouncedOnce ==
    [][\A d \in Dispatchers \ dead' :
           "watch" \in todo[d] \ todo'[d] => announced'[message[d]] = 1]_vars

(* When unsubscribe_all has returned, the topics still subscribed are those  *)
(* whose discovery was under way when it copied the list; when an            *)
(* unsubscribe of its loop raised, that topic and those after it besides.    *)
EndsClean ==
    all \in {"ended", "raised"} =>
        \A t \in Topics : <<"all", t>> \in bus => t \in late \cup ending

(* The subscription feeds the queue: a reader that waits has read all there  *)
(* is, but for the messages put after its test and before its getter, which  *)
(* wake nobody: put_nowait is called on another thread than the reader's,   *)
(* which asyncio queues are not made for.                                   *)
ReaderFed == reader = "waiting" => queued = missed
=============================================================================

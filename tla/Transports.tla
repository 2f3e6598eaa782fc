----------------------------- MODULE Transports -----------------------------
(***************************************************************************)
(* The transports of a stream (transport.py).  A transport starts its      *)
(* pubsub on first use.  Three families do it differently: the LCM and     *)
(* shared-memory transports test the flag _started without a lock,         *)
(* ROSTransport makes a DimosROS per start and keeps it in _ros without a   *)
(* lock, DDSTransport holds a re-entrant lock over every call.             *)
(*                                                                         *)
(* Any thread may call any method, and every call of a pubsub may raise;   *)
(* the exception leaves the method, past the statements after the call.    *)
(* The pubsub under a transport is the subject of RosPubSub and DdsPubSub; *)
(* here it is made, up or down.                                            *)
(***************************************************************************)
EXTENDS Naturals, FiniteSets

CONSTANTS Threads,
          MaxPubsubs   \* bound: DimosROS objects a ROSTransport ever makes

ASSUME TransportsAssumption == MaxPubsubs \in Nat \ {0}

None    == 0
Pubsubs == 1 .. MaxPubsubs
Kinds   == {"base", "ros", "dds"}
Uses    == {"broadcast", "subscribe"}
Calls   == Uses \cup {"start", "stop"}

VARIABLES
    kind,       \* the family of the transport
    pc, call,   \* next statement and method of each thread
    hand,       \* the pubsub a thread has loaded from _ros or _backend
    started,    \* self._started
    ros,        \* self._ros
    pubsub,     \* pubsubs: none, made, up, down
    unstarted,  \* history: pubsubs whose start raised, with none completed since
    unstopped,  \* history: pubsubs whose stop raised, with none completed since
    holder,     \* who holds _start_lock
    depth,      \* how often
    contested,  \* history: threads whose call met a start or stop of another
    overlapped  \* history: two threads were inside a start or stop at once

vars == <<kind, pc, call, hand, started, ros, pubsub, unstarted, unstopped, holder, depth,
          contested, overlapped>>

(* What a pubsub is and whether its last start and stop returned.           *)
pubsubs == <<pubsub, unstarted, unstopped>>

Init ==
    /\ kind \in Kinds
    /\ pc = [c \in Threads |-> "idle"]
    /\ call = [c \in Threads |-> "start"]
    /\ hand = [c \in Threads |-> None]
    /\ started = FALSE
    /\ ros = None
    /\ pubsub = [i \in Pubsubs |-> IF kind # "ros" /\ i = 1 THEN "made" ELSE "none"]
    /\ unstarted = {} /\ unstopped = {}
    /\ holder = {} /\ depth = 0
    /\ contested = {} /\ overlapped = FALSE

(* Statements inside a start or a stop. *)
Changing == {"startBackend", "setFlag", "stopBackend", "clearFlag",
             "create", "loadStart", "startRos", "loadStop", "stopRos", "dropRos",
             "startDds", "markStarted", "stopDds", "markStopped"}

Goto(c, from, to) ==
    /\ pc[c] = from
    /\ pc' = [pc EXCEPT ![c] = to]

(* Taken with every step: who is inside a start or stop while others call. *)
Witness ==
    LET changing == {c \in Threads : pc'[c] \in Changing}
        others(c) == changing \ {c}
    IN  /\ contested' = {c \in Threads :
                            pc'[c] # "idle" /\ (c \in contested \/ others(c) # {})}
        /\ overlapped' = (overlapped \/ \E c \in changing : others(c) # {})

Load(c, i)   == hand' = [hand EXCEPT ![c] = i]

(* A pubsub is made, started or stopped: as it should, or with an exception *)
(* after which a pubsub that was to start is as before (what a start that   *)
(* fails half-way leaves inside a DimosROS is the subject of RosPubSub) and *)
(* one that was to stop may be up or down.                                  *)
Become(i, s) ==
    /\ pubsub' = [pubsub EXCEPT ![i] = s]
    /\ unstarted' = unstarted \ {i} /\ unstopped' = unstopped \ {i}

StartRaises(i) ==
    /\ unstarted' = unstarted \cup {i}
    /\ UNCHANGED <<pubsub, unstopped>>

StopRaises(i) ==
    /\ unstopped' = unstopped \cup {i}
    /\ pubsub' \in {pubsub, [pubsub EXCEPT ![i] = "down"]}
    /\ UNCHANGED unstarted

(* Bound: a call begins only while a DimosROS is left for it. *)
Room == Cardinality({i \in Pubsubs : pubsub[i] = "none"})
            > Cardinality({c \in Threads : pc[c] # "idle"})

Begin(c, m) ==
    /\ kind = "ros" /\ m # "stop" => Room
    /\ Goto(c, "idle", IF kind = "dds" THEN "acquire" ELSE "test")
    /\ call' = [call EXCEPT ![c] = m]
    /\ UNCHANGED <<hand, started, ros, pubsubs, holder, depth>>

(* Where a start goes on: the call it was made for, or the end. *)
Started(c) == IF call[c] \in Uses THEN "use" ELSE "idle"

-----------------------------------------------------------------------------
(* PubSubTransport: start and stop are unconditional, _ensure_started tests *)
(* the flag.                                                                *)

EnsureStarted(c) ==
    /\ kind = "base"
    /\ Goto(c, "test", CASE call[c] = "stop"               -> "stopBackend"
                         [] call[c] = "start" \/ ~started -> "startBackend"
                         [] OTHER                          -> "use")
    /\ UNCHANGED <<hand, started, ros, pubsubs, holder, depth>>

StartBackend(c) ==
    /\ \/ Goto(c, "startBackend", "setFlag") /\ Become(1, "up")
       \/ Goto(c, "startBackend", "failed") /\ StartRaises(1)
    /\ UNCHANGED <<hand, started, ros, holder, depth>>

SetFlag(c) ==
    /\ Goto(c, "setFlag", Started(c))
    /\ started' = TRUE
    /\ UNCHANGED <<hand, ros, pubsubs, holder, depth>>

StopBackend(c) ==
    /\ \/ Goto(c, "stopBackend", "clearFlag") /\ Become(1, "down")
       \/ Goto(c, "stopBackend", "failed") /\ StopRaises(1)
    /\ UNCHANGED <<hand, started, ros, holder, depth>>

ClearFlag(c) ==
    /\ Goto(c, "clearFlag", "idle")
    /\ started' = FALSE
    /\ UNCHANGED <<hand, ros, pubsubs, holder, depth>>

-----------------------------------------------------------------------------
(* ROSTransport.  Each mention of self._ros is a read of its own.           *)

RosTest(c) ==
    /\ kind = "ros"
    /\ Goto(c, "test", CASE call[c] = "stop"  -> (IF ros = None THEN "idle" ELSE "loadStop")
                         [] call[c] = "start" -> "startTest"
                         [] OTHER             -> (IF ros = None THEN "startTest" ELSE "use"))
    /\ UNCHANGED <<hand, started, ros, pubsubs, holder, depth>>

(* After start() the caller asserts that self._ros is set. *)
RosStarted(c) == IF call[c] \in Uses THEN "assert" ELSE "idle"

RosStartTest(c) ==
    /\ Goto(c, "startTest", IF ros = None THEN "create" ELSE RosStarted(c))
    /\ UNCHANGED <<hand, started, ros, pubsubs, holder, depth>>

(* DimosROS() raises where rclpy is not installed.                          *)
RosCreate(c) ==
    /\ \/ /\ Goto(c, "create", "loadStart")
          /\ \E i \in Pubsubs :
                /\ pubsub[i] = "none" /\ \A j \in Pubsubs : j < i => pubsub[j] # "none"
                /\ ros' = i
                /\ Become(i, "made")
       \/ Goto(c, "create", "failed") /\ UNCHANGED <<ros, pubsubs>>
    /\ UNCHANGED <<hand, started, holder, depth>>

RosLoad(c, from, to) ==
    /\ Goto(c, from, IF ros = None THEN "raised" ELSE to)
    /\ Load(c, ros)
    /\ UNCHANGED <<started, ros, pubsubs, holder, depth>>

(* A start that raises leaves its pubsub in _ros, where no later call       *)
(* starts it again.                                                         *)
RosStart(c) ==
    /\ \/ Goto(c, "startRos", RosStarted(c)) /\ Become(hand[c], "up")
       \/ Goto(c, "startRos", "failed") /\ StartRaises(hand[c])
    /\ Load(c, None)
    /\ UNCHANGED <<started, ros, holder, depth>>

RosAssert(c) ==
    /\ Goto(c, "assert", IF ros = None THEN "raised" ELSE "use")
    /\ UNCHANGED <<hand, started, ros, pubsubs, holder, depth>>

(* DimosROS.stop returns at once when it was not started. *)
RosStop(c) ==
    /\ \/ /\ Goto(c, "stopRos", "dropRos")
          /\ Become(hand[c], IF pubsub[hand[c]] = "up" THEN "down" ELSE pubsub[hand[c]])
       \/ Goto(c, "stopRos", "failed") /\ StopRaises(hand[c])
    /\ Load(c, None)
    /\ UNCHANGED <<started, ros, holder, depth>>

(* Mutant: the stopped pubsub is kept. *)
RosDropForgotten(c) ==
    /\ Goto(c, "dropRos", "idle")
    /\ UNCHANGED <<hand, started, ros, pubsubs, holder, depth>>

RosDrop(c) ==
    /\ Goto(c, "dropRos", "idle")
    /\ ros' = None
    /\ UNCHANGED <<hand, started, pubsubs, holder, depth>>

-----------------------------------------------------------------------------
(* DDSTransport: every method runs under the re-entrant _start_lock, which  *)
(* broadcast and subscribe take a second time when they call start.         *)

(* Mutant: the method does not wait for the lock. *)
DdsAcquireNot(c) ==
    /\ Goto(c, "acquire", "test")
    /\ holder' = {c} /\ depth' = 1
    /\ UNCHANGED <<hand, started, ros, pubsubs>>

DdsAcquire(c) ==
    /\ holder = {}
    /\ Goto(c, "acquire", "test")
    /\ holder' = {c} /\ depth' = 1
    /\ UNCHANGED <<hand, started, ros, pubsubs>>

DdsTest(c) ==
    /\ kind = "dds"
    /\ Goto(c, "test", CASE call[c] = "stop"  -> (IF started THEN "stopDds" ELSE "release")
                         [] call[c] = "start" -> (IF started THEN "release" ELSE "startDds")
                         [] OTHER             -> (IF started THEN "use" ELSE "reacquire"))
    /\ UNCHANGED <<hand, started, ros, pubsubs, holder, depth>>

DdsReacquire(c) ==
    /\ holder \subseteq {c}
    /\ Goto(c, "reacquire", IF started THEN "leaveStart" ELSE "startDds")
    /\ holder' = {c} /\ depth' = depth + 1
    /\ UNCHANGED <<hand, started, ros, pubsubs>>

(* Mutant: the flag is set in a finally block. *)
DdsStartFinally(c) ==
    /\ \/ Goto(c, "startDds", "markStarted") /\ Become(1, "up")
       \/ Goto(c, "startDds", "markStarted") /\ StartRaises(1)
    /\ UNCHANGED <<hand, started, ros, holder, depth>>

DdsStart(c) ==
    /\ \/ Goto(c, "startDds", "markStarted") /\ Become(1, "up")
       \/ Goto(c, "startDds", "failed") /\ StartRaises(1)
    /\ UNCHANGED <<hand, started, ros, holder, depth>>

DdsStop(c) ==
    /\ \/ Goto(c, "stopDds", "markStopped") /\ Become(1, "down")
       \/ Goto(c, "stopDds", "failed") /\ StopRaises(1)
    /\ UNCHANGED <<hand, started, ros, holder, depth>>

DdsMark(c) ==
    /\ \/ /\ Goto(c, "markStarted", IF call[c] \in Uses THEN "leaveStart" ELSE "release")
          /\ started' = TRUE
       \/ /\ Goto(c, "markStopped", "release")
          /\ started' = FALSE
    /\ UNCHANGED <<hand, ros, pubsubs, holder, depth>>

DdsRelease(c) ==
    /\ \/ Goto(c, "leaveStart", "use")
       \/ Goto(c, "release", "idle")
    /\ depth' = depth - 1
    /\ holder' = IF depth = 1 THEN {} ELSE holder
    /\ UNCHANGED <<hand, started, ros, pubsubs>>

-----------------------------------------------------------------------------
(* The pubsub is loaded, then its publish or subscribe is called.  A pubsub *)
(* that is not up drops a message; DimosROS refuses a subscription.         *)

UseBackend(c) ==
    /\ kind # "ros"
    /\ Goto(c, "use", "deliver")
    /\ Load(c, 1)
    /\ UNCHANGED <<started, ros, pubsubs, holder, depth>>

(* A DimosROS whose start raised may have its node, and then accepts it.    *)
Refused(c) ==
    /\ kind = "ros" /\ call[c] = "subscribe"
    /\ pubsub[hand[c]] # "up" /\ hand[c] \notin unstarted

Deliver(c) ==
    /\ \/ Goto(c, "deliver", "raised") /\ Refused(c) /\ UNCHANGED hand
       \/ Goto(c, "deliver", IF kind = "dds" THEN "release" ELSE "idle") /\ ~Refused(c) /\ Load(c, None)
       \/ Goto(c, "deliver", "failed") /\ ~Refused(c) /\ Load(c, None)
    /\ UNCHANGED <<started, ros, pubsubs, holder, depth>>

(* An exception of the pubsub leaves the method; each with-block of a       *)
(* DDSTransport on its way gives the lock back.                             *)
(* Mutant: the lock is given back by a statement after the call.            *)
FailedLocked(c) ==
    /\ Goto(c, "failed", "idle")
    /\ UNCHANGED <<hand, started, ros, pubsubs, holder, depth>>

Failed(c) ==
    /\ Goto(c, "failed", IF depth > 1 THEN "failed" ELSE "idle")
    /\ depth' = IF depth > 0 THEN depth - 1 ELSE 0
    /\ holder' = IF depth > 1 THEN holder ELSE {}
    /\ UNCHANGED <<hand, started, ros, pubsubs>>

(* The transport's own exception: None, an assertion, a refused subscriber. *)
Raised(c) ==
    /\ Goto(c, "raised", "idle")
    /\ Load(c, None)
    /\ UNCHANGED <<started, ros, pubsubs, holder, depth>>

-----------------------------------------------------------------------------
BaseStep(c) ==
    EnsureStarted(c) \/ StartBackend(c) \/ SetFlag(c) \/ StopBackend(c) \/ ClearFlag(c)

RosStep(c) ==
    \/ RosTest(c) \/ RosStartTest(c) \/ RosCreate(c) \/ RosStart(c) \/ RosAssert(c)
    \/ RosLoad(c, "loadStart", "startRos") \/ RosLoad(c, "loadStop", "stopRos")
    \/ (kind = "ros" /\ RosLoad(c, "use", "deliver"))
    \/ RosStop(c) \/ RosDrop(c)

DdsStep(c) ==
    \/ DdsAcquire(c) \/ DdsTest(c) \/ DdsReacquire(c) \/ DdsStart(c) \/ DdsStop(c)
    \/ DdsMark(c) \/ DdsRelease(c)

Step(c) == BaseStep(c) \/ RosStep(c) \/ DdsStep(c) \/ UseBackend(c) \/ Deliver(c)
           \/ Failed(c) \/ Raised(c)

(* A call in progress goes on, until the method returns. *)
Remember(c) == call' = IF pc'[c] = "idle" THEN [call EXCEPT ![c] = "start"] ELSE call

GoOn(c) == Step(c) /\ Remember(c) /\ Witness /\ UNCHANGED kind

Next ==
    \/ \E c \in Threads, m \in Calls : Begin(c, m) /\ Witness /\ UNCHANGED kind
    \/ \E c \in Threads : GoOn(c)

Spec == Init /\ [][Next]_vars /\ \A c \in Threads : WF_vars(GoOn(c))

-----------------------------------------------------------------------------
Locations == Changing \cup {"idle", "raised", "failed", "acquire", "test", "startTest", "assert",
                            "reacquire", "leaveStart", "release", "use", "deliver"}

(* Besides the types: a thread that starts, stops or uses a pubsub has one. *)
TypeOK ==
    /\ kind \in Kinds
    /\ pc \in [Threads -> Locations]
    /\ call \in [Threads -> Calls]
    /\ hand \in [Threads -> Pubsubs \cup {None}]
    /\ started \in BOOLEAN
    /\ ros \in Pubsubs \cup {None}
    /\ pubsub \in [Pubsubs -> {"none", "made", "up", "down"}]
    /\ unstarted \subseteq Pubsubs /\ unstopped \subseteq Pubsubs
    /\ holder \in SUBSET Threads
    /\ depth \in 0 .. 2
    /\ contested \subseteq Threads
    /\ overlapped \in BOOLEAN
    /\ \A c \in Threads : pc[c] \in {"startRos", "stopRos", "deliver"} => hand[c] # None

(* Pubsubs a transport can be wrong about without any overlap: those whose  *)
(* stop raised and left the flag or _ros as it was, and a DimosROS whose    *)
(* start raised after _ros was assigned.                                    *)
Troubled == unstopped \cup IF kind = "ros" THEN unstarted ELSE {}

(* A broadcast or subscribe reaches a pubsub that is up.  When an earlier   *)
(* start raised, _ensure_started and DDSTransport start it again;           *)
(* ROSTransport does not, and loses what is broadcast.  The other exceptions *)
(* are a stop that raised and, without the lock of DDSTransport, another    *)
(* thread that started or stopped the transport during the call, or two     *)
(* starts or stops that overlapped before and left a flag that lies.        *)
ReachesStarted ==
    \A c \in Threads :
        pc[c] = "deliver" /\ pubsub[hand[c]] # "up"
            => \/ hand[c] \in Troubled
               \/ kind # "dds" /\ (c \in contested \/ overlapped)

(* A transport adds no exception to those of its pubsub, which it passes on, *)
(* but for ROSTransport: when another thread started or stopped it during    *)
(* the call, and when a start or stop of its pubsub raised before and        *)
(* left it in _ros.                                                          *)
RaisesForCause ==
    \A c \in Threads :
        pc[c] = "raised" => kind = "ros" /\ (c \in contested \/ hand[c] \in Troubled)

(* While nobody is in a call, what is up is what the transport believes to   *)
(* be up, by its flag or _ros: nothing runs that no stop would reach, and    *)
(* nothing is missed but what a raised start or stop left behind.  Two       *)
(* starts or stops that overlapped may break both, with DDS never.           *)
Believed == IF kind = "ros" THEN {ros} \ {None} ELSE IF started THEN {1} ELSE {}
Running  == {i \in Pubsubs : pubsub[i] = "up"}

AtRestTrue ==
    (\A c \in Threads : pc[c] = "idle") /\ (overlapped => kind = "dds")
        => Running \subseteq Believed /\ Believed \subseteq Running \cup Troubled

(* _start_lock is released, however start is reached and whatever raises.   *)
LockReleased == \A c \in Threads : holder = {c} ~> holder # {c}
=============================================================================

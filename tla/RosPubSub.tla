----------------------------- MODULE RosPubSub ------------------------------
(***************************************************************************)
(* RawROS (rospubsub.py): the node, its executor, the thread that spins    *)
(* it, and the publisher and subscription tables.  Owners call start and   *)
(* stop, users publish, subscribe and unsubscribe; both are any threads of *)
(* the program.  The tables are under a lock, the other attributes are     *)
(* not, so each use of them is a step.                                     *)
(*                                                                         *)
(* One topic stands for all (the tables are keyed by topic).  Nodes,       *)
(* executors and threads are numbered as they are made; None is 0.  A      *)
(* publisher is named by the node it was created on.  Callbacks are        *)
(* distinct, as DimosROS wraps each subscription in a closure of its own.  *)
(***************************************************************************)
EXTENDS Naturals

CONSTANTS Owners,       \* threads that start and stop the pubsub
          Users,        \* threads that publish and subscribe
          MaxStarts,    \* bound: nodes, executors and threads ever made
          MaxSubs,      \* bound: subscriptions ever made
          SlowCallback, \* a callback may outlast the join timeout
          StartFails    \* a call that start makes may raise

Clients == Owners \cup Users
Ids     == 1 .. MaxStarts
Subs    == 1 .. MaxSubs
None    == 0

ASSUME RosAssumption ==
    /\ MaxStarts \in Nat
    /\ MaxSubs \in Nat
    /\ {SlowCallback, StartFails} \subseteq BOOLEAN

VARIABLES
    pc,          \* next statement of each client
    hand,        \* the publisher or the thread a client has loaded
    taken,       \* the subscriptions a client is about to destroy
    stopEvent,   \* self._stop_event
    node,        \* self._node
    executor,    \* self._executor
    spinThread,  \* self._spin_thread
    publisher,   \* self._publishers
    tracked,     \* self._subscriptions
    nodeState,   \* rclpy nodes: none, alive, destroyed
    execState,   \* rclpy executors: none, up, down
    execNode,    \* the node added to each executor
    subNode,     \* the node of each subscription
    destroyed,   \* subscriptions given to destroy_subscription
    spin,        \* next statement of each spin thread
    spinExec,    \* local variable executor of _spin
    starts,      \* calls of start so far that did not return at once
    overlapped,  \* history: two calls of start or stop were under way at once
    timedOut,    \* history: a join gave up on its thread
    faulted,     \* history: threads whose callback raised, or that could not start
    halfway,     \* history: a start raised after it had set self._node
    raced        \* history: a table entry was made on a node being destroyed

localVars  == <<hand, taken>>
clientVars == <<pc, localVars>>
fieldVars  == <<stopEvent, node, executor, spinThread>>
tableVars  == <<publisher, tracked>>
rclVars    == <<nodeState, execState, execNode, subNode, destroyed>>
spinVars   == <<spin, spinExec>>
ghostVars  == <<timedOut, faulted, halfway, raced>>
callVars   == <<starts, overlapped>>
vars == <<clientVars, fieldVars, tableVars, rclVars, spinVars, ghostVars, callVars>>

Locations == {"idle", "raised",
              "clearEvent", "newNode", "newExecutor", "addNode", "newThread",
              "startThread",
              "setEvent", "testExecutor", "shutdown", "loadThread", "join",
              "clearTables", "testHandles", "destroyHandles", "testNode",
              "destroyNode", "dropNode", "dropExecutor", "dropThread",
              "getPublisher", "publish", "addSubscription", "destroySub"}

Init ==
    /\ pc = [c \in Clients |-> "idle"]
    /\ hand = [c \in Clients |-> None] /\ taken = [c \in Clients |-> {}]
    /\ stopEvent = FALSE
    /\ node = None /\ executor = None /\ spinThread = None
    /\ publisher = None /\ tracked = {}
    /\ nodeState = [i \in Ids |-> "none"]
    /\ execState = [i \in Ids |-> "none"]
    /\ execNode = [i \in Ids |-> None]
    /\ subNode = [s \in Subs |-> None]
    /\ destroyed = {}
    /\ spin = [i \in Ids |-> "none"]
    /\ spinExec = [i \in Ids |-> None]
    /\ starts = 0 /\ overlapped = FALSE
    /\ timedOut = FALSE /\ faulted = {} /\ halfway = FALSE /\ raced = FALSE

Goto(c, from, to) ==
    /\ pc[c] = from
    /\ pc' = [pc EXCEPT ![c] = to]

Enter(c, to) ==
    /\ Goto(c, "idle", to)
    /\ overlapped' = (overlapped \/ \E d \in Owners \ {c} : pc[d] # "idle")

(* The next number that f has not used yet. *)
Fresh(f, unused, i) ==
    /\ i \in DOMAIN f /\ f[i] = unused
    /\ \A j \in DOMAIN f : f[j] = unused => i <= j

(* Spin threads that have not ended. *)
Running == {"test", "load", "once", "taken", "callback"}

-----------------------------------------------------------------------------
(* start: returns at once when a spin thread is recorded.                  *)

(* Mutant: start does not look for a running thread. *)
StartUnguarded(c) ==
    /\ starts < MaxStarts
    /\ starts' = starts + 1
    /\ Enter(c, "clearEvent")
    /\ UNCHANGED <<localVars, fieldVars, tableVars, rclVars, spinVars, ghostVars>>

Start(c) ==
    /\ spinThread = None
    /\ starts < MaxStarts
    /\ starts' = starts + 1
    /\ Enter(c, "clearEvent")
    /\ UNCHANGED <<localVars, fieldVars, tableVars, rclVars, spinVars, ghostVars>>

(* Mutant: the event of the last stop stays set. *)
ClearEventForgotten(c) ==
    /\ Goto(c, "clearEvent", "newNode")
    /\ UNCHANGED <<localVars, fieldVars, tableVars, rclVars, spinVars, ghostVars, callVars>>

ClearEvent(c) ==
    /\ Goto(c, "clearEvent", "newNode")
    /\ stopEvent' = FALSE
    /\ UNCHANGED <<localVars, node, executor, spinThread, tableVars, rclVars, spinVars,
                   ghostVars, callVars>>

(* What start calls may raise, and leaves what it has set so far.           *)
NewNode(c) ==
    /\ \/ /\ StartFails /\ Goto(c, "newNode", "raised")
          /\ UNCHANGED <<node, nodeState>>
       \/ /\ Goto(c, "newNode", "newExecutor")
          /\ \E i \in Ids : /\ Fresh(nodeState, "none", i)
                            /\ node' = i
                            /\ nodeState' = [nodeState EXCEPT ![i] = "alive"]
    /\ UNCHANGED <<localVars, stopEvent, executor, spinThread, tableVars, execState,
                   execNode, subNode, destroyed, spinVars, ghostVars, callVars>>

NewExecutor(c) ==
    /\ \/ /\ StartFails /\ Goto(c, "newExecutor", "raised")
          /\ halfway' = TRUE
          /\ UNCHANGED <<executor, execState>>
       \/ /\ Goto(c, "newExecutor", "addNode")
          /\ \E i \in Ids : /\ Fresh(execState, "none", i)
                            /\ executor' = i
                            /\ execState' = [execState EXCEPT ![i] = "up"]
          /\ UNCHANGED halfway
    /\ UNCHANGED <<localVars, stopEvent, node, spinThread, tableVars, nodeState, execNode,
                   subNode, destroyed, spinVars, timedOut, faulted, raced, callVars>>

AddNode(c) ==
    /\ \/ /\ StartFails \/ None \in {executor, node}
          /\ Goto(c, "addNode", "raised")
          /\ halfway' = TRUE
          /\ UNCHANGED execNode
       \/ /\ None \notin {executor, node}
          /\ Goto(c, "addNode", "newThread")
          /\ execNode' = [execNode EXCEPT ![executor] = node]
          /\ UNCHANGED halfway
    /\ UNCHANGED <<localVars, fieldVars, tableVars, nodeState, execState, subNode,
                   destroyed, spinVars, timedOut, faulted, raced, callVars>>

NewThread(c) ==
    /\ Goto(c, "newThread", "startThread")
    /\ \E i \in Ids : /\ Fresh(spin, "none", i)
                      /\ spinThread' = i
                      /\ spin' = [spin EXCEPT ![i] = "made"]
    /\ UNCHANGED <<localVars, stopEvent, node, executor, tableVars, rclVars, spinExec,
                   ghostVars, callVars>>

(* A thread starts once; start on None or on a started thread raises, and    *)
(* so does a thread the system cannot start.                                *)
StartThread(c) ==
    LET startable == spinThread # None /\ spin[spinThread] = "made"
    IN  /\ \/ /\ startable
              /\ Goto(c, "startThread", "idle")
              /\ spin' = [spin EXCEPT ![spinThread] = "test"]
              /\ UNCHANGED <<faulted, halfway>>
           \/ /\ startable => StartFails
              /\ Goto(c, "startThread", "raised")
              /\ faulted' = IF startable THEN faulted \cup {spinThread} ELSE faulted
              /\ halfway' = TRUE
              /\ UNCHANGED spin
        /\ UNCHANGED <<localVars, fieldVars, tableVars, rclVars, spinExec, timedOut,
                       raced, callVars>>

-----------------------------------------------------------------------------
(* stop: returns at once when no spin thread is recorded.                  *)

Stop(c) ==
    /\ spinThread # None
    /\ Enter(c, "setEvent")
    /\ UNCHANGED <<localVars, fieldVars, tableVars, rclVars, spinVars, ghostVars, starts>>

SetEvent(c) ==
    /\ Goto(c, "setEvent", "testExecutor")
    /\ stopEvent' = TRUE
    /\ UNCHANGED <<localVars, node, executor, spinThread, tableVars, rclVars, spinVars,
                   ghostVars, callVars>>

TestExecutor(c) ==
    /\ Goto(c, "testExecutor", IF executor = None THEN "loadThread" ELSE "shutdown")
    /\ UNCHANGED <<localVars, fieldVars, tableVars, rclVars, spinVars, ghostVars, callVars>>

(* The attribute is read again for the call; None raises.                   *)
Shutdown(c) ==
    /\ Goto(c, "shutdown", IF executor = None THEN "raised" ELSE "loadThread")
    /\ execState' = [i \in Ids |-> IF i = executor THEN "down" ELSE execState[i]]
    /\ UNCHANGED <<localVars, fieldVars, tableVars, nodeState, execNode, subNode,
                   destroyed, spinVars, ghostVars, callVars>>

LoadThread(c) ==
    /\ Goto(c, "loadThread", IF spinThread = None THEN "raised" ELSE "join")
    /\ hand' = [hand EXCEPT ![c] = spinThread]
    /\ UNCHANGED <<taken, fieldVars, tableVars, rclVars, spinVars, ghostVars, callVars>>

(* Mutants: stop does not join its thread; it joins without a timeout. *)
JoinForgotten(c) ==
    /\ Goto(c, "join", "clearTables")
    /\ UNCHANGED <<localVars, fieldVars, tableVars, rclVars, spinVars, ghostVars, callVars>>

JoinForever(c) ==
    /\ Goto(c, "join", "clearTables")
    /\ spin[hand[c]] = "dead"
    /\ UNCHANGED <<localVars, fieldVars, tableVars, rclVars, spinVars, ghostVars, callVars>>

(* The join times out on a callback still running, or on a thread that runs *)
(* on because a concurrent start cleared the event: spin_once itself gives  *)
(* up after 0.01 s.  A thread that was never started cannot be joined.      *)
Join(c) ==
    /\ \/ /\ Goto(c, "join", "raised")
          /\ spin[hand[c]] = "made"
          /\ UNCHANGED timedOut
       \/ /\ Goto(c, "join", "clearTables")
          /\ spin[hand[c]] = "dead"
          /\ UNCHANGED timedOut
       \/ /\ Goto(c, "join", "clearTables")
          /\ spin[hand[c]] \in Running
          /\ (SlowCallback /\ spin[hand[c]] = "callback") \/ ~stopEvent
          /\ timedOut' = TRUE
    /\ UNCHANGED <<localVars, fieldVars, tableVars, rclVars, spinVars, faulted, halfway,
                   raced, callVars>>

(* self._lock is held over several steps by an unsubscribe only.            *)
TableLocked == \E u \in Users : pc[u] = "destroySub"

(* Mutant: the publishers are destroyed and stay in their table. *)
ClearTablesPartly(c) ==
    /\ ~TableLocked
    /\ Goto(c, "clearTables", "testHandles")
    /\ hand' = [hand EXCEPT ![c] = publisher]
    /\ taken' = [taken EXCEPT ![c] = tracked]
    /\ tracked' = {}
    /\ UNCHANGED <<fieldVars, publisher, rclVars, spinVars, ghostVars, callVars>>

ClearTables(c) ==
    /\ ~TableLocked
    /\ Goto(c, "clearTables", "testHandles")
    /\ hand' = [hand EXCEPT ![c] = publisher]
    /\ taken' = [taken EXCEPT ![c] = tracked]
    /\ publisher' = None
    /\ tracked' = {}
    /\ UNCHANGED <<fieldVars, rclVars, spinVars, ghostVars, callVars>>

TestHandles(c) ==
    /\ Goto(c, "testHandles", IF node = None THEN "testNode" ELSE "destroyHandles")
    /\ UNCHANGED <<localVars, fieldVars, tableVars, rclVars, spinVars, ghostVars, callVars>>

(* A node destroys the subscriptions it made and ignores those of another.  *)
DestroyOnNode(s) ==
    destroyed' = IF node # None /\ subNode[s] = node THEN destroyed \cup {s} ELSE destroyed

(* Each of the handles is given to what self._node is then; None raises.    *)
DestroyHandles(c) ==
    /\ \/ /\ node = None /\ (taken[c] # {} \/ hand[c] # None)
          /\ Goto(c, "destroyHandles", "raised")
          /\ UNCHANGED <<localVars, destroyed>>
       \/ \E s \in taken[c] :
             /\ node # None
             /\ Goto(c, "destroyHandles", "destroyHandles")
             /\ taken' = [taken EXCEPT ![c] = @ \ {s}]
             /\ DestroyOnNode(s)
             /\ UNCHANGED hand
       \/ /\ taken[c] = {} /\ (hand[c] # None => node # None)
          /\ Goto(c, "destroyHandles", "testNode")
          /\ hand' = [hand EXCEPT ![c] = None]
          /\ UNCHANGED <<taken, destroyed>>
    /\ UNCHANGED <<fieldVars, tableVars, nodeState, execState, execNode, subNode,
                   spinVars, ghostVars, callVars>>

TestNode(c) ==
    /\ Goto(c, "testNode", IF node = None THEN "dropExecutor" ELSE "destroyNode")
    /\ UNCHANGED <<localVars, fieldVars, tableVars, rclVars, spinVars, ghostVars, callVars>>

(* Mutant: the node is dropped and not destroyed. *)
DestroyNodeForgotten(c) ==
    /\ Goto(c, "destroyNode", IF node = None THEN "raised" ELSE "dropNode")
    /\ UNCHANGED <<localVars, fieldVars, tableVars, rclVars, spinVars, ghostVars, callVars>>

DestroyNode(c) ==
    /\ Goto(c, "destroyNode", IF node = None THEN "raised" ELSE "dropNode")
    /\ nodeState' = [i \in Ids |-> IF i = node THEN "destroyed" ELSE nodeState[i]]
    /\ UNCHANGED <<localVars, fieldVars, tableVars, execState, execNode, subNode,
                   destroyed, spinVars, ghostVars, callVars>>

DropNode(c) ==
    /\ Goto(c, "dropNode", "dropExecutor")
    /\ node' = None
    /\ UNCHANGED <<localVars, stopEvent, executor, spinThread, tableVars, rclVars,
                   spinVars, ghostVars, callVars>>

DropExecutor(c) ==
    /\ Goto(c, "dropExecutor", "dropThread")
    /\ executor' = None
    /\ UNCHANGED <<localVars, stopEvent, node, spinThread, tableVars, rclVars, spinVars,
                   ghostVars, callVars>>

DropThread(c) ==
    /\ Goto(c, "dropThread", "idle")
    /\ spinThread' = None
    /\ UNCHANGED <<localVars, stopEvent, node, executor, tableVars, rclVars, spinVars,
                   ghostVars, callVars>>

-----------------------------------------------------------------------------
(* publish and subscribe test self._node before they take the lock, and read *)
(* it again under the lock.  None raises, and so does a node that was        *)
(* destroyed and not yet dropped.                                           *)

Usable  == node # None /\ nodeState[node] = "alive"
Closing ==
    \E o \in Owners : pc[o] \in {"testHandles", "destroyHandles", "testNode", "destroyNode"}

Publish(c) ==
    /\ node # None
    /\ Goto(c, "idle", "getPublisher")
    /\ UNCHANGED <<localVars, fieldVars, tableVars, rclVars, spinVars, ghostVars, callVars>>

GetPublisher(c) ==
    /\ ~TableLocked
    /\ \/ /\ publisher = None /\ ~Usable
          /\ Goto(c, "getPublisher", "raised")
          /\ UNCHANGED <<publisher, hand, raced>>
       \/ /\ publisher # None \/ Usable
          /\ Goto(c, "getPublisher", "publish")
          /\ publisher' = IF publisher = None THEN node ELSE publisher
          /\ hand' = [hand EXCEPT ![c] = publisher']
          /\ raced' = (raced \/ (publisher = None /\ Closing))
    /\ UNCHANGED <<taken, fieldVars, tracked, rclVars, spinVars, timedOut, faulted, halfway,
                   callVars>>

(* A publisher that stop has destroyed, or whose node it has, raises.       *)
SendMessage(c) ==
    /\ \/ /\ Goto(c, "publish", "idle")
          /\ nodeState[hand[c]] = "alive"
       \/ /\ Goto(c, "publish", "raised")
          /\ nodeState[hand[c]] # "alive" \/ Closing
    /\ hand' = [hand EXCEPT ![c] = None]
    /\ UNCHANGED <<taken, fieldVars, tableVars, rclVars, spinVars, ghostVars, callVars>>

Subscribe(c) ==
    /\ node # None
    /\ Goto(c, "idle", "addSubscription")
    /\ UNCHANGED <<localVars, fieldVars, tableVars, rclVars, spinVars, ghostVars, callVars>>

AddSubscription(c) ==
    /\ ~TableLocked
    /\ \/ /\ ~Usable
          /\ Goto(c, "addSubscription", "raised")
          /\ UNCHANGED <<tracked, subNode, raced>>
       \/ /\ Usable
          /\ Goto(c, "addSubscription", "idle")
          /\ \E s \in Subs : /\ Fresh(subNode, None, s)
                             /\ subNode' = [subNode EXCEPT ![s] = node]
                             /\ tracked' = tracked \cup {s}
          /\ raced' = (raced \/ Closing)
    /\ UNCHANGED <<localVars, fieldVars, publisher, nodeState, execState, execNode,
                   destroyed, spinVars, timedOut, faulted, halfway, callVars>>

(* The handle may be called at any time and more than once; the table has   *)
(* an entry for the topic unless stop cleared it.  The node is tested and   *)
(* read again while stop, which does not take the lock for it, may drop it. *)
Unsubscribe(c, s) ==
    /\ ~TableLocked
    /\ subNode[s] # None
    /\ tracked # {}
    /\ Goto(c, "idle", IF node = None THEN "idle" ELSE "destroySub")
    /\ tracked' = tracked \ {s}
    /\ taken' = IF node = None THEN taken ELSE [taken EXCEPT ![c] = {s}]
    /\ UNCHANGED <<hand, fieldVars, publisher, rclVars, spinVars, ghostVars, callVars>>

DestroySub(c) ==
    /\ Goto(c, "destroySub", IF node = None THEN "raised" ELSE "idle")
    /\ \E s \in taken[c] : DestroyOnNode(s)
    /\ taken' = [taken EXCEPT ![c] = {}]
    /\ UNCHANGED <<hand, fieldVars, tableVars, nodeState, execState, execNode, subNode,
                   spinVars, ghostVars, callVars>>

Raised(c) ==
    /\ Goto(c, "raised", "idle")
    /\ hand' = [hand EXCEPT ![c] = None]
    /\ taken' = [taken EXCEPT ![c] = {}]
    /\ UNCHANGED <<fieldVars, tableVars, rclVars, spinVars, ghostVars, callVars>>

-----------------------------------------------------------------------------
(* _spin: test the event, read the executor, spin once; any exception ends  *)
(* the thread.                                                              *)

SpinTest(i) ==
    /\ spin[i] = "test"
    /\ spin' = [spin EXCEPT ![i] = IF stopEvent THEN "dead" ELSE "load"]
    /\ UNCHANGED <<clientVars, fieldVars, tableVars, rclVars, spinExec, ghostVars, callVars>>

(* Mutant: the executor is used without a test for None. *)
SpinLoadUnchecked(i) ==
    /\ spin[i] = "load"
    /\ spin' = [spin EXCEPT ![i] = "once"]
    /\ spinExec' = [spinExec EXCEPT ![i] = executor]
    /\ UNCHANGED <<clientVars, fieldVars, tableVars, rclVars, ghostVars, callVars>>

SpinLoad(i) ==
    /\ spin[i] = "load"
    /\ spin' = [spin EXCEPT ![i] = IF executor = None THEN "dead" ELSE "once"]
    /\ spinExec' = [spinExec EXCEPT ![i] = executor]
    /\ UNCHANGED <<clientVars, fieldVars, tableVars, rclVars, ghostVars, callVars>>

Callable(e) ==
    {s \in Subs \ destroyed :
        subNode[s] # None /\ subNode[s] = execNode[e] /\ nodeState[subNode[s]] = "alive"}

(* spin_once takes a message, of a subscription that is there to take one;   *)
(* what unsubscribe and stop do before the callback begins is too late.     *)
SpinOnce(i) ==
    /\ spin[i] = "once"
    /\ \/ /\ execState[spinExec[i]] = "down"
          /\ spin' = [spin EXCEPT ![i] = "dead"]
       \/ /\ execState[spinExec[i]] = "up"
          /\ \/ spin' = [spin EXCEPT ![i] = "test"]
             \/ /\ Callable(spinExec[i]) # {}
                /\ spin' = [spin EXCEPT ![i] = "taken"]
    /\ spinExec' = [spinExec EXCEPT ![i] = None]
    /\ UNCHANGED <<clientVars, fieldVars, tableVars, rclVars, ghostVars, callVars>>

CallbackBegins(i) ==
    /\ spin[i] = "taken"
    /\ spin' = [spin EXCEPT ![i] = "callback"]
    /\ UNCHANGED <<clientVars, fieldVars, tableVars, rclVars, spinExec, ghostVars, callVars>>

(* The callback returns, or raises through spin_once. *)
CallbackEnds(i) ==
    /\ spin[i] = "callback"
    /\ \/ /\ spin' = [spin EXCEPT ![i] = "test"]
          /\ UNCHANGED faulted
       \/ /\ spin' = [spin EXCEPT ![i] = "dead"]
          /\ faulted' = faulted \cup {i}
    /\ UNCHANGED <<clientVars, fieldVars, tableVars, rclVars, spinExec, timedOut, halfway,
                   raced, callVars>>

-----------------------------------------------------------------------------
OwnerStep(c) ==
    \/ ClearEvent(c) \/ NewNode(c) \/ NewExecutor(c) \/ AddNode(c)
    \/ NewThread(c) \/ StartThread(c)
    \/ SetEvent(c) \/ TestExecutor(c) \/ Shutdown(c) \/ LoadThread(c) \/ Join(c)
    \/ ClearTables(c) \/ TestHandles(c) \/ DestroyHandles(c) \/ TestNode(c)
    \/ DestroyNode(c) \/ DropNode(c) \/ DropExecutor(c) \/ DropThread(c)
    \/ Raised(c)

UserStep(c) ==
    \/ GetPublisher(c) \/ SendMessage(c) \/ AddSubscription(c) \/ DestroySub(c)
    \/ Raised(c)

SpinStep(i) ==
    SpinTest(i) \/ SpinLoad(i) \/ SpinOnce(i) \/ CallbackBegins(i) \/ CallbackEnds(i)

Next ==
    \/ \E c \in Owners : Start(c) \/ Stop(c) \/ OwnerStep(c)
    \/ \E c \in Users : Publish(c) \/ Subscribe(c) \/ UserStep(c)
    \/ \E c \in Users, s \in Subs : Unsubscribe(c, s)
    \/ \E i \in Ids : SpinStep(i)

(* Calls under way and threads run on; callbacks end; a stop that waits for  *)
(* the lock of the tables gets it though users take it again and again.     *)
Fairness ==
    /\ \A c \in Owners : WF_vars(OwnerStep(c)) /\ SF_vars(ClearTables(c))
    /\ \A c \in Users : WF_vars(UserStep(c))
    /\ \A i \in Ids : WF_vars(SpinStep(i))

Spec == Init /\ [][Next]_vars /\ Fairness

-----------------------------------------------------------------------------
TypeOK ==
    /\ pc \in [Clients -> Locations]
    /\ hand \in [Clients -> Ids \cup {None}]
    /\ taken \in [Clients -> SUBSET Subs]
    /\ stopEvent \in BOOLEAN
    /\ node \in Ids \cup {None}
    /\ executor \in Ids \cup {None}
    /\ spinThread \in Ids \cup {None}
    /\ publisher \in Ids \cup {None}
    /\ tracked \subseteq Subs
    /\ nodeState \in [Ids -> {"none", "alive", "destroyed"}]
    /\ execState \in [Ids -> {"none", "up", "down"}]
    /\ execNode \in [Ids -> Ids \cup {None}]
    /\ subNode \in [Subs -> Ids \cup {None}]
    /\ destroyed \subseteq Subs
    /\ spin \in [Ids -> Running \cup {"none", "made", "dead"}]
    /\ spinExec \in [Ids -> Ids \cup {None}]
    /\ starts \in 0 .. MaxStarts
    /\ {overlapped, timedOut, halfway, raced} \subseteq BOOLEAN
    /\ faulted \subseteq Ids
    /\ \A c \in Clients : pc[c] \in {"publish", "join"} => hand[c] # None
    /\ \A i \in Ids : spin[i] = "once" => spinExec[i] # None

(* One thread spins at a time, whatever the users do meanwhile, unless      *)
(* start and stop calls overlapped or a join gave up on a slow callback.    *)
OneSpinner ==
    ~overlapped /\ ~timedOut =>
        \A i, j \in Ids : spin[i] \in Running /\ spin[j] \in Running => i = j

(* After stop() has joined the thread no callback runs and no executor is   *)
(* spun until the next start.                                               *)
Quieted   == {"clearTables", "testHandles", "destroyHandles", "testNode", "destroyNode"}
AfterJoin == Quieted \cup {"dropNode", "dropExecutor", "dropThread"}

QuietWhenStopped ==
    ~overlapped /\ ~timedOut /\ (spinThread = None \/ \E o \in Owners : pc[o] \in AfterJoin)
        => \A i \in Ids : spin[i] \notin Running

(* The tables never hold a publisher or a subscription of another node than *)
(* the current one, unless one was made in the window between clearing the  *)
(* tables and destroying the node, or a start left its node behind when it  *)
(* raised.                                                                  *)
HandlesCurrent ==
    ~overlapped /\ ~raced /\ ~halfway =>
        /\ publisher \in {None, node}
        /\ \A s \in tracked : subNode[s] = node

(* Between calls, a pubsub that says it is started delivers: its thread     *)
(* runs, unless its callback raised, over an executor that is up and holds  *)
(* the live node; whatever starts failed before, but for a thread that the  *)
(* system could not start, which stays recorded.                            *)
Unstarted == {i \in faulted : spin[i] = "made"}

DeliveryReady ==
    /\ ~overlapped
    /\ spinThread # None /\ spinThread \notin Unstarted
    /\ \A o \in Owners : pc[o] = "idle"
    =>
        /\ spin[spinThread] \in Running \/ spinThread \in faulted
        /\ executor # None /\ execState[executor] = "up" /\ execNode[executor] = node
        /\ node # None /\ nodeState[node] = "alive"
        /\ ~stopEvent

(* RawROS keeps the promise of PubSubSession: what start, stop, subscribe,  *)
(* unsubscribe and the spin thread do is a step of a session, in which      *)
(* stop(), once joined, has no callback running and leaves no subscription  *)
(* behind for the next start.                                               *)
Starting == {"clearEvent", "newNode", "newExecutor", "addNode", "newThread", "startThread"}
Joining  == {"setEvent", "testExecutor", "shutdown", "loadThread", "join"}

Within(locations) == \E o \in Owners : pc[o] \in locations

Mode ==
    IF overlapped \/ timedOut \/ halfway THEN "contested"
    ELSE IF Within(Starting) THEN "starting"
    ELSE IF Within(Joining) THEN "stopping"
    ELSE IF Within(Quieted) THEN "quiet"
    ELSE IF node # None /\ nodeState[node] = "alive" THEN "up" ELSE "down"

Life(s) ==
    IF subNode[s] = None THEN "new"
    ELSE IF s \in destroyed \/ nodeState[subNode[s]] # "alive" THEN "over"
    ELSE "active"

Lives   == [s \in Subs |-> Life(s)]
Calling == {i \in Ids : spin[i] \in {"taken", "callback"}}

Session == INSTANCE PubSubSession
    WITH Subscriptions <- Subs, Threads <- Ids,
         mode <- Mode, life <- Lives, calling <- Calling

ImplementsSession == Session!Spec

(* A call of stop ends: the thread it joins exits, or the join gives up.    *)
StopReturns == \A o \in Owners : pc[o] = "setEvent" ~> pc[o] = "idle"
=============================================================================

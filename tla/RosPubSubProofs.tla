--------------------------- MODULE RosPubSubProofs --------------------------
(***************************************************************************)
(* Proofs, for any owners and users and any number of starts and           *)
(* subscriptions, of the invariants of RosPubSub and that it implements    *)
(* PubSubSession.                                                          *)
(***************************************************************************)
EXTENDS RosPubSub, TLAPS

Dropping == {"dropNode", "dropExecutor", "dropThread"}
Stopping == Joining \cup Quieted \cup Dropping
Inside(c) == pc[c] \in Starting \cup Stopping

(* The conditions between and within the calls of start and stop, while they *)
(* do not overlap.                                                           *)
Empty       == ~raced => publisher = None /\ tracked = {}
NoneRunning == ~timedOut => \A i \in Ids : spin[i] \notin Running
NodeReady   == node # None /\ nodeState[node] = "alive" /\ ~stopEvent
ExecReady   == NodeReady /\ executor # None /\ execState[executor] = "up"
Ready       == ExecReady /\ execNode[executor] = node

(* A start that raised half-way leaves its node behind, or a thread that it  *)
(* could not start.                                                          *)
Stopped == spinThread = None /\ (halfway \/ (node = None /\ Empty))

Broken ==
    /\ spinThread # None /\ node # None /\ executor # None
    /\ spinThread \in Unstarted /\ halfway

Started ==
    /\ spinThread # None /\ Ready
    /\ spin[spinThread] \in Running \/ spinThread \in faulted
    /\ spin[spinThread] \in Running \cup {"dead"}
    /\ spin[spinThread] = "once" => spinExec[spinThread] = executor

Phase(c) ==
    /\ pc[c] = "clearEvent"   => Stopped
    /\ pc[c] = "newNode"      => Stopped /\ ~stopEvent
    /\ pc[c] = "newExecutor"  => spinThread = None /\ NodeReady
    /\ pc[c] = "addNode"      => spinThread = None /\ ExecReady
    /\ pc[c] = "newThread"    => spinThread = None /\ Ready
    /\ pc[c] = "startThread"  =>
          spinThread # None /\ Ready /\ spin[spinThread] = "made" /\ NoneRunning
    /\ pc[c] = "setEvent"     => Started \/ Broken
    /\ pc[c] \in Joining =>
          /\ spinThread # None /\ node # None /\ executor # None
          /\ spin[spinThread] \in Running \cup {"dead"} \/ Broken
    /\ pc[c] = "join"         => hand[c] = spinThread
    /\ pc[c] = "clearTables"  => node # None /\ NoneRunning
    /\ pc[c] \in Quieted \ {"clearTables"} => node # None /\ NoneRunning /\ Empty
    /\ pc[c] = "dropNode"     =>
          node # None /\ nodeState[node] = "destroyed" /\ NoneRunning /\ Empty
    /\ pc[c] \in {"dropExecutor", "dropThread"} => node = None /\ NoneRunning /\ Empty

Handles ==
    ~raced /\ ~halfway => publisher \in {None, node} /\ \A s \in tracked : subNode[s] = node

OneThread == ~timedOut => \A i \in Ids : spin[i] \in Running => i = spinThread

Serial ==
    /\ \A c, d \in Clients : Inside(c) /\ Inside(d) => c = d
    /\ (\A c \in Clients : ~Inside(c)) => Stopped \/ Started \/ Broken
    /\ \A c \in Clients : Phase(c)
    /\ OneThread /\ Handles

(* The types, and what follows from the locations alone.                     *)
Simple ==
    /\ TypeOK
    /\ \A c \in Clients : Inside(c) => c \in Owners
    /\ \A i \in Ids : spin[i] # "once" => spinExec[i] = None

Inv == Simple /\ (~overlapped => Serial)

USE RosAssumption DEF Ids, Subs, None, localVars, clientVars, fieldVars, tableVars, rclVars,
                      spinVars, ghostVars, callVars

-----------------------------------------------------------------------------
(* The types are kept.                                                       *)

LEMMA PcMoves ==
    ASSUME NEW c, NEW l \in Locations \ {"publish", "join"},
           pc \in [Clients -> Locations], pc' = [pc EXCEPT ![c] = l]
    PROVE  /\ pc' \in [Clients -> Locations]
           /\ \A d \in Clients : pc'[d] \in {"publish", "join"} => pc[d] = pc'[d]
OBVIOUS

(* What destroying one handle, or ending with them, may do.                  *)
LEMMA DestroyHandlesEffect ==
    ASSUME NEW c \in Clients, DestroyHandles(c)
    PROVE  /\ pc[c] = "destroyHandles"
           /\ \E l \in {"raised", "destroyHandles", "testNode"} : pc' = [pc EXCEPT ![c] = l]
           /\ hand' = hand \/ hand' = [hand EXCEPT ![c] = None]
           /\ taken' = taken \/ \E t \in taken[c] : taken' = [taken EXCEPT ![c] = @ \ {t}]
           /\ destroyed' = destroyed \/ \E t \in taken[c] : node # None /\ DestroyOnNode(t)
           /\ UNCHANGED <<fieldVars, tableVars, nodeState, execState, execNode, subNode,
                          spinVars, ghostVars, callVars>>
           /\ node # None => \E l \in {"destroyHandles", "testNode"} : pc' = [pc EXCEPT ![c] = l]
<1>1. CASE /\ node = None
           /\ UNCHANGED <<localVars, destroyed>> /\ Goto(c, "destroyHandles", "raised")
  BY <1>1 DEF Goto, DestroyHandles
<1>2. CASE \E t \in taken[c] : /\ node # None
                              /\ Goto(c, "destroyHandles", "destroyHandles")
                              /\ taken' = [taken EXCEPT ![c] = @ \ {t}]
                              /\ DestroyOnNode(t)
                              /\ UNCHANGED hand
  BY <1>2 DEF Goto, DestroyHandles
<1>3. CASE /\ Goto(c, "destroyHandles", "testNode")
           /\ hand' = [hand EXCEPT ![c] = None]
           /\ UNCHANGED <<taken, destroyed>>
  BY <1>3 DEF Goto, DestroyHandles
<1>4. QED
  BY <1>1, <1>2, <1>3 DEF DestroyHandles

LEMMA HandleTypes ==
    ASSUME NEW c \in Clients, TypeOK, DestroyHandles(c)
    PROVE  /\ hand' \in [Clients -> Ids \cup {None}] /\ taken' \in [Clients -> SUBSET Subs]
           /\ \A d \in Clients \ {c} : hand'[d] = hand[d]
           /\ destroyed' \subseteq Subs
<1>1. /\ hand \in [Clients -> Ids \cup {None}] /\ taken \in [Clients -> SUBSET Subs]
      /\ destroyed \subseteq Subs
  BY DEF TypeOK
<1>2. /\ hand' = hand \/ hand' = [hand EXCEPT ![c] = None]
      /\ taken' = taken \/ \E t \in taken[c] : taken' = [taken EXCEPT ![c] = @ \ {t}]
      /\ destroyed' = destroyed \/ \E t \in taken[c] : DestroyOnNode(t)
  BY DestroyHandlesEffect
<1>3. /\ hand' \in [Clients -> Ids \cup {None}]
      /\ \A d \in Clients \ {c} : hand'[d] = hand[d]
  BY <1>1, <1>2
<1>4. taken' \in [Clients -> SUBSET Subs]
  <2>1. CASE \E t \in taken[c] : taken' = [taken EXCEPT ![c] = @ \ {t}]
    BY <1>1, <2>1
  <2>2. QED
    BY <1>1, <1>2, <2>1
<1>5. destroyed' \subseteq Subs
  <2>1. CASE \E t \in taken[c] : DestroyOnNode(t)
    BY <1>1, <2>1 DEF DestroyOnNode
  <2>2. QED
    BY <1>1, <1>2, <2>1
<1>6. QED
  BY <1>3, <1>4, <1>5

LEMMA OwnerStepTypes ==
    ASSUME NEW c \in Owners, Simple, Start(c) \/ Stop(c) \/ OwnerStep(c)
    PROVE  Simple'
<1> USE DEF Simple, TypeOK, Goto, Clients, Locations, Running, Inside, Starting, Stopping, Joining,
            Quieted, Dropping
<1>1. CASE Start(c)
  BY <1>1 DEF Start, Enter
<1>2. CASE Stop(c)
  BY <1>2 DEF Stop, Enter
<1>3. CASE ClearEvent(c)
  BY <1>3 DEF ClearEvent
<1>4. CASE NewNode(c)
  <2>1. UNCHANGED <<localVars, stopEvent, executor, spinThread, tableVars, execState,
                    execNode, subNode, destroyed, spinVars, ghostVars, callVars>>
    BY <1>4 DEF NewNode
  <2>2. CASE UNCHANGED <<node, nodeState>> /\ pc' = [pc EXCEPT ![c] = "raised"]
    BY <2>1, <2>2
  <2>3. CASE /\ pc' = [pc EXCEPT ![c] = "newExecutor"]
             /\ \E i \in Ids : node' = i /\ nodeState' = [nodeState EXCEPT ![i] = "alive"]
    BY <2>1, <2>3
  <2>4. QED
    BY <1>4, <2>2, <2>3 DEF NewNode
<1>5. CASE NewExecutor(c)
  <2>1. /\ halfway' \in BOOLEAN
        /\ UNCHANGED <<localVars, stopEvent, node, spinThread, tableVars, nodeState, execNode,
                       subNode, destroyed, spinVars, timedOut, faulted, raced, callVars>>
    BY <1>5 DEF NewExecutor
  <2>2. CASE UNCHANGED <<executor, execState>> /\ pc' = [pc EXCEPT ![c] = "raised"]
    BY <2>1, <2>2
  <2>3. CASE /\ pc' = [pc EXCEPT ![c] = "addNode"]
             /\ \E i \in Ids : executor' = i /\ execState' = [execState EXCEPT ![i] = "up"]
    BY <2>1, <2>3
  <2>4. QED
    BY <1>5, <2>2, <2>3 DEF NewExecutor
<1>6. CASE AddNode(c)
  <2>1. \E l \in {"raised", "newThread"} : pc' = [pc EXCEPT ![c] = l]
    BY <1>6 DEF AddNode
  <2>2. execNode' \in [Ids -> Ids \cup {None}]
    BY <1>6 DEF AddNode
  <2>3. /\ halfway' \in BOOLEAN
        /\ UNCHANGED <<localVars, fieldVars, tableVars, nodeState, execState, subNode,
                       destroyed, spinVars, timedOut, faulted, raced, callVars>>
    BY <1>6 DEF AddNode
  <2>4. /\ pc' \in [Clients -> Locations] /\ \A d \in Clients : Inside(d)' => d \in Owners
        /\ \A d \in Clients : pc'[d] \in {"publish", "join"} => pc[d] = pc'[d]
    BY <2>1, PcMoves
  <2>5. QED
    BY <2>2, <2>4, <2>3
<1>7. CASE NewThread(c)
  <2>1. PICK i \in Ids : spinThread' = i /\ spin' = [spin EXCEPT ![i] = "made"]
    BY <1>7 DEF NewThread
  <2>2. /\ pc' = [pc EXCEPT ![c] = "startThread"]
        /\ UNCHANGED <<localVars, stopEvent, node, executor, tableVars, rclVars, spinExec,
                       ghostVars, callVars>>
    BY <1>7 DEF NewThread
  <2>3. spin' \in [Ids -> Running \cup {"none", "made", "dead"}]
    BY <2>1
  <2>4. \A j \in Ids : spin'[j] = "once" => spin[j] = "once"
    BY <2>1
  <2>5. \A j \in Ids : spin'[j] # "once" => spinExec[j] = None
    BY <1>7, <2>1 DEF NewThread, Fresh
  <2>6. QED
    BY <2>1, <2>2, <2>3, <2>4, <2>5
<1>8. CASE StartThread(c)
  <2>1. \E l \in {"raised", "idle"} : pc' = [pc EXCEPT ![c] = l]
    BY <1>8 DEF StartThread
  <2>2. /\ halfway' \in BOOLEAN /\ faulted' \subseteq Ids
        /\ spin' = spin \/ (spinThread # None /\ spin' = [spin EXCEPT ![spinThread] = "test"])
        /\ UNCHANGED <<localVars, fieldVars, tableVars, rclVars, spinExec, timedOut, raced,
                       callVars>>
    BY <1>8 DEF StartThread
  <2>3. spin' \in [Ids -> Running \cup {"none", "made", "dead"}]
    BY <2>2
  <2>4. \A i \in Ids : spin'[i] = "once" <=> spin[i] = "once"
    BY <1>8 DEF StartThread
  <2>5. /\ pc' \in [Clients -> Locations] /\ \A d \in Clients : Inside(d)' => d \in Owners
        /\ \A d \in Clients : pc'[d] \in {"publish", "join"} => pc[d] = pc'[d]
    BY <2>1, PcMoves
  <2>6. QED
    BY <2>2, <2>3, <2>4, <2>5
<1>9. CASE SetEvent(c)
  BY <1>9 DEF SetEvent
<1>10. CASE Shutdown(c)
  BY <1>10 DEF Shutdown
<1>11. CASE TestExecutor(c)
  BY <1>11 DEF TestExecutor
<1>12. CASE LoadThread(c)
  BY <1>12 DEF LoadThread
<1>13. CASE Join(c)
  <2>1. /\ \E l \in {"raised", "clearTables"} : pc' = [pc EXCEPT ![c] = l]
        /\ timedOut' \in BOOLEAN
        /\ UNCHANGED <<localVars, fieldVars, tableVars, rclVars, spinVars, faulted, halfway,
                       raced, callVars>>
    BY <1>13 DEF Join
  <2>2. QED
    BY <2>1
<1>14. CASE ClearTables(c)
  BY <1>14 DEF ClearTables
<1>15. CASE TestHandles(c)
  BY <1>15 DEF TestHandles
<1>16. CASE DestroyHandles(c)
  <2>1. /\ pc[c] = "destroyHandles"
        /\ \E l \in {"raised", "destroyHandles", "testNode"} : pc' = [pc EXCEPT ![c] = l]
        /\ \A d \in Clients \ {c} : hand'[d] = hand[d]
        /\ hand' \in [Clients -> Ids \cup {None}] /\ taken' \in [Clients -> SUBSET Subs]
        /\ destroyed' \subseteq Subs
        /\ UNCHANGED <<fieldVars, tableVars, nodeState, execState, execNode, subNode,
                       spinVars, ghostVars, callVars>>
    BY <1>16, DestroyHandlesEffect, HandleTypes
  <2>2. \A d \in Clients : pc'[d] \in {"publish", "join"} => hand'[d] # None
    BY <2>1
  <2>3. pc' \in [Clients -> Locations] /\ \A d \in Clients : Inside(d)' => d \in Owners
    BY <2>1
  <2>4. QED
    BY <2>1, <2>2, <2>3
<1>17. CASE TestNode(c)
  BY <1>17 DEF TestNode
<1>18. CASE DestroyNode(c)
  BY <1>18 DEF DestroyNode
<1>19. CASE DropNode(c)
  BY <1>19 DEF DropNode
<1>20. CASE DropExecutor(c)
  BY <1>20 DEF DropExecutor
<1>21. CASE DropThread(c)
  BY <1>21 DEF DropThread
<1>22. CASE Raised(c)
  BY <1>22 DEF Raised
<1>23. QED
  BY <1>1, <1>2, <1>3, <1>4, <1>5, <1>6, <1>7, <1>8, <1>9, <1>10, <1>13, <1>14, <1>18, <1>19,
     <1>20, <1>21, <1>22,
     <1>11, <1>12, <1>15, <1>16, <1>17 DEF OwnerStep

LEMMA UserStepTypes ==
    ASSUME NEW c \in Users, Simple,
           Publish(c) \/ Subscribe(c) \/ UserStep(c) \/ \E s \in Subs : Unsubscribe(c, s)
    PROVE  Simple'
<1> USE DEF Simple, TypeOK, Goto, Clients, Locations, Running, Inside, Starting, Stopping, Joining,
            Quieted, Dropping
<1>1. CASE Publish(c)
  BY <1>1 DEF Publish
<1>2. CASE Subscribe(c)
  BY <1>2 DEF Subscribe
<1>3. CASE GetPublisher(c)
  <2>1. publisher' \in Ids \cup {None} /\ raced' \in BOOLEAN
    BY <1>3 DEF GetPublisher, Usable, Closing
  <2>2. UNCHANGED <<taken, fieldVars, tracked, rclVars, spinVars, timedOut, faulted, halfway,
                    callVars>>
    BY <1>3 DEF GetPublisher
  <2>3. CASE pc' = [pc EXCEPT ![c] = "raised"] /\ hand' = hand
    BY <2>2, <2>1, <2>3
  <2>4. CASE pc' = [pc EXCEPT ![c] = "publish"] /\ hand' = [hand EXCEPT ![c] = publisher']
    <3>1. publisher' # None
      BY <1>3, <2>4 DEF GetPublisher, Usable
    <3>2. QED
      BY <2>2, <2>1, <2>4, <3>1
  <2>5. QED
    BY <1>3, <2>3, <2>4 DEF GetPublisher
<1>4. CASE SendMessage(c)
  <2>1. /\ \E l \in {"raised", "idle"} : pc' = [pc EXCEPT ![c] = l]
        /\ hand' = [hand EXCEPT ![c] = None]
        /\ UNCHANGED <<taken, fieldVars, tableVars, rclVars, spinVars, ghostVars, callVars>>
    BY <1>4 DEF SendMessage
  <2>2. QED
    BY <2>1
<1>5. CASE AddSubscription(c)
  <2>1. raced' \in BOOLEAN /\ tracked' \subseteq Subs /\ subNode' \in [Subs -> Ids \cup {None}]
    <3>1. raced' \in BOOLEAN
      BY <1>5 DEF AddSubscription
    <3>2. CASE ~Usable
      BY <1>5, <3>2 DEF AddSubscription
    <3>3. CASE Usable
      <4>1. PICK s \in Subs : subNode' = [subNode EXCEPT ![s] = node] /\ tracked' = tracked \cup {s}
        BY <1>5, <3>3 DEF AddSubscription
      <4>2. QED
        BY <3>1, <4>1
    <3>4. QED
      BY <3>1, <3>2, <3>3
  <2>2. \/ pc' = [pc EXCEPT ![c] = "raised"]
        \/ pc' = [pc EXCEPT ![c] = "idle"]
    BY <1>5 DEF AddSubscription
  <2>3. UNCHANGED <<localVars, fieldVars, publisher, nodeState, execState, execNode,
                    destroyed, spinVars, timedOut, faulted, halfway, callVars>>
    BY <1>5 DEF AddSubscription
  <2>4. /\ pc' \in [Clients -> Locations]
        /\ \A d \in Clients : pc'[d] \in {"publish", "join"} => pc[d] = pc'[d]
    BY <2>2, PcMoves
  <2>5. TypeOK'
    BY <2>1, <2>3, <2>4
  <2>6. QED
    BY <2>2, <2>3, <2>5
<1>6. CASE Raised(c)
  BY <1>6 DEF Raised
<1>7. ASSUME NEW s \in Subs, Unsubscribe(c, s)
      PROVE  Simple'
  BY <1>7 DEF Unsubscribe
<1>8. CASE DestroySub(c)
  <2>1. /\ \E l \in {"raised", "idle"} : pc' = [pc EXCEPT ![c] = l]
        /\ taken' = [taken EXCEPT ![c] = {}]
        /\ UNCHANGED <<hand, fieldVars, tableVars, nodeState, execState, execNode, subNode,
                       spinVars, ghostVars, callVars>>
    BY <1>8 DEF DestroySub
  <2>2. destroyed' \subseteq Subs
    <3>1. taken[c] \subseteq Subs
      OBVIOUS
    <3>2. \E t \in taken[c] : DestroyOnNode(t)
      BY <1>8 DEF DestroySub
    <3>3. QED
      BY <3>1, <3>2 DEF DestroyOnNode
  <2>3. QED
    BY <2>1, <2>2
<1>9. QED
  BY <1>1, <1>2, <1>3, <1>4, <1>5, <1>6, <1>7, <1>8 DEF UserStep

LEMMA SpinStepTypes ==
    ASSUME NEW i \in Ids, Simple, SpinStep(i)
    PROVE  Simple'
<1> USE DEF Simple, TypeOK, Clients, Locations, Running, Inside
<1>1. CASE SpinTest(i)
  BY <1>1 DEF SpinTest
<1>2. CASE SpinLoad(i)
  BY <1>2 DEF SpinLoad
<1>3. CASE SpinOnce(i)
  <2>1. /\ \E l \in {"dead", "test", "taken"} : spin' = [spin EXCEPT ![i] = l]
        /\ spinExec' = [spinExec EXCEPT ![i] = None]
        /\ UNCHANGED <<clientVars, fieldVars, tableVars, rclVars, ghostVars, callVars>>
    BY <1>3 DEF SpinOnce
  <2>2. QED
    BY <2>1
<1>4. CASE CallbackEnds(i)
  <2>1. /\ \E l \in {"dead", "test"} : spin' = [spin EXCEPT ![i] = l]
        /\ faulted' \subseteq Ids
        /\ UNCHANGED <<clientVars, fieldVars, tableVars, rclVars, spinExec, timedOut, halfway,
                       raced, callVars>>
    BY <1>4 DEF CallbackEnds
  <2>2. /\ spin' \in [Ids -> Running \cup {"none", "made", "dead"}]
        /\ \A j \in Ids : spin'[j] = spin[j] \/ (j = i /\ spin'[j] \in {"dead", "test"})
    BY <2>1
  <2>3. \A j \in Ids : spinExec[j] # None => spin'[j] = "once"
    BY <1>4, <2>2 DEF CallbackEnds
  <2>4. QED
    BY <2>1, <2>2, <2>3
<1>5. CASE CallbackBegins(i)
  BY <1>5 DEF CallbackBegins
<1>6. QED
  BY <1>1, <1>2, <1>3, <1>4, <1>5 DEF SpinStep

-----------------------------------------------------------------------------
(* The steps of a call under way: what holds of the one caller inside.       *)
Alone(c) ==
    Phase(c) /\ (Inside(c) \/ Stopped \/ Started \/ Broken) /\ OneThread /\ Handles

LEMMA StartKeepsAlone ==
    ASSUME NEW c \in Owners, Simple, Simple', Alone(c),
           \/ ClearEvent(c) \/ NewNode(c) \/ NewExecutor(c) \/ AddNode(c)
           \/ NewThread(c) \/ StartThread(c)
    PROVE  Alone(c)'
<1> USE DEF Alone, Phase, Goto, Inside, Starting, Stopping, Joining, Quieted, Dropping
<1>t. /\ c \in Clients /\ pc \in [Clients -> Locations]
      /\ nodeState \in [Ids -> {"none", "alive", "destroyed"}]
      /\ execState \in [Ids -> {"none", "up", "down"}]
      /\ execNode \in [Ids -> Ids \cup {None}]
      /\ spin \in [Ids -> Running \cup {"none", "made", "dead"}]
      /\ {node, executor, spinThread} \subseteq Ids \cup {None}
  BY DEF Simple, TypeOK, Clients
<1>1. CASE ClearEvent(c)
  <2>1. UNCHANGED <<spinThread, node, publisher, tracked, raced, halfway, timedOut, spin, subNode>>
    BY <1>1 DEF ClearEvent
  <2>2. pc[c] = "clearEvent" /\ pc'[c] = "newNode" /\ ~stopEvent'
    BY <1>1, <1>t DEF ClearEvent
  <2>3. QED
    BY <2>1, <2>2 DEF Stopped, Empty, OneThread, Handles
<1>2. CASE NewNode(c)
  <2>1. UNCHANGED <<spinThread, publisher, tracked, raced, halfway, timedOut, spin, subNode,
                    stopEvent>>
    BY <1>2 DEF NewNode
  <2>2. pc[c] = "newNode"
    BY <1>2 DEF NewNode
  <2>3. CASE Goto(c, "newNode", "raised") /\ node' = node
    <3>1. pc'[c] = "raised"
      BY <1>t, <2>3
    <3>2. QED
      BY <2>1, <2>2, <2>3, <3>1 DEF Stopped, Empty, OneThread, Handles
  <2>4. CASE /\ Goto(c, "newNode", "newExecutor")
             /\ \E i \in Ids : /\ Fresh(nodeState, "none", i)
                               /\ node' = i
                               /\ nodeState' = [nodeState EXCEPT ![i] = "alive"]
    <3>1. pc'[c] = "newExecutor"
      BY <1>t, <2>4
    <3>2. node' # None /\ nodeState'[node'] = "alive"
      BY <1>t, <2>4 DEF Fresh
    <3>3. QED
      BY <2>1, <2>2, <3>1, <3>2 DEF Stopped, Empty, NodeReady, OneThread, Handles
  <2>5. QED
    BY <1>2, <2>3, <2>4 DEF NewNode
<1>3. CASE NewExecutor(c)
  <2>1. UNCHANGED <<spinThread, publisher, tracked, raced, timedOut, spin, subNode, stopEvent,
                    node, nodeState>>
    BY <1>3 DEF NewExecutor
  <2>2. pc[c] = "newExecutor"
    BY <1>3 DEF NewExecutor
  <2>3. CASE Goto(c, "newExecutor", "raised") /\ halfway' = TRUE
    <3>1. pc'[c] = "raised"
      BY <1>t, <2>3
    <3>2. QED
      BY <2>1, <2>2, <2>3, <3>1 DEF Stopped, OneThread, Handles
  <2>4. CASE /\ Goto(c, "newExecutor", "addNode") /\ halfway' = halfway
             /\ \E i \in Ids : /\ Fresh(execState, "none", i)
                               /\ executor' = i
                               /\ execState' = [execState EXCEPT ![i] = "up"]
    <3>1. pc'[c] = "addNode"
      BY <1>t, <2>4
    <3>2. executor' # None /\ execState'[executor'] = "up"
      BY <1>t, <2>4 DEF Fresh
    <3>3. QED
      BY <2>1, <2>2, <2>4, <3>1, <3>2 DEF ExecReady, NodeReady, OneThread, Handles
  <2>5. QED
    BY <1>3, <2>3, <2>4 DEF NewExecutor
<1>4. CASE AddNode(c)
  <2>1. UNCHANGED <<spinThread, publisher, tracked, raced, timedOut, spin, subNode, stopEvent,
                    node, nodeState, executor, execState>>
    BY <1>4 DEF AddNode
  <2>2. pc[c] = "addNode" /\ ExecReady /\ spinThread = None
    BY <1>4, <1>t DEF AddNode
  <2>3. CASE Goto(c, "addNode", "raised") /\ halfway' = TRUE
    <3>1. pc'[c] = "raised"
      BY <1>t, <2>3
    <3>2. QED
      BY <2>1, <2>2, <2>3, <3>1 DEF Stopped, OneThread, Handles
  <2>4. CASE /\ Goto(c, "addNode", "newThread") /\ halfway' = halfway
             /\ execNode' = [execNode EXCEPT ![executor] = node]
    <3>1. pc'[c] = "newThread" /\ execNode'[executor] = node
      BY <1>t, <2>2, <2>4 DEF ExecReady, NodeReady
    <3>2. QED
      BY <2>1, <2>2, <2>4, <3>1 DEF Ready, ExecReady, NodeReady, OneThread, Handles
  <2>5. QED
    BY <1>4, <2>3, <2>4 DEF AddNode
<1>5. CASE NewThread(c)
  <2>1. UNCHANGED <<publisher, tracked, raced, halfway, timedOut, subNode, stopEvent,
                    node, nodeState, executor, execState, execNode>>
    BY <1>5 DEF NewThread
  <2>2. pc[c] = "newThread" /\ pc'[c] = "startThread" /\ spinThread = None /\ Ready
    BY <1>5, <1>t DEF NewThread
  <2>3. PICK i \in Ids : spinThread' = i /\ spin' = [spin EXCEPT ![i] = "made"]
    BY <1>5 DEF NewThread
  <2>4. spinThread' # None /\ spin'[spinThread'] = "made"
    BY <2>3, <1>t
  <2>5. NoneRunning'
    BY <2>1, <2>2, <2>3, <1>t DEF NoneRunning, OneThread, Running
  <2>6. OneThread'
    BY <2>5 DEF NoneRunning, OneThread
  <2>7. QED
    BY <2>1, <2>2, <2>4, <2>5, <2>6 DEF Ready, ExecReady, NodeReady, Handles
<1>6. CASE StartThread(c)
  <2>1. UNCHANGED <<spinThread, publisher, tracked, raced, timedOut, subNode, stopEvent,
                    node, nodeState, executor, execState, execNode>>
    BY <1>6 DEF StartThread
  <2>2. /\ pc[c] = "startThread" /\ spinThread # None /\ Ready /\ NoneRunning
        /\ spin[spinThread] = "made"
    BY <1>6 DEF StartThread
  <2>3. CASE /\ Goto(c, "startThread", "idle") /\ halfway' = halfway
             /\ spin' = [spin EXCEPT ![spinThread] = "test"]
    <3>1. pc'[c] = "idle"
      BY <1>t, <2>3
    <3>2. OneThread' /\ spin'[spinThread] = "test"
      BY <2>1, <2>2, <2>3, <1>t DEF NoneRunning, OneThread
    <3>3. Started'
      BY <2>1, <2>2, <3>2 DEF Started, Ready, ExecReady, NodeReady, Running
    <3>4. QED
      BY <2>1, <2>3, <3>1, <3>2, <3>3 DEF Handles
  <2>4. CASE /\ Goto(c, "startThread", "raised") /\ halfway' = TRUE
             /\ faulted' = faulted \cup {spinThread} /\ spin' = spin
    <3>1. pc'[c] = "raised"
      BY <1>t, <2>4
    <3>2. Broken'
      BY <1>t, <2>1, <2>2, <2>4 DEF Broken, Unstarted, Ready, ExecReady, NodeReady
    <3>3. QED
      BY <2>1, <2>4, <3>1, <3>2 DEF OneThread, Handles
  <2>5. QED
    BY <1>6, <2>2, <2>3, <2>4 DEF StartThread
<1>7. QED
  BY <1>1, <1>2, <1>3, <1>4, <1>5, <1>6

LEMMA StopKeepsAlone ==
    ASSUME NEW c \in Owners, Simple, Simple', Alone(c),
           \/ SetEvent(c) \/ TestExecutor(c) \/ Shutdown(c) \/ LoadThread(c) \/ Join(c)
           \/ ClearTables(c) \/ TestHandles(c) \/ DestroyHandles(c) \/ TestNode(c)
           \/ DestroyNode(c) \/ DropNode(c) \/ DropExecutor(c) \/ DropThread(c)
    PROVE  Alone(c)'
<1> USE DEF Alone, Phase, Goto, Inside, Starting, Stopping, Joining, Quieted, Dropping
<1>t. /\ c \in Clients /\ pc \in [Clients -> Locations]
      /\ hand \in [Clients -> Ids \cup {None}]
      /\ nodeState \in [Ids -> {"none", "alive", "destroyed"}]
      /\ spin \in [Ids -> Running \cup {"none", "made", "dead"}]
      /\ {node, executor, spinThread} \subseteq Ids \cup {None}
      /\ timedOut \in BOOLEAN
  BY DEF Simple, TypeOK, Clients
<1>1. CASE SetEvent(c)
  <2>1. UNCHANGED <<spinThread, node, executor, publisher, tracked, raced, halfway, timedOut,
                    faulted, spin, subNode>>
    BY <1>1 DEF SetEvent
  <2>2. pc[c] = "setEvent" /\ pc'[c] = "testExecutor"
    BY <1>1, <1>t DEF SetEvent
  <2>3. /\ spinThread # None /\ node # None /\ executor # None
        /\ spin[spinThread] \in Running \cup {"dead"} \/ Broken
    BY <2>2 DEF Started, Ready, ExecReady, NodeReady, Broken
  <2>4. Broken' = Broken
    BY <2>1 DEF Broken, Unstarted
  <2>5. QED
    BY <2>1, <2>2, <2>3, <2>4 DEF OneThread, Handles
<1>2. CASE TestExecutor(c) \/ Shutdown(c) \/ LoadThread(c)
  <2>1. UNCHANGED <<spinThread, node, executor, publisher, tracked, raced, halfway, timedOut,
                    faulted, spin, subNode>>
    BY <1>2 DEF TestExecutor, Shutdown, LoadThread
  <2>2. /\ pc[c] \in {"testExecutor", "shutdown", "loadThread"}
        /\ spinThread # None /\ node # None /\ executor # None
        /\ spin[spinThread] \in Running \cup {"dead"} \/ Broken
    BY <1>2 DEF TestExecutor, Shutdown, LoadThread
  <2>3. /\ pc'[c] \in {"shutdown", "loadThread", "join"}
        /\ pc'[c] = "join" => hand'[c] = spinThread
    BY <1>2, <1>t, <2>2 DEF TestExecutor, Shutdown, LoadThread
  <2>4. Broken' = Broken
    BY <2>1 DEF Broken, Unstarted
  <2>5. QED
    BY <2>1, <2>2, <2>3, <2>4 DEF OneThread, Handles
<1>3. CASE Join(c)
  <2>1. UNCHANGED <<spinThread, node, executor, publisher, tracked, raced, halfway, faulted,
                    spin, subNode>>
    BY <1>3 DEF Join
  <2>2. /\ pc[c] = "join" /\ spinThread # None /\ node # None /\ hand[c] = spinThread
        /\ spin[spinThread] \in Running \cup {"dead"} \/ Broken
    BY <1>3 DEF Join
  <2>3. CASE Goto(c, "join", "raised") /\ spin[hand[c]] = "made" /\ timedOut' = timedOut
    <3>1. pc'[c] = "raised"
      BY <1>t, <2>3
    <3>2. Broken /\ Broken' = Broken
      BY <2>1, <2>2, <2>3 DEF Running, Broken, Unstarted
    <3>3. QED
      BY <2>1, <2>3, <3>1, <3>2 DEF OneThread, Handles
  <2>4. CASE /\ Goto(c, "join", "clearTables")
             /\ timedOut' \/ (timedOut' = timedOut /\ spin[hand[c]] = "dead")
    <3>1. pc'[c] = "clearTables"
      BY <1>t, <2>4
    <3>2. OneThread' /\ NoneRunning'
      BY <2>1, <2>2, <2>4, <1>t DEF OneThread, NoneRunning, Running
    <3>3. QED
      BY <2>1, <2>2, <3>1, <3>2 DEF Handles
  <2>5. QED
    BY <1>3, <2>3, <2>4 DEF Join
<1>4. CASE ClearTables(c)
  <2>1. UNCHANGED <<spinThread, node, raced, halfway, timedOut, spin, subNode>>
    BY <1>4 DEF ClearTables
  <2>2. /\ pc[c] = "clearTables" /\ pc'[c] = "testHandles"
        /\ publisher' = None /\ tracked' = {}
    BY <1>4, <1>t DEF ClearTables
  <2>3. QED
    BY <2>1, <2>2 DEF OneThread, NoneRunning, Handles, Empty
<1>5. CASE TestHandles(c) \/ DestroyHandles(c) \/ TestNode(c)
  <2>1. UNCHANGED <<spinThread, node, publisher, tracked, raced, halfway, timedOut, spin, subNode>>
    BY <1>5, <1>t, DestroyHandlesEffect DEF TestHandles, TestNode
  <2>2. /\ pc[c] \in Quieted \ {"clearTables"}
        /\ node # None /\ NoneRunning /\ Empty
    BY <1>5, <1>t, DestroyHandlesEffect DEF TestHandles, TestNode
  <2>3. pc'[c] \in {"destroyHandles", "testNode", "destroyNode"}
    BY <1>5, <1>t, <2>2, DestroyHandlesEffect DEF TestHandles, TestNode
  <2>4. QED
    BY <2>1, <2>2, <2>3 DEF OneThread, NoneRunning, Handles, Empty
<1>6. CASE DestroyNode(c)
  <2>1. UNCHANGED <<spinThread, node, publisher, tracked, raced, halfway, timedOut, spin, subNode>>
    BY <1>6 DEF DestroyNode
  <2>2. pc[c] = "destroyNode" /\ node # None
    BY <1>6 DEF DestroyNode
  <2>3. pc'[c] = "dropNode" /\ nodeState'[node] = "destroyed"
    BY <1>6, <1>t, <2>2 DEF DestroyNode
  <2>4. QED
    BY <2>1, <2>2, <2>3 DEF OneThread, NoneRunning, Handles, Empty
<1>7. CASE DropNode(c)
  <2>1. UNCHANGED <<spinThread, publisher, tracked, raced, halfway, timedOut, spin, subNode>>
    BY <1>7 DEF DropNode
  <2>2. pc[c] = "dropNode" /\ pc'[c] = "dropExecutor" /\ node' = None
    BY <1>7, <1>t DEF DropNode
  <2>3. QED
    BY <2>1, <2>2 DEF OneThread, NoneRunning, Handles, Empty
<1>8. CASE DropExecutor(c)
  <2>1. UNCHANGED <<spinThread, node, publisher, tracked, raced, halfway, timedOut, spin, subNode>>
    BY <1>8 DEF DropExecutor
  <2>2. pc[c] = "dropExecutor" /\ pc'[c] = "dropThread"
    BY <1>8, <1>t DEF DropExecutor
  <2>3. QED
    BY <2>1, <2>2 DEF OneThread, NoneRunning, Handles, Empty
<1>9. CASE DropThread(c)
  <2>1. UNCHANGED <<node, publisher, tracked, raced, halfway, timedOut, spin, subNode>>
    BY <1>9 DEF DropThread
  <2>2. pc[c] = "dropThread" /\ pc'[c] = "idle" /\ spinThread' = None
    BY <1>9, <1>t DEF DropThread
  <2>3. QED
    BY <2>1, <2>2 DEF OneThread, NoneRunning, Handles, Empty, Stopped
<1>10. QED
  BY <1>1, <1>2, <1>3, <1>4, <1>6, <1>7, <1>8, <1>9, <1>5

-----------------------------------------------------------------------------
(* Every step keeps Serial while the calls do not overlap.                   *)

LEMMA EnterSerial ==
    ASSUME NEW c \in Owners, Simple, ~overlapped => Serial, ~overlapped',
           Start(c) \/ Stop(c)
    PROVE  Serial'
<1> DEFINE to == IF spinThread = None THEN "clearEvent" ELSE "setEvent"
<1>1. /\ pc \in [Clients -> Locations] /\ c \in Clients /\ overlapped \in BOOLEAN
      /\ \A d \in Clients : Inside(d) => d \in Owners
  BY DEF Simple, TypeOK, Clients
<1>2. /\ UNCHANGED <<localVars, fieldVars, tableVars, rclVars, spinVars, ghostVars>>
      /\ pc[c] = "idle" /\ pc' = [pc EXCEPT ![c] = to]
      /\ ~overlapped /\ \A d \in Owners \ {c} : pc[d] = "idle"
  BY <1>1 DEF Start, Stop, Enter, Goto
<1>3. \A d \in Clients : ~Inside(d)
  BY <1>1, <1>2 DEF Inside, Starting, Stopping, Joining, Quieted, Dropping
<1>4. (Stopped \/ Started \/ Broken) /\ OneThread /\ Handles
  BY <1>2, <1>3 DEF Serial
<1>5. /\ Stopped' = Stopped /\ Started' = Started /\ Broken' = Broken
      /\ OneThread' = OneThread /\ Handles' = Handles
  BY <1>2 DEF Stopped, Empty, Broken, Unstarted, Started, Ready, ExecReady, NodeReady,
     OneThread, Handles
<1>6. pc'[c] = to /\ \A d \in Clients \ {c} : pc'[d] = pc[d]
  BY <1>1, <1>2
<1>7. Inside(c)' /\ \A d \in Clients \ {c} : ~Inside(d)'
  BY <1>3, <1>6 DEF Inside, Starting, Stopping, Joining, Quieted, Dropping
<1>8. IF spinThread = None THEN Stopped' ELSE Started' \/ Broken'
  BY <1>4, <1>5 DEF Stopped, Started, Broken
<1>9. Phase(c)'
  <2>1. spinThread' = spinThread /\ spin' = spin
    BY <1>2
  <2>2. CASE to = "clearEvent"
    BY <1>6, <1>8, <2>2 DEF Phase, Joining, Quieted
  <2>3. CASE to = "setEvent"
    <3>1. pc'[c] = "setEvent" /\ (Started' \/ Broken')
      BY <1>6, <1>8, <2>3
    <3>2. /\ (spinThread # None /\ node # None /\ executor # None)'
          /\ (spin[spinThread] \in Running \cup {"dead"})' \/ Broken'
      BY <3>1 DEF Started, Ready, ExecReady, NodeReady, Broken
    <3>3. QED
      BY <3>1, <3>2 DEF Phase, Joining, Quieted
  <2>4. QED
    BY <2>2, <2>3
<1>10. \A d \in Clients \ {c} : Phase(d)'
  BY <1>7 DEF Phase, Inside, Starting, Stopping, Joining, Quieted, Dropping
<1>11. QED
  BY <1>1, <1>4, <1>5, <1>7, <1>9, <1>10 DEF Serial

LEMMA OwnerMoves ==
    ASSUME NEW c \in Clients, Start(c) \/ Stop(c) \/ OwnerStep(c)
    PROVE  \E l \in Locations : pc' = [pc EXCEPT ![c] = l]
<1>1. CASE DestroyHandles(c)
  BY <1>1, DestroyHandlesEffect DEF Locations
<1>2. CASE ~DestroyHandles(c)
  BY <1>2 DEF OwnerStep, Start, Stop, Enter, Locations, Goto, ClearEvent, NewNode, NewExecutor,
              AddNode, NewThread, StartThread, SetEvent, TestExecutor, Shutdown, LoadThread,
              Join,
              ClearTables, TestHandles, TestNode, DestroyNode, DropNode, DropExecutor,
              DropThread, Raised
<1>3. QED
  BY <1>1, <1>2

LEMMA OwnerSerial ==
    ASSUME NEW c \in Owners, Simple, Simple', Serial, OwnerStep(c)
    PROVE  Serial'
<1>1. c \in Clients /\ pc \in [Clients -> Locations]
  BY DEF Simple, TypeOK, Clients
<1>2. CASE Raised(c)
  <2>1. /\ UNCHANGED <<fieldVars, tableVars, rclVars, spinVars, ghostVars>>
        /\ pc[c] = "raised" /\ pc' = [pc EXCEPT ![c] = "idle"]
        /\ hand' = [hand EXCEPT ![c] = None] /\ hand \in [Clients -> Ids \cup {None}]
    BY <1>2 DEF Raised, Goto, Simple, TypeOK
  <2>2. \A d \in Clients : Inside(d)' = Inside(d) /\ (Inside(d) => pc'[d] = pc[d])
    BY <1>1, <2>1 DEF Inside, Starting, Stopping, Joining, Quieted, Dropping
  <2>3. \A d \in Clients : Phase(d)'
    <3>1. TAKE d \in Clients
    <3>2. CASE Inside(d)
      <4>1. hand'[d] = hand[d] /\ pc'[d] = pc[d]
        BY <2>1, <2>2, <3>2 DEF Inside, Starting, Stopping, Joining, Quieted, Dropping
      <4>2. QED
        BY <2>1, <3>2, <4>1
           DEF Serial, Phase, Stopped, Empty, Broken, Unstarted, Started, Ready,
                                ExecReady, NodeReady, NoneRunning
    <3>3. CASE ~Inside(d)
      BY <2>2, <3>3 DEF Phase, Inside, Starting, Stopping, Joining, Quieted, Dropping
    <3>4. QED
      BY <3>2, <3>3
  <2>4. Stopped' = Stopped /\ Started' = Started /\ Broken' = Broken
    BY <2>1 DEF Stopped, Empty, Broken, Unstarted, Started, Ready, ExecReady, NodeReady
  <2>5. OneThread' = OneThread /\ Handles' = Handles
    BY <2>1 DEF OneThread, Handles
  <2>6. QED
    BY <2>2, <2>3, <2>4, <2>5 DEF Serial
<1>3. CASE ~Raised(c)
  <2>1. Inside(c)
    <3>1. CASE DestroyHandles(c)
      BY <1>1, <3>1, DestroyHandlesEffect DEF Inside, Stopping, Quieted
    <3>2. QED
      BY <1>3, <3>1 DEF OwnerStep, Inside, Starting, Stopping, Joining, Quieted, Dropping, Goto,
                  ClearEvent, NewNode, NewExecutor, AddNode, NewThread, StartThread, SetEvent,
                  TestExecutor, Shutdown, LoadThread, Join, ClearTables, TestHandles, TestNode,
                  DestroyNode, DropNode, DropExecutor, DropThread
  <2>2. \A d \in Clients \ {c} : ~Inside(d)
    BY <1>1, <2>1 DEF Serial
  <2>3. \E l \in Locations : pc' = [pc EXCEPT ![c] = l]
    BY <1>1, OwnerMoves
  <2>4. \A d \in Clients \ {c} : ~Inside(d)'
    BY <1>1, <2>2, <2>3 DEF Inside
  <2>5. Alone(c)
    BY <1>1, <2>1 DEF Alone, Serial
  <2>6. Alone(c)'
    BY <1>3, <2>5, StartKeepsAlone, StopKeepsAlone DEF OwnerStep
  <2>7. \A d \in Clients \ {c} : Phase(d)'
    BY <2>4 DEF Phase, Inside, Starting, Stopping, Joining, Quieted, Dropping
  <2>8. QED
    BY <1>1, <2>4, <2>6, <2>7 DEF Alone, Serial
<1>4. QED
  BY <1>2, <1>3

(* What a user's step may do to the tables.                                  *)
LEMMA UserEffect ==
    ASSUME NEW c \in Users, Simple, Simple',
           Publish(c) \/ Subscribe(c) \/ UserStep(c) \/ \E s \in Subs : Unsubscribe(c, s)
    PROVE  /\ UNCHANGED <<fieldVars, nodeState, execState, execNode, spinVars, timedOut, faulted,
                          halfway, overlapped>>
           /\ \A d \in Clients : Inside(d)' = Inside(d)
           /\ \A d \in Clients : Inside(d) => pc'[d] = pc[d] /\ hand'[d] = hand[d]
           /\ ~Usable \/ Closing => (Empty => Empty')
           /\ Handles => Handles'
<1>1. /\ c \in Clients /\ pc \in [Clients -> Locations]
      /\ subNode \in [Subs -> Ids \cup {None}]
      /\ tracked \subseteq Subs /\ raced \in BOOLEAN /\ raced' \in BOOLEAN
  BY DEF Simple, TypeOK, Clients
<1>2. UNCHANGED <<fieldVars, nodeState, execState, execNode, spinVars, timedOut, faulted, halfway,
                  overlapped>>
  BY DEF UserStep, Publish, Subscribe, GetPublisher, SendMessage, AddSubscription, Raised,
         Unsubscribe, DestroySub
<1> DEFINE At == {"idle", "getPublisher", "publish", "addSubscription", "destroySub", "raised"}
<1>3. pc[c] \in At /\ \E l \in At : pc' = [pc EXCEPT ![c] = l]
  BY DEF UserStep, Publish, Subscribe, GetPublisher, SendMessage, AddSubscription, Raised,
         Unsubscribe, DestroySub, Goto
<1>4. hand \in [Clients -> Ids \cup {None}] /\ \E h : hand' = [hand EXCEPT ![c] = h]
  <2>1. hand \in [Clients -> Ids \cup {None}]
    BY DEF Simple, TypeOK
  <2>2. hand = [hand EXCEPT ![c] = hand[c]]
    BY <2>1
  <2>3. CASE GetPublisher(c)
    BY <2>1, <2>2, <2>3 DEF GetPublisher
  <2>4. QED
    BY <2>1, <2>2, <2>3 DEF UserStep, Publish, Subscribe, SendMessage, AddSubscription, Raised,
                            Unsubscribe, DestroySub
<1>5. /\ \A d \in Clients : Inside(d)' = Inside(d)
      /\ \A d \in Clients : Inside(d) => pc'[d] = pc[d] /\ hand'[d] = hand[d]
  BY <1>1, <1>3, <1>4 DEF Inside, Starting, Stopping, Joining, Quieted, Dropping
<1>6. /\ raced => raced'
      /\ ~raced' => publisher' = publisher \/ (Usable /\ ~Closing /\ publisher' = node)
      /\ ~raced' => \/ tracked' \subseteq tracked /\ subNode' = subNode
                    \/ /\ Usable /\ ~Closing
                       /\ \E s \in Subs : /\ tracked' = tracked \cup {s}
                                          /\ subNode' = [subNode EXCEPT ![s] = node]
  <2>1. CASE GetPublisher(c)
    <3>1. UNCHANGED <<tracked, subNode>>
      BY <2>1 DEF GetPublisher
    <3>2. CASE UNCHANGED <<publisher, raced>>
      BY <3>1, <3>2
    <3>3. CASE /\ publisher # None \/ Usable
               /\ publisher' = IF publisher = None THEN node ELSE publisher
               /\ raced' = (raced \/ (publisher = None /\ Closing))
      BY <3>1, <3>3
    <3>4. QED
      BY <2>1, <3>2, <3>3 DEF GetPublisher
  <2>2. CASE AddSubscription(c)
    <3>1. publisher' = publisher
      BY <2>2 DEF AddSubscription
    <3>2. CASE ~Usable
      BY <2>2, <3>1, <3>2 DEF AddSubscription
    <3>3. CASE Usable
      <4>1. PICK s \in Subs : subNode' = [subNode EXCEPT ![s] = node] /\ tracked' = tracked \cup {s}
        BY <2>2, <3>3 DEF AddSubscription
      <4>2. raced' = (raced \/ Closing)
        BY <2>2, <3>3 DEF AddSubscription
      <4>3. QED
        BY <3>1, <3>3, <4>1, <4>2
    <3>4. QED
      BY <3>2, <3>3
  <2>3. CASE \E s \in Subs : Unsubscribe(c, s)
    BY <2>3 DEF Unsubscribe
  <2>4. CASE Publish(c) \/ Subscribe(c) \/ SendMessage(c) \/ Raised(c) \/ DestroySub(c)
    BY <2>4 DEF Publish, Subscribe, SendMessage, Raised, DestroySub
  <2>5. QED
    BY <2>1, <2>2, <2>3, <2>4 DEF UserStep
<1>7. ~Usable \/ Closing => (Empty => Empty')
  BY <1>6 DEF Empty
<1>8. Handles => Handles'
  <2>1. SUFFICES ASSUME Handles, ~raced', ~halfway
                 PROVE  publisher' \in {None, node} /\ \A s \in tracked' : subNode'[s] = node
    BY <1>2 DEF Handles
  <2>2. publisher \in {None, node} /\ \A s \in tracked : subNode[s] = node
    BY <1>6, <2>1 DEF Handles
  <2>3. publisher' \in {None, node}
    BY <1>6, <2>1, <2>2
  <2>4. CASE tracked' \subseteq tracked /\ subNode' = subNode
    BY <2>2, <2>3, <2>4
  <2>5. CASE \E s \in Subs : /\ tracked' = tracked \cup {s}
                             /\ subNode' = [subNode EXCEPT ![s] = node]
    BY <1>1, <2>2, <2>3, <2>5
  <2>6. QED
    BY <1>6, <2>1, <2>4, <2>5
<1>9. QED
  BY <1>2, <1>5, <1>7, <1>8

LEMMA UserSerial ==
    ASSUME NEW c \in Users, Simple, Simple', Serial,
           Publish(c) \/ Subscribe(c) \/ UserStep(c) \/ \E s \in Subs : Unsubscribe(c, s)
    PROVE  Serial'
<1>1. /\ UNCHANGED <<fieldVars, nodeState, execState, execNode, spinVars, timedOut, faulted,
                     halfway, overlapped>>
      /\ ~Usable \/ Closing => (Empty => Empty')
      /\ Handles => Handles'
  BY UserEffect
<1>2. \A d \in Clients : Inside(d)' = Inside(d)
  BY UserEffect
<1>3. \A d \in Clients : Inside(d) => pc'[d] = pc[d] /\ hand'[d] = hand[d]
  BY UserEffect
<1>4. /\ Started' = Started /\ NoneRunning' = NoneRunning /\ OneThread' = OneThread
      /\ NodeReady' = NodeReady /\ ExecReady' = ExecReady /\ Ready' = Ready
      /\ Broken' = Broken
  BY <1>1 DEF Started, Ready, ExecReady, NodeReady, NoneRunning, OneThread, Broken, Unstarted
<1>5. Stopped => Stopped'
  BY <1>1 DEF Stopped, Usable
<1>6. \A d \in Clients : Phase(d)'
  <2>1. TAKE d \in Clients
  <2>2. CASE Inside(d)
    <3>1. Phase(d) /\ pc'[d] = pc[d] /\ hand'[d] = hand[d] /\ d \in Owners
      BY <1>3, <2>2 DEF Serial, Simple
    <3>2. pc[d] \in (Quieted \ {"clearTables"}) \cup Dropping => (Empty => Empty')
      BY <1>1, <3>1 DEF Phase, Usable, Closing, Quieted, Dropping
    <3>3. QED
      BY <1>1, <1>4, <1>5, <3>1, <3>2 DEF Phase, Dropping
  <2>3. CASE ~Inside(d)
    BY <1>2, <2>3 DEF Phase, Inside, Starting, Stopping, Joining, Quieted, Dropping
  <2>4. QED
    BY <2>2, <2>3
<1>7. QED
  BY <1>1, <1>4, <1>5, <1>6, <1>2 DEF Serial

(* What a step of a spin thread may do.                                      *)
LEMMA SpinEffect ==
    ASSUME NEW i \in Ids, Simple, SpinStep(i)
    PROVE  /\ UNCHANGED <<clientVars, fieldVars, tableVars, rclVars, timedOut, halfway, raced,
                          callVars>>
           /\ \A j \in Ids \ {i} : spin'[j] = spin[j] /\ spinExec'[j] = spinExec[j]
           /\ spin[i] \in Running /\ spin'[i] \in Running \cup {"dead"}
           /\ faulted \subseteq faulted' /\ faulted' \subseteq faulted \cup {i}
<1>1. /\ spin \in [Ids -> Running \cup {"none", "made", "dead"}]
      /\ spinExec \in [Ids -> Ids \cup {None}]
  BY DEF Simple, TypeOK
<1>2. CASE SpinTest(i)
  BY <1>1, <1>2 DEF SpinTest, Running
<1>3. CASE SpinLoad(i)
  BY <1>1, <1>3 DEF SpinLoad, Running
<1>4. CASE SpinOnce(i)
  BY <1>1, <1>4 DEF SpinOnce, Running
<1>5. CASE CallbackEnds(i)
  BY <1>1, <1>5 DEF CallbackEnds, Running
<1>6. CASE CallbackBegins(i)
  BY <1>1, <1>6 DEF CallbackBegins, Running
<1>7. QED
  BY <1>2, <1>3, <1>4, <1>5, <1>6 DEF SpinStep

(* The thread of a started pubsub goes on until its callback raises.         *)
LEMMA SpinKeepsStarted ==
    ASSUME NEW i \in Ids, Simple, Started, SpinStep(i)
    PROVE  Started'
<1>1. /\ spin \in [Ids -> Running \cup {"none", "made", "dead"}]
      /\ spinExec \in [Ids -> Ids \cup {None}]
  BY DEF Simple, TypeOK
<1>2. spinThread \in Ids
  BY DEF Simple, TypeOK, Started
<1>3. /\ UNCHANGED <<fieldVars, rclVars>> /\ faulted \subseteq faulted'
      /\ \A j \in Ids \ {i} : spin'[j] = spin[j] /\ spinExec'[j] = spinExec[j]
  BY SpinEffect
<1>4. Ready' = Ready
  BY <1>3 DEF Ready, ExecReady, NodeReady
<1>5. CASE i # spinThread
  BY <1>2, <1>3, <1>4, <1>5 DEF Started
<1>6. CASE i = spinThread
  <2>1. /\ spin'[i] \in Running \/ i \in faulted'
        /\ spin'[i] = "once" => spinExec'[i] = executor
    <3>1. ~stopEvent /\ executor # None /\ execState[executor] = "up"
      BY DEF Started, Ready, ExecReady, NodeReady
    <3>2. spin[i] = "once" => spinExec[i] = executor
      BY <1>6 DEF Started
    <3>3. CASE SpinTest(i)
      BY <1>1, <3>1, <3>3 DEF SpinTest, Running
    <3>4. CASE SpinLoad(i)
      BY <1>1, <3>1, <3>4 DEF SpinLoad, Running
    <3>5. CASE SpinOnce(i)
      BY <1>1, <3>1, <3>2, <3>5 DEF SpinOnce, Running
    <3>6. CASE CallbackEnds(i)
      BY <1>1, <3>6 DEF CallbackEnds, Running
    <3>7. CASE CallbackBegins(i)
      BY <1>1, <3>7 DEF CallbackBegins, Running
    <3>8. QED
      BY <3>3, <3>4, <3>5, <3>6, <3>7 DEF SpinStep
  <2>2. spin'[i] \in Running \cup {"dead"}
    BY SpinEffect
  <2>3. QED
    BY <1>3, <1>4, <1>6, <2>1, <2>2 DEF Started
<1>7. QED
  BY <1>5, <1>6

LEMMA SpinSerial ==
    ASSUME NEW i \in Ids, Simple, Simple', Serial, SpinStep(i)
    PROVE  Serial'
<1>1. /\ UNCHANGED <<clientVars, fieldVars, tableVars, rclVars, timedOut, halfway, raced, callVars>>
      /\ \A j \in Ids \ {i} : spin'[j] = spin[j] /\ spinExec'[j] = spinExec[j]
      /\ spin[i] \in Running /\ spin'[i] \in Running \cup {"dead"}
      /\ faulted \subseteq faulted'
  BY SpinEffect
<1>2. Started => Started'
  BY SpinKeepsStarted
<1>3. (Stopped => Stopped') /\ (NodeReady => NodeReady') /\ (ExecReady => ExecReady')
      /\ (Ready => Ready') /\ (Empty => Empty') /\ (Handles => Handles')
  BY <1>1 DEF Stopped, NodeReady, ExecReady, Ready, Empty, Handles
<1>4. (NoneRunning => NoneRunning') /\ (OneThread => OneThread')
  BY <1>1 DEF NoneRunning, OneThread
<1>5. Broken => Broken'
  <2>1. spinThread \in Ids \cup {None}
    BY DEF Simple, TypeOK
  <2>2. QED
    BY <1>1, <2>1 DEF Broken, Unstarted, Running
<1>6. \A d \in Clients : Inside(d)' = Inside(d)
  BY <1>1 DEF Inside
<1>7. /\ spinThread # None /\ spin[spinThread] = "made" => spin'[spinThread] = "made"
      /\ spinThread # None /\ spin[spinThread] \in Running \cup {"dead"}
            => spin'[spinThread] \in Running \cup {"dead"}
  <2>1. spinThread \in Ids \cup {None}
    BY DEF Simple, TypeOK
  <2>2. QED
    BY <1>1, <2>1 DEF Running
<1>8. \A d \in Clients : Phase(d)'
  <2>1. TAKE d \in Clients
  <2>2. Phase(d) /\ pc' = pc /\ hand' = hand
    BY <1>1 DEF Serial
  <2>3. QED
    BY <1>1, <1>2, <1>3, <1>4, <1>7, <1>5, <2>2 DEF Phase
<1>9. QED
  BY <1>2, <1>3, <1>4, <1>6, <1>8, <1>5 DEF Serial

-----------------------------------------------------------------------------
(* The inductive invariant.                                                  *)

LEMMA InvInit == Init => Inv
<1>1. SUFFICES ASSUME Init PROVE Inv
  OBVIOUS
<1>2. \A c \in Clients : ~Inside(c)
  BY <1>1 DEF Init, Inside, Starting, Stopping, Joining, Quieted, Dropping
<1>3. Simple
  <2>1. TypeOK
    <3>1. /\ pc \in [Clients -> Locations] /\ hand \in [Clients -> Ids \cup {None}]
          /\ taken \in [Clients -> SUBSET Subs]
          /\ \A c \in Clients : pc[c] \notin {"publish", "join"}
      BY <1>1 DEF Init, Locations
    <3>2. /\ {node, executor, spinThread, publisher} \subseteq Ids \cup {None}
          /\ tracked \subseteq Subs /\ destroyed \subseteq Subs /\ faulted \subseteq Ids
          /\ starts \in 0 .. MaxStarts
      BY <1>1 DEF Init
    <3>3. /\ nodeState \in [Ids -> {"none", "alive", "destroyed"}]
          /\ execState \in [Ids -> {"none", "up", "down"}]
          /\ execNode \in [Ids -> Ids \cup {None}] /\ subNode \in [Subs -> Ids \cup {None}]
      BY <1>1 DEF Init
    <3>4. /\ spin \in [Ids -> Running \cup {"none", "made", "dead"}]
          /\ spinExec \in [Ids -> Ids \cup {None}]
          /\ \A i \in Ids : spin[i] # "once"
      BY <1>1 DEF Init, Running
    <3>5. stopEvent \in BOOLEAN /\ {overlapped, timedOut, halfway, raced} \subseteq BOOLEAN
      BY <1>1 DEF Init
    <3>6. QED
      BY <3>1, <3>2, <3>3, <3>4, <3>5 DEF TypeOK
  <2>2. QED
    BY <1>1, <1>2, <2>1 DEF Init, Simple
<1>4. Stopped /\ OneThread /\ Handles
  BY <1>1 DEF Init, Stopped, Empty, OneThread, Handles, Running
<1>5. \A c \in Clients : Phase(c)
  BY <1>2 DEF Phase, Inside, Starting, Stopping, Joining, Quieted, Dropping
<1>6. QED
  BY <1>2, <1>3, <1>4, <1>5 DEF Inv, Serial

LEMMA InvStutters ==
    ASSUME Inv, UNCHANGED vars
    PROVE  Inv'
<1>1. Simple'
  BY DEF Inv, Simple, TypeOK, Inside, vars
<1>2. Serial' = Serial
  BY DEF Serial, Phase, Inside, Stopped, Started, Ready, ExecReady, NodeReady, NoneRunning,
         Broken, Unstarted, Empty, OneThread, Handles, vars
<1>3. QED
  BY <1>1, <1>2 DEF Inv, vars

(* Outside of Enter the history of overlapping calls is kept.                *)
LEMMA InvStep ==
    ASSUME Inv, Next
    PROVE  Inv'
<1>1. Simple /\ (~overlapped => Serial)
  BY DEF Inv
<1>2. ASSUME NEW c \in Owners, Start(c) \/ Stop(c) \/ OwnerStep(c)
      PROVE  Inv'
  <2>1. Simple'
    BY <1>1, <1>2, OwnerStepTypes
  <2>2. CASE Start(c) \/ Stop(c)
    BY <1>1, <2>1, <2>2, EnterSerial DEF Inv
  <2>3. CASE OwnerStep(c)
    <3>1. overlapped' = overlapped
      BY <2>3 DEF OwnerStep, ClearEvent, NewNode, NewExecutor, AddNode, NewThread, StartThread,
                  SetEvent, TestExecutor, Shutdown, LoadThread, Join, ClearTables, TestHandles,
                  DestroyHandles, TestNode, DestroyNode, DropNode, DropExecutor, DropThread,
                  Raised
    <3>2. QED
      BY <1>1, <2>1, <2>3, <3>1, OwnerSerial DEF Inv
  <2>4. QED
    BY <1>2, <2>2, <2>3
<1>3. ASSUME NEW c \in Users,
             Publish(c) \/ Subscribe(c) \/ UserStep(c) \/ \E s \in Subs : Unsubscribe(c, s)
      PROVE  Inv'
  <2>1. Simple'
    BY <1>1, <1>3, UserStepTypes
  <2>2. overlapped' = overlapped
    BY <1>1, <1>3, <2>1, UserEffect
  <2>3. QED
    BY <1>1, <1>3, <2>1, <2>2, UserSerial DEF Inv
<1>4. ASSUME NEW i \in Ids, SpinStep(i)
      PROVE  Inv'
  <2>1. Simple'
    BY <1>1, <1>4, SpinStepTypes
  <2>2. overlapped' = overlapped
    BY <1>1, <1>4, SpinEffect
  <2>3. QED
    BY <1>1, <1>4, <2>1, <2>2, SpinSerial DEF Inv
<1>5. QED
  BY <1>2, <1>3, <1>4 DEF Next

(* Types, and what holds of start and stop while their calls do not overlap. *)
THEOREM RosInvariant == Spec => []Inv
<1>1. Inv /\ [Next]_vars => Inv'
  BY InvStep, InvStutters
<1>2. QED
  BY InvInit, <1>1, PTL DEF Spec

-----------------------------------------------------------------------------
(* Every attribute of RawROS, every node, executor and thread stays in the   *)
(* range the code gives it.                                                  *)
THEOREM TypeCorrect == Spec => []TypeOK
<1>1. Inv => TypeOK
  BY DEF Inv, Simple
<1>2. QED
  BY RosInvariant, <1>1, PTL

(* No two threads spin at once while start and stop do not overlap and every *)
(* join gets its thread, whatever publishers and subscribers do.             *)
THEOREM StartMakesOneSpinner == Spec => []OneSpinner
<1>1. Inv => OneSpinner
  BY DEF Inv, Serial, OneThread, OneSpinner
<1>2. QED
  BY RosInvariant, <1>1, PTL

(* Once stop has joined its thread, none runs until start makes another.     *)
THEOREM StopQuiets == Spec => []QuietWhenStopped
<1>1. Inv => QuietWhenStopped
  <2>1. SUFFICES ASSUME Inv, ~overlapped, ~timedOut,
                        spinThread = None \/ \E o \in Owners : pc[o] \in AfterJoin
                 PROVE  \A i \in Ids : spin[i] \notin Running
    BY DEF QuietWhenStopped
  <2>2. OneThread /\ \A o \in Owners : Phase(o)
    BY <2>1 DEF Inv, Serial, Clients
  <2>3. CASE spinThread = None
    BY <2>1, <2>2, <2>3 DEF OneThread
  <2>4. CASE \E o \in Owners : pc[o] \in AfterJoin
    <3>1. PICK o \in Owners : pc[o] \in AfterJoin
      BY <2>4
    <3>2. NoneRunning
      BY <2>2, <3>1 DEF AfterJoin, Quieted, Phase
    <3>3. QED
      BY <2>1, <3>2 DEF NoneRunning
  <2>5. QED
    BY <2>1, <2>3, <2>4
<1>2. QED
  BY RosInvariant, <1>1, PTL

(* The tables name the node in use, but for an entry made between clearing   *)
(* the tables and destroying the node.                                       *)
THEOREM TablesNameTheNode == Spec => []HandlesCurrent
<1>1. Inv => HandlesCurrent
  BY DEF Inv, Serial, Handles, HandlesCurrent
<1>2. QED
  BY RosInvariant, <1>1, PTL

(* Between calls a pubsub that is started has a thread, an executor that is  *)
(* up and the live node on it, unless a callback raised.                     *)
THEOREM StartedDelivers == Spec => []DeliveryReady
<1>1. Inv => DeliveryReady
  <2>1. SUFFICES ASSUME Inv, ~overlapped, spinThread # None, spinThread \notin Unstarted,
                        \A o \in Owners : pc[o] = "idle"
                 PROVE  /\ spin[spinThread] \in Running \/ spinThread \in faulted
                        /\ Ready
    BY DEF DeliveryReady, Ready, ExecReady, NodeReady
  <2>2. \A c \in Clients : ~Inside(c)
    BY <2>1 DEF Inv, Simple, Inside, Starting, Stopping, Joining, Quieted, Dropping
  <2>3. Started
    BY <2>1, <2>2 DEF Inv, Serial, Stopped, Broken
  <2>4. QED
    BY <2>3 DEF Started
<1>2. QED
  BY RosInvariant, <1>1, PTL

-----------------------------------------------------------------------------
(* The nodes: while no calls overlap, and no start has left a node behind,   *)
(* none is alive but the current one,                                        *)
(* and no subscription is on a node, or was destroyed, that is still to be   *)
(* made.                                                                     *)
NodeInv ==
    /\ ~overlapped /\ ~halfway => \A n \in Ids : nodeState[n] = "alive" => n = node
    /\ \A s \in Subs : subNode[s] # None => nodeState[subNode[s]] # "none"
    /\ \A s \in destroyed : subNode[s] # None

LEMMA NodeInvOwner ==
    ASSUME NEW c \in Owners, Inv, NodeInv, Start(c) \/ Stop(c) \/ OwnerStep(c)
    PROVE  NodeInv'
<1>1. /\ nodeState \in [Ids -> {"none", "alive", "destroyed"}]
      /\ subNode \in [Subs -> Ids \cup {None}]
      /\ node \in Ids \cup {None} /\ {overlapped, halfway} \subseteq BOOLEAN
      /\ ~overlapped => Phase(c)
  BY DEF Inv, Simple, TypeOK, Serial, Clients
<1>2. /\ subNode' = subNode /\ (overlapped => overlapped') /\ (halfway => halfway')
      /\ \A s \in destroyed' : s \in destroyed \/ subNode[s] # None
  <2>1. CASE Start(c) \/ Stop(c)
    <3>1. UNCHANGED <<subNode, destroyed, halfway>>
      BY <2>1 DEF Start, Stop
    <3>2. overlapped => overlapped'
      BY <2>1 DEF Start, Stop, Enter
    <3>3. QED
      BY <3>1, <3>2
  <2>2. CASE DestroyHandles(c)
    <3>1. /\ destroyed' = destroyed \/ \E t \in taken[c] : node # None /\ DestroyOnNode(t)
          /\ UNCHANGED <<subNode, ghostVars, callVars>>
      BY <2>2, DestroyHandlesEffect DEF Clients
    <3>2. QED
      BY <3>1 DEF DestroyOnNode
  <2>3. CASE OwnerStep(c) /\ ~DestroyHandles(c)
    BY <2>3 DEF OwnerStep, ClearEvent, NewNode, NewExecutor, AddNode, NewThread, StartThread,
                SetEvent, TestExecutor, Shutdown, LoadThread, Join, ClearTables, TestHandles,
                TestNode, DestroyNode, DropNode, DropExecutor, DropThread, Raised
  <2>4. QED
    BY <2>1, <2>2, <2>3
<1>3. CASE NewNode(c)
  <2>1. CASE UNCHANGED <<node, nodeState>>
    BY <1>2, <2>1 DEF NodeInv
  <2>2. CASE \E i \in Ids : /\ nodeState[i] = "none" /\ node' = i
                            /\ nodeState' = [nodeState EXCEPT ![i] = "alive"]
    <3>1. PICK i \in Ids : /\ nodeState[i] = "none" /\ node' = i
                           /\ nodeState' = [nodeState EXCEPT ![i] = "alive"]
      BY <2>2
    <3>2. ~overlapped /\ ~halfway => node = None
      BY <1>1, <1>3 DEF NewNode, Goto, Phase, Stopped
    <3>3. QED
      BY <1>1, <1>2, <3>1, <3>2 DEF NodeInv
  <2>3. QED
    BY <1>3, <2>1, <2>2 DEF NewNode, Fresh
<1>4. CASE DestroyNode(c)
  <2>1. /\ node' = node
        /\ nodeState' = [i \in Ids |-> IF i = node THEN "destroyed" ELSE nodeState[i]]
    BY <1>4 DEF DestroyNode
  <2>2. QED
    BY <1>1, <1>2, <2>1 DEF NodeInv
<1>5. CASE DropNode(c)
  <2>1. nodeState' = nodeState /\ node' = None
    BY <1>5 DEF DropNode
  <2>2. ~overlapped => node # None /\ nodeState[node] = "destroyed"
    BY <1>1, <1>5 DEF DropNode, Goto, Phase
  <2>3. QED
    BY <1>1, <1>2, <2>1, <2>2 DEF NodeInv
<1>6. CASE ~NewNode(c) /\ ~DestroyNode(c) /\ ~DropNode(c)
  <2>1. UNCHANGED <<node, nodeState>>
    <3>1. CASE DestroyHandles(c)
      BY <3>1, DestroyHandlesEffect DEF Clients
    <3>2. QED
      BY <1>6, <3>1 DEF Start, Stop, OwnerStep, ClearEvent, NewExecutor, AddNode, NewThread,
                  StartThread, SetEvent, TestExecutor, Shutdown, LoadThread, Join, ClearTables,
                  TestHandles, TestNode, DropExecutor, DropThread, Raised
  <2>2. QED
    BY <1>2, <2>1 DEF NodeInv
<1>7. QED
  BY <1>3, <1>4, <1>5, <1>6

LEMMA NodeInvUser ==
    ASSUME NEW c \in Users, Inv, Inv', NodeInv,
           Publish(c) \/ Subscribe(c) \/ UserStep(c) \/ \E s \in Subs : Unsubscribe(c, s)
    PROVE  NodeInv'
<1>1. UNCHANGED <<node, nodeState, overlapped, halfway>>
  BY UserEffect DEF Inv
<1>2. CASE AddSubscription(c) /\ Usable
  <2>1. PICK s \in Subs : subNode' = [subNode EXCEPT ![s] = node] /\ destroyed' = destroyed
    BY <1>2 DEF AddSubscription
  <2>2. /\ destroyed \subseteq Subs /\ subNode \in [Subs -> Ids \cup {None}]
        /\ nodeState[node] = "alive" /\ node # None
    BY <1>2 DEF Usable, Inv, Simple, TypeOK
  <2>3. QED
    BY <1>1, <2>1, <2>2 DEF NodeInv
<1>3. CASE ~(AddSubscription(c) /\ Usable)
  <2>1. subNode' = subNode /\ \A s \in destroyed' \ destroyed : subNode[s] # None
    BY <1>3 DEF UserStep, Publish, Subscribe, GetPublisher, SendMessage, AddSubscription,
       Raised,
                Unsubscribe, DestroySub, DestroyOnNode
  <2>2. QED
    BY <1>1, <2>1 DEF NodeInv
<1>4. QED
  BY <1>2, <1>3

THEOREM NodesInvariant == Spec => []NodeInv
<1>1. Init => NodeInv
  BY DEF Init, NodeInv
<1>2. Inv /\ Inv' /\ NodeInv /\ [Next]_vars => NodeInv'
  <2>1. SUFFICES ASSUME Inv, Inv', NodeInv, [Next]_vars PROVE NodeInv'
    OBVIOUS
  <2>2. ASSUME NEW i \in Ids, SpinStep(i)
        PROVE  NodeInv'
    <3>1. UNCHANGED <<fieldVars, rclVars, callVars, halfway>>
      BY <2>1, <2>2, SpinEffect DEF Inv
    <3>2. QED
      BY <2>1, <3>1 DEF NodeInv
  <2>3. CASE UNCHANGED vars
    BY <2>1, <2>3 DEF NodeInv, vars
  <2>4. QED
    BY <2>1, <2>2, <2>3, NodeInvOwner, NodeInvUser DEF Next
<1>3. QED
  BY <1>1, <1>2, RosInvariant, PTL DEF Spec

-----------------------------------------------------------------------------
(* The mode of the session is told by the one call under way.                *)

Contested == overlapped \/ timedOut \/ halfway

ModeFacts ==
    /\ Contested <=> Mode = "contested"
    /\ ~Contested =>
          /\ \A c \in Owners :
                /\ pc[c] \in Starting => Mode = "starting"
                /\ pc[c] \in Joining  => Mode = "stopping"
                /\ pc[c] \in Quieted  => Mode = "quiet"
                /\ pc[c] \in Dropping => Mode = "down"
          /\ (\A c \in Owners : ~Inside(c)) => Mode = IF spinThread = None THEN "down" ELSE "up"

LEMMA ModeIs == Inv => ModeFacts
<1>1. SUFFICES ASSUME Inv PROVE ModeFacts
  OBVIOUS
<1>2. Contested <=> Mode = "contested"
  BY DEF Contested, Mode
<1>3. ASSUME ~Contested
      PROVE  /\ \A c \in Owners :
                   /\ pc[c] \in Starting => Mode = "starting"
                   /\ pc[c] \in Joining  => Mode = "stopping"
                   /\ pc[c] \in Quieted  => Mode = "quiet"
                   /\ pc[c] \in Dropping => Mode = "down"
             /\ (\A c \in Owners : ~Inside(c)) => Mode = IF spinThread = None THEN "down" ELSE "up"
  <2>1. /\ \A c, d \in Owners : Inside(c) /\ Inside(d) => c = d
        /\ (\A c \in Owners : ~Inside(c)) => Stopped \/ Started
        /\ \A c \in Owners : Phase(c)
    BY <1>1, <1>3 DEF Contested, Inv, Serial, Simple, Clients, Broken
  <2>2. ASSUME NEW c \in Owners, Inside(c)
        PROVE  \A set \in {Starting, Joining, Quieted} : Within(set) <=> pc[c] \in set
    BY <2>1, <2>2 DEF Within, Inside, Starting, Stopping, Joining, Quieted
  <2>3. ASSUME NEW c \in Owners
        PROVE  /\ pc[c] \in Starting => Mode = "starting"
               /\ pc[c] \in Joining  => Mode = "stopping"
               /\ pc[c] \in Quieted  => Mode = "quiet"
    BY <1>3, <2>2 DEF Contested, Mode, Inside, Starting, Stopping, Joining, Quieted
  <2>4. ASSUME NEW c \in Owners, pc[c] \in Dropping
        PROVE  Mode = "down"
    <3>1. ~(node # None /\ nodeState[node] = "alive")
      BY <2>1, <2>4 DEF Phase, Dropping
    <3>2. ~Within(Starting) /\ ~Within(Joining) /\ ~Within(Quieted)
      BY <2>2, <2>4 DEF Inside, Starting, Stopping, Joining, Quieted, Dropping
    <3>3. QED
      BY <1>3, <3>1, <3>2 DEF Contested, Mode
  <2>5. ASSUME \A c \in Owners : ~Inside(c)
        PROVE  Mode = IF spinThread = None THEN "down" ELSE "up"
    <3>1. ~Within(Starting) /\ ~Within(Joining) /\ ~Within(Quieted)
      BY <2>5 DEF Within, Inside, Starting, Stopping, Joining, Quieted
    <3>2. IF spinThread = None THEN node = None ELSE node # None /\ nodeState[node] = "alive"
      BY <1>3, <2>1, <2>5 DEF Contested, Stopped, Started, Ready, ExecReady, NodeReady
    <3>3. QED
      BY <1>3, <3>1, <3>2 DEF Contested, Mode
  <2>6. QED
    BY <2>3, <2>4, <2>5
<1>4. QED
  BY <1>2, <1>3 DEF ModeFacts

-----------------------------------------------------------------------------
(* Each step is a step of the session or leaves it as it is.                 *)

Active(s) == subNode[s] # None /\ s \notin destroyed /\ nodeState[subNode[s]] = "alive"

LEMMA LivesAre ==
    /\ Session!In("active") = {s \in Subs : Active(s)}
    /\ Session!In("new") = {s \in Subs : subNode[s] = None}
BY DEF Session!In, Lives, Life, Active

LEMMA SameLives ==
    ASSUME UNCHANGED <<subNode, destroyed>>,
           \A s \in Subs : subNode[s] # None =>
               (nodeState'[subNode[s]] = "alive" <=> nodeState[subNode[s]] = "alive")
    PROVE  UNCHANGED Lives
BY DEF Lives, Life

LEMMA SessionStutters ==
    ASSUME UNCHANGED <<Mode, Lives, Calling>>
    PROVE  UNCHANGED Session!vars
BY DEF Session!vars

(* The calls of start and stop but for the end of the node.                  *)
LEMMA OwnerKeepsLives ==
    ASSUME NEW c \in Owners, Inv, NodeInv, Start(c) \/ Stop(c) \/ OwnerStep(c),
           ~DestroyNode(c), ~DestroyHandles(c)
    PROVE  UNCHANGED Lives
<1>1. UNCHANGED <<subNode, destroyed>>
  BY DEF Start, Stop, OwnerStep, ClearEvent, NewNode, NewExecutor, AddNode, NewThread,
         StartThread, SetEvent, TestExecutor, Shutdown, LoadThread, Join, ClearTables,
         TestHandles, TestNode, DropNode, DropExecutor, DropThread, Raised
<1>2. CASE NewNode(c) /\ nodeState' # nodeState
  <2>1. PICK i \in Ids : nodeState[i] = "none" /\ nodeState' = [nodeState EXCEPT ![i] = "alive"]
    BY <1>2 DEF NewNode, Fresh
  <2>2. nodeState \in [Ids -> {"none", "alive", "destroyed"}]
    BY DEF Inv, Simple, TypeOK
  <2>3. \A s \in Subs : subNode[s] # None => nodeState'[subNode[s]] = nodeState[subNode[s]]
    BY <2>1, <2>2 DEF NodeInv
  <2>4. QED
    BY <1>1, <2>3, SameLives
<1>3. CASE ~NewNode(c) \/ nodeState' = nodeState
  <2>1. nodeState' = nodeState
    BY <1>3 DEF Start, Stop, OwnerStep, ClearEvent, NewExecutor, AddNode, NewThread,
       StartThread,
                SetEvent, TestExecutor, Shutdown, LoadThread, Join, ClearTables, TestHandles,
                TestNode, DropNode, DropExecutor, DropThread, Raised
  <2>2. QED
    BY <1>1, <2>1, SameLives
<1>4. QED
  BY <1>2, <1>3

LEMMA OwnerKeepsCalling ==
    ASSUME NEW c \in Owners, Inv, Start(c) \/ Stop(c) \/ OwnerStep(c)
    PROVE  UNCHANGED Calling
<1>1. spin \in [Ids -> Running \cup {"none", "made", "dead"}]
  BY DEF Inv, Simple, TypeOK
<1>2. CASE NewThread(c)
  BY <1>1, <1>2 DEF NewThread, Fresh, Calling
<1>3. CASE StartThread(c)
  BY <1>1, <1>3 DEF StartThread, Calling
<1>4. CASE ~NewThread(c) /\ ~StartThread(c)
  <2>1. spin' = spin
    <3>1. CASE DestroyHandles(c)
      BY <3>1, DestroyHandlesEffect DEF Clients
    <3>2. QED
      BY <1>4, <3>1 DEF Start, Stop, OwnerStep, ClearEvent, NewNode, NewExecutor, AddNode,
                  SetEvent, TestExecutor, Shutdown, LoadThread, Join, ClearTables, TestHandles,
                  TestNode, DestroyNode, DropNode, DropExecutor, DropThread, Raised
  <2>2. QED
    BY <2>1 DEF Calling
<1>5. QED
  BY <1>2, <1>3, <1>4

(* One subscription is given to the node.                                    *)
LEMMA SubscriptionEnds ==
    ASSUME NEW s \in Subs, Inv, DestroyOnNode(s), UNCHANGED <<nodeState, subNode, Mode, Calling>>
    PROVE  Session!Next \/ UNCHANGED Session!vars
<1>1. CASE node # None /\ subNode[s] = node /\ Active(s)
  <2>1. \A t \in Subs : Life(t)' = IF t \in {s} THEN "over" ELSE Life(t)
    BY <1>1 DEF Life, Active, DestroyOnNode
  <2>2. Session!Unsubscribe(s)
    BY <1>1, <2>1 DEF Session!Unsubscribe, Session!Lapse, Lives, Life, Active
  <2>3. QED
    BY <2>2 DEF Session!Next
<1>2. CASE ~(node # None /\ subNode[s] = node /\ Active(s))
  <2>1. \A t \in Subs : Life(t)' = Life(t)
    BY <1>2 DEF Life, Active, DestroyOnNode
  <2>2. QED
    BY <2>1, SessionStutters DEF Lives
<1>3. QED
  BY <1>1, <1>2

LEMMA DestroyHandlesRefines ==
    ASSUME NEW c \in Owners, Inv, Inv', ModeFacts, ModeFacts', DestroyHandles(c)
    PROVE  Session!Next \/ UNCHANGED Session!vars
<1>1. /\ pc[c] = "destroyHandles" /\ c \in Clients
      /\ \E l \in {"raised", "destroyHandles", "testNode"} : pc' = [pc EXCEPT ![c] = l]
      /\ node # None => \E l \in {"destroyHandles", "testNode"} : pc' = [pc EXCEPT ![c] = l]
      /\ destroyed' = destroyed \/ \E t \in taken[c] : DestroyOnNode(t)
      /\ UNCHANGED <<nodeState, subNode, ghostVars, callVars>>
  BY DestroyHandlesEffect DEF Clients
<1>2. UNCHANGED Calling
  BY OwnerKeepsCalling DEF OwnerStep
<1>3. UNCHANGED Mode
  <2>1. CASE Contested
    <3>1. Contested'
      BY <1>1, <2>1 DEF Contested
    <3>2. QED
      BY <2>1, <3>1 DEF ModeFacts
  <2>2. CASE ~Contested
    <3>1. pc \in [Clients -> Locations] /\ Phase(c)
      BY <1>1, <2>2 DEF Inv, Simple, TypeOK, Serial, Contested
    <3>2. node # None
      BY <1>1, <3>1 DEF Phase, Quieted
    <3>3. pc[c] \in Quieted /\ pc'[c] \in Quieted /\ ~Contested'
      BY <1>1, <2>2, <3>1, <3>2 DEF Quieted, Contested
    <3>4. QED
      BY <2>2, <3>3 DEF ModeFacts
  <2>3. QED
    BY <2>1, <2>2
<1>4. CASE \E t \in taken[c] : DestroyOnNode(t)
  <2>1. PICK t \in taken[c] : DestroyOnNode(t)
    BY <1>4
  <2>2. t \in Subs
    BY <1>1, <2>1 DEF Inv, Simple, TypeOK
  <2>3. QED
    BY <1>1, <1>2, <1>3, <2>1, <2>2, SubscriptionEnds
<1>5. CASE destroyed' = destroyed
  BY <1>1, <1>2, <1>3, <1>5, SameLives, SessionStutters
<1>6. QED
  BY <1>1, <1>4, <1>5

LEMMA DestroyNodeReleases ==
    ASSUME NEW c \in Owners, Inv, Inv', NodeInv, ModeFacts, ModeFacts', DestroyNode(c)
    PROVE  Session!Next
<1> DEFINE some == {s \in Subs : Active(s) /\ subNode[s] = node}
<1>1. /\ pc[c] = "destroyNode"
      /\ UNCHANGED <<node, subNode, destroyed, overlapped, timedOut, halfway>>
      /\ nodeState' = [i \in Ids |-> IF i = node THEN "destroyed" ELSE nodeState[i]]
      /\ pc' = [pc EXCEPT ![c] = IF node = None THEN "raised" ELSE "dropNode"]
  BY DEF DestroyNode, Goto
<1>2. /\ subNode \in [Subs -> Ids \cup {None}] /\ c \in Clients /\ pc \in [Clients -> Locations]
  BY DEF Inv, Simple, TypeOK, Clients
<1>3. UNCHANGED Calling
  BY OwnerKeepsCalling DEF OwnerStep
<1>4. Session!Lapse(some)
  <2>1. ASSUME NEW s \in Subs
        PROVE  Life(s)' = IF s \in some THEN "over" ELSE Life(s)
    BY <1>1, <1>2 DEF Life, Active
  <2>2. QED
    BY <2>1 DEF Session!Lapse, Lives
<1>5. CASE Contested
  <2>1. Mode = "contested" /\ Mode' = "contested"
    BY <1>1, <1>5 DEF ModeFacts, Contested
  <2>2. some \in SUBSET Session!In("active")
    BY LivesAre
  <2>3. Session!Release
    BY <1>3, <1>4, <2>1, <2>2 DEF Session!Release
  <2>4. QED
    BY <2>3 DEF Session!Next
<1>6. CASE ~Contested
  <2>1. Mode = "quiet"
    BY <1>1, <1>6 DEF ModeFacts, Quieted
  <2>2. Mode' = "down"
    <3>1. node # None
      BY <1>1, <1>2, <1>6 DEF Inv, Serial, Contested, Phase, Quieted
    <3>2. pc'[c] \in Dropping
      BY <1>1, <1>2, <3>1 DEF Dropping
    <3>3. QED
      BY <1>1, <1>6, <3>2 DEF ModeFacts, Contested
  <2>3. some = Session!In("active")
    <3>1. \A s \in Subs : Active(s) => subNode[s] = node
      BY <1>2, <1>6 DEF Active, NodeInv, Contested
    <3>2. QED
      BY <3>1, LivesAre
  <2>4. Session!Release
    BY <1>3, <1>4, <2>1, <2>2, <2>3 DEF Session!Release
  <2>5. QED
    BY <2>4 DEF Session!Next
<1>7. QED
  BY <1>5, <1>6

(* A step of a call that nobody contests turns the mode, or stays in it.     *)
LEMMA OwnerTurns ==
    ASSUME NEW c \in Owners, Inv, Inv', ModeFacts, ModeFacts', ~Contested, ~Contested',
           Start(c) \/ Stop(c) \/ OwnerStep(c), ~DestroyNode(c), ~DestroyHandles(c)
    PROVE  \/ Mode' = Mode
           \/ Mode = "down" /\ Mode' = "starting"
           \/ Mode = "starting" /\ Mode' = "up"
           \/ Mode = "starting" /\ Mode' = "down" /\ node = None
           \/ Mode = "up" /\ Mode' = "stopping"
           \/ Mode = "stopping" /\ Mode' = "quiet" /\ Calling = {}
<1>1. /\ c \in Clients /\ pc \in [Clients -> Locations] /\ Owners \subseteq Clients
      /\ \A d, e \in Owners : Inside(d) /\ Inside(e) => d = e
      /\ Phase(c) /\ Phase(c)'
      /\ \A d \in Clients : Inside(d) => d \in Owners
      /\ {timedOut, overlapped, halfway} \subseteq BOOLEAN
      /\ spinThread \in Ids \cup {None}
  BY DEF Inv, Simple, TypeOK, Serial, Clients, Contested
<1>2. \E l \in Locations : pc' = [pc EXCEPT ![c] = l]
  BY <1>1, OwnerMoves
<1>3. \A d \in Owners \ {c} : Inside(d)' = Inside(d) /\ pc'[d] = pc[d]
  BY <1>1, <1>2 DEF Inside
<1>4. CASE Start(c) \/ Stop(c)
  <2>1. /\ spinThread' = spinThread
        /\ pc' = [pc EXCEPT ![c] = IF spinThread = None THEN "clearEvent" ELSE "setEvent"]
        /\ \A d \in Owners : pc[d] = "idle"
    BY <1>1, <1>4 DEF Start, Stop, Enter, Goto, Contested
  <2>2. \A d \in Owners : ~Inside(d)
    BY <2>1 DEF Inside, Starting, Stopping, Joining, Quieted, Dropping
  <2>3. Mode = IF spinThread = None THEN "down" ELSE "up"
    BY <2>2 DEF ModeFacts
  <2>4. Mode' = IF spinThread = None THEN "starting" ELSE "stopping"
    BY <1>1, <2>1 DEF ModeFacts, Starting, Joining
  <2>5. QED
    BY <2>3, <2>4
<1>5. CASE Raised(c)
  <2>1. pc[c] = "raised" /\ pc'[c] = "idle" /\ spinThread' = spinThread
    BY <1>1, <1>5 DEF Raised, Goto
  <2>2. CASE \E d \in Owners : Inside(d)
    <3>1. PICK d \in Owners : Inside(d)
      BY <2>2
    <3>2. pc'[d] = pc[d]
      BY <1>3, <2>1, <3>1 DEF Inside, Starting, Stopping, Joining, Quieted, Dropping
    <3>3. QED
      BY <3>1, <3>2 DEF ModeFacts, Inside, Starting, Stopping, Joining, Quieted, Dropping
  <2>3. CASE \A d \in Owners : ~Inside(d)
    <3>1. \A d \in Owners : ~Inside(d)'
      BY <1>3, <2>1, <2>3 DEF Inside, Starting, Stopping, Joining, Quieted, Dropping
    <3>2. QED
      BY <2>1, <2>3, <3>1 DEF ModeFacts
  <2>4. QED
    BY <2>2, <2>3
<1>6. CASE ClearEvent(c) \/ NewNode(c) \/ NewExecutor(c) \/ AddNode(c) \/ NewThread(c)
  <2>1. pc[c] \in Starting
    BY <1>1, <1>6 DEF ClearEvent, NewNode, NewExecutor, AddNode, NewThread, Goto, Starting
  <2>2. CASE pc'[c] \in Starting
    BY <2>1, <2>2 DEF ModeFacts
  <2>3. CASE pc'[c] \notin Starting
    <3>1. NewNode(c) /\ pc'[c] = "raised" /\ spinThread' = spinThread
      BY <1>1, <1>6, <2>3
         DEF ClearEvent, NewNode, NewExecutor, AddNode, NewThread, Goto, Starting,
                              Contested
    <3>2. pc[c] = "newNode" /\ spinThread = None /\ node = None
      BY <1>1, <3>1 DEF NewNode, Goto, Phase, Stopped, Contested
    <3>3. \A d \in Owners : ~Inside(d)'
      BY <1>1, <1>3, <2>1, <3>1 DEF Inside, Starting, Stopping, Joining, Quieted, Dropping
    <3>4. Mode = "starting" /\ Mode' = "down"
      BY <2>1, <3>1, <3>2, <3>3 DEF ModeFacts
    <3>5. QED
      BY <3>2, <3>4
  <2>4. QED
    BY <2>2, <2>3
<1>7. CASE StartThread(c)
  <2>1. pc[c] = "startThread" /\ spinThread # None /\ spin[spinThread] = "made"
    BY <1>1, <1>7 DEF StartThread, Goto, Phase
  <2>2. pc'[c] = "idle" /\ spinThread' = spinThread
    BY <1>1, <1>7, <2>1 DEF StartThread, Goto, Contested
  <2>3. \A d \in Owners : ~Inside(d)'
    BY <1>1, <1>3, <2>1, <2>2 DEF Inside, Starting, Stopping, Joining, Quieted, Dropping
  <2>4. Mode = "starting" /\ Mode' = "up"
    BY <2>1, <2>2, <2>3 DEF ModeFacts, Starting
  <2>5. QED
    BY <2>4
<1>8. CASE SetEvent(c) \/ TestExecutor(c) \/ Shutdown(c) \/ LoadThread(c)
  <2>1. pc[c] \in Joining
    BY <1>1, <1>8 DEF SetEvent, TestExecutor, Shutdown, LoadThread, Goto, Joining
  <2>2. pc'[c] \in Joining
    <3>1. pc[c] # "setEvent" => executor # None /\ spinThread # None
      BY <1>1, <2>1 DEF Phase
    <3>2. QED
      BY <1>1, <1>8, <3>1 DEF SetEvent, TestExecutor, Shutdown, LoadThread, Goto, Joining
  <2>3. QED
    BY <2>1, <2>2 DEF ModeFacts
<1>9. CASE Join(c)
  <2>1. pc[c] = "join" /\ hand[c] = spinThread /\ spin[spinThread] # "made"
    BY <1>1, <1>9 DEF Join, Goto, Phase, Joining, Running, Contested, Broken
  <2>2. pc[c] = "join" /\ pc'[c] = "clearTables" /\ spin' = spin
    BY <1>1, <1>9, <2>1 DEF Join, Goto
  <2>3. Mode = "stopping" /\ Mode' = "quiet"
    BY <2>2 DEF ModeFacts, Joining, Quieted
  <2>4. Calling = {}
    BY <1>1, <2>2 DEF Phase, NoneRunning, Contested, Calling, Running
  <2>5. QED
    BY <2>3, <2>4
<1>10. CASE ClearTables(c) \/ TestHandles(c) \/ TestNode(c)
  <2>1. pc[c] \in Quieted /\ node # None
    BY <1>1, <1>10 DEF ClearTables, TestHandles, TestNode, Goto, Quieted, Phase
  <2>2. pc[c] \in Quieted /\ pc'[c] \in Quieted
    BY <1>1, <1>10, <2>1 DEF ClearTables, TestHandles, TestNode, Goto, Quieted
  <2>3. QED
    BY <2>2 DEF ModeFacts
<1>11. CASE DropNode(c) \/ DropExecutor(c)
  <2>1. pc[c] \in Dropping /\ pc'[c] \in Dropping
    BY <1>1, <1>11 DEF DropNode, DropExecutor, Goto, Dropping
  <2>2. QED
    BY <2>1 DEF ModeFacts
<1>12. CASE DropThread(c)
  <2>1. pc[c] = "dropThread" /\ pc'[c] = "idle" /\ spinThread' = None
    BY <1>1, <1>12 DEF DropThread, Goto
  <2>2. \A d \in Owners : ~Inside(d)'
    BY <1>1, <1>3, <2>1 DEF Inside, Starting, Stopping, Joining, Quieted, Dropping
  <2>3. QED
    BY <2>1, <2>2 DEF ModeFacts, Dropping
<1>13. QED
  BY <1>4, <1>5, <1>6, <1>7, <1>8, <1>9, <1>10, <1>11, <1>12 DEF OwnerStep

LEMMA OwnerRefines ==
    ASSUME NEW c \in Owners, Inv, Inv', NodeInv, ModeFacts, ModeFacts',
           Start(c) \/ Stop(c) \/ OwnerStep(c)
    PROVE  Session!Next \/ UNCHANGED Session!vars
<1>1. CASE DestroyNode(c)
  BY <1>1, DestroyNodeReleases
<1>2. CASE DestroyHandles(c)
  BY <1>2, DestroyHandlesRefines
<1>3. CASE ~DestroyNode(c) /\ ~DestroyHandles(c)
  <2>1. UNCHANGED <<Lives, Calling>>
    BY <1>3, OwnerKeepsLives, OwnerKeepsCalling
  <2>2. CASE Contested'
    <3>1. Mode' = "contested"
      BY <2>2 DEF ModeFacts
    <3>2. Mode = "contested" \/ Session!Contest
      BY <2>1, <3>1 DEF Session!Contest, Session!Turn
    <3>3. QED
      BY <2>1, <3>1, <3>2, SessionStutters DEF Session!Next
  <2>3. CASE ~Contested'
    <3>1. ~Contested
      BY <1>3, <2>3
         DEF Contested, Start, Stop, Enter, OwnerStep, ClearEvent, NewNode, NewExecutor,
             AddNode, NewThread, StartThread, SetEvent, TestExecutor, Shutdown, LoadThread,
             Join,
             ClearTables, TestHandles, TestNode, DropNode, DropExecutor, DropThread, Raised
    <3>2. node = None => Session!In("active") = {}
      <4>1. node = None => \A n \in Ids : nodeState[n] # "alive"
        BY <3>1 DEF NodeInv, Contested
      <4>2. subNode \in [Subs -> Ids \cup {None}]
        BY DEF Inv, Simple, TypeOK
      <4>3. QED
        BY <4>1, <4>2, LivesAre DEF Active
    <3>3. \/ Mode' = Mode
          \/ Session!Start \/ Session!Started \/ Session!Failed \/ Session!Stop
          \/ Session!Joined
      BY <1>3, <2>1, <2>3, <3>1, <3>2, OwnerTurns
         DEF Session!Start, Session!Started, Session!Failed, Session!Stop, Session!Joined,
             Session!Turn
    <3>4. QED
      BY <2>1, <3>3, SessionStutters DEF Session!Next
  <2>4. QED
    BY <2>2, <2>3
<1>4. QED
  BY <1>1, <1>3, <1>2

LEMMA UserRefines ==
    ASSUME NEW c \in Users, Inv, Inv', NodeInv,
           Publish(c) \/ Subscribe(c) \/ UserStep(c) \/ \E s \in Subs : Unsubscribe(c, s)
    PROVE  Session!Next \/ UNCHANGED Session!vars
<1>1. /\ UNCHANGED <<fieldVars, nodeState, spinVars, timedOut, halfway, overlapped>>
      /\ \A d \in Clients : Inside(d)' = Inside(d)
      /\ \A d \in Clients : Inside(d) => pc'[d] = pc[d] /\ hand'[d] = hand[d]
  BY UserEffect DEF Inv
<1>2. UNCHANGED <<Mode, Calling>>
  <2>1. \A set \in {Starting, Joining, Quieted} : Within(set)' = Within(set)
    BY <1>1 DEF Within, Clients, Inside, Starting, Stopping, Joining, Quieted
  <2>2. QED
    BY <1>1, <2>1 DEF Mode, Calling
<1>3. subNode \in [Subs -> Ids \cup {None}]
  BY DEF Inv, Simple, TypeOK
<1>4. CASE AddSubscription(c) /\ Usable
  <2>1. PICK s \in Subs : subNode[s] = None /\ subNode' = [subNode EXCEPT ![s] = node]
    BY <1>4 DEF AddSubscription, Fresh
  <2>2. destroyed' = destroyed
    BY <1>4 DEF AddSubscription
  <2>3. Mode # "down"
    BY <1>4 DEF Mode, Usable
  <2>4. Life(s) = "new" /\ \A t \in Subs \ {s} : Life(t)' = Life(t)
    BY <1>1, <1>3, <2>1, <2>2 DEF Life
  <2>5. Life(s)' = "active"
    BY <1>1, <1>3, <1>4, <2>1, <2>2 DEF Life, Usable, NodeInv
  <2>6. Session!Subscribe(s)
    BY <1>2, <2>3, <2>4, <2>5 DEF Session!Subscribe, Lives
  <2>7. QED
    BY <2>6 DEF Session!Next
<1>5. CASE DestroySub(c)
  <2>1. PICK s \in taken[c] : DestroyOnNode(s)
    BY <1>5 DEF DestroySub
  <2>2. s \in Subs /\ subNode' = subNode
    BY <1>5, <2>1 DEF Inv, Simple, TypeOK, Clients, DestroySub
  <2>3. QED
    BY <1>1, <1>2, <2>1, <2>2, SubscriptionEnds
<1>6. CASE ~(AddSubscription(c) /\ Usable) /\ ~DestroySub(c)
  <2>1. UNCHANGED <<subNode, destroyed>>
    BY <1>6 DEF UserStep, Publish, Subscribe, GetPublisher, SendMessage, AddSubscription,
       Raised,
                Unsubscribe
  <2>2. QED
    BY <1>1, <1>2, <2>1, SameLives, SessionStutters
<1>7. QED
  BY <1>4, <1>5, <1>6

(* A callback begins on the thread of a pubsub that is up, or being joined.  *)
LEMMA SpinRefines ==
    ASSUME NEW i \in Ids, Inv, ModeFacts, SpinStep(i)
    PROVE  Session!Next \/ UNCHANGED Session!vars
<1>1. UNCHANGED <<clientVars, fieldVars, tableVars, rclVars, timedOut, halfway, raced, callVars>>
  BY SpinEffect DEF Inv
<1>2. UNCHANGED <<Mode, Lives>>
  BY <1>1 DEF Mode, Within, Lives, Life
<1>3. spin \in [Ids -> Running \cup {"none", "made", "dead"}]
  BY DEF Inv, Simple, TypeOK
<1>4. CASE SpinTest(i) \/ SpinLoad(i) \/ CallbackBegins(i)
  <2>1. UNCHANGED Calling
    BY <1>3, <1>4 DEF SpinTest, SpinLoad, CallbackBegins, Calling
  <2>2. QED
    BY <1>2, <2>1, SessionStutters
<1>5. CASE CallbackEnds(i)
  <2>1. i \in Calling /\ Calling' = Calling \ {i}
    BY <1>3, <1>5 DEF CallbackEnds, Calling
  <2>2. Session!End(i)
    BY <1>2, <2>1 DEF Session!End
  <2>3. QED
    BY <2>2 DEF Session!Next
<1>6. CASE SpinOnce(i) /\ spin' # [spin EXCEPT ![i] = "taken"]
  <2>1. UNCHANGED Calling
    BY <1>3, <1>6 DEF SpinOnce, Calling
  <2>2. QED
    BY <1>2, <2>1, SessionStutters
<1>7. CASE SpinOnce(i) /\ spin' = [spin EXCEPT ![i] = "taken"]
  <2>1. spin[i] = "once" /\ i \notin Calling /\ Calling' = Calling \cup {i}
    BY <1>3, <1>7 DEF SpinOnce, Calling
  <2>2. Session!In("active") # {}
    <3>1. Callable(spinExec[i]) # {}
      BY <1>3, <1>7 DEF SpinOnce
    <3>2. QED
      BY <3>1, LivesAre DEF Callable, Active
  <2>3. Contested => Mode = "contested"
    BY DEF ModeFacts
  <2>4. ASSUME ~Contested
        PROVE  Mode \in {"up", "stopping"} /\ Calling = {}
    <3>1. /\ \A j \in Ids : spin[j] \in Running => j = spinThread
          /\ \A c \in Owners : Phase(c)
      BY <2>4 DEF Inv, Serial, OneThread, Contested, Clients
    <3>2. spinThread = i /\ ~NoneRunning
      BY <2>1, <2>4, <3>1 DEF NoneRunning, Contested, Running
    <3>3. Calling = {}
      BY <2>1, <3>1, <3>2 DEF Calling, Running
    <3>4. \A c \in Owners : Inside(c) => pc[c] \in Joining
      BY <2>4, <3>1, <3>2
         DEF Inside, Starting, Stopping, Joining, Quieted, Dropping, Phase, Stopped
    <3>5. Mode \in {"up", "stopping"}
      BY <2>4, <3>2, <3>4 DEF ModeFacts
    <3>6. QED
      BY <3>3, <3>5
  <2>5. Mode = "contested" \/ (Mode \in {"up", "stopping"} /\ Calling = {})
    BY <2>3, <2>4
  <2>6. Session!Begin(i)
    BY <1>2, <2>1, <2>2, <2>5 DEF Session!Begin
  <2>7. QED
    BY <2>6 DEF Session!Next
<1>8. QED
  BY <1>4, <1>5, <1>6, <1>7 DEF SpinStep

(* RawROS implements PubSubSession: for any threads that start, stop,        *)
(* publish, subscribe and unsubscribe, in any order, callbacks begin and     *)
(* subscriptions end as the session says, and stop() leaves none behind.     *)
THEOREM RosImplementsSession == Spec => ImplementsSession
<1>1. Init => Session!Init
  <2>1. SUFFICES ASSUME Init PROVE Session!Init
    OBVIOUS
  <2>2. Mode = "down"
    BY <2>1 DEF Init, Mode, Within, Clients, Starting, Joining, Quieted
  <2>3. Lives = [s \in Subs |-> "new"] /\ Calling = {}
    BY <2>1 DEF Init, Lives, Life, Calling
  <2>4. QED
    BY <2>2, <2>3 DEF Session!Init
<1>2. /\ Inv /\ Inv' /\ NodeInv /\ ModeFacts /\ ModeFacts' /\ [Next]_vars
      => [Session!Next]_(Session!vars)
  <2>1. SUFFICES ASSUME Inv, Inv', NodeInv, ModeFacts, ModeFacts', [Next]_vars
                 PROVE  Session!Next \/ UNCHANGED Session!vars
    OBVIOUS
  <2>2. CASE UNCHANGED vars
    <3>1. UNCHANGED <<Mode, Lives, Calling>>
      BY <2>2 DEF vars, Mode, Within, Lives, Life, Calling
    <3>2. QED
      BY <3>1, SessionStutters
  <2>3. QED
    BY <2>1, <2>2, OwnerRefines, UserRefines, SpinRefines DEF Next
<1>3. QED
  BY <1>1, <1>2, RosInvariant, NodesInvariant, ModeIs, PTL
     DEF Spec, ImplementsSession, Session!Spec

=============================================================================

---------------------------- MODULE MixinsProofs ----------------------------
(***************************************************************************)
(* Proofs, for any topics, any number of middleware threads and any bound  *)
(* of the queue, of the properties of Mixins.                              *)
(***************************************************************************)
EXTENDS Mixins, TLAPS

(* The inductive form of AnnouncedOnce: the lock has one holder, which has   *)
(* the watcher yet to call; what it found unseen stays unseen; and a topic   *)
(* has been announced exactly when it is in the set.                         *)
LockInv ==
    /\ \A d, e \in lock : d = e
    /\ \A d \in lock : "watch" \in todo[d]
    /\ \A d \in Dispatchers : todo[d] # {} => message[d] \in Topics
    /\ \A d \in Dispatchers : d \in fresh => message[d] \notin seen
    /\ \A t \in Topics : announced[t] = IF t \in seen THEN 1 ELSE 0

(* The inductive form of EndsClean: what is subscribed is in the list or     *)
(* about to be; since the copy, what is about to be was under way then, and  *)
(* the rest of what is subscribed is still in the copy, an unsubscribe that  *)
(* raised included.                                                          *)
Left == {t \in Topics : <<"all", t>> \in bus}

Copied == {"ending", "ended", "raised"}

DiscoveryInv ==
    /\ Left \subseteq subscribed \cup joining
    /\ all \in Copied => reported \cup joining \subseteq late
    /\ all \in Copied => Left \subseteq ending \cup late

USE MixinsAssumption DEF None, Roles, Copied, Reading, busVars, midVars, queueVars, watchVars, allVars

-----------------------------------------------------------------------------
(* A callback that returns or raises takes itself off its dispatcher's list, *)
(* or ends the dispatcher.                                                   *)
LEMMA ReturnStep ==
    ASSUME NEW d \in Dispatchers, NEW r \in Roles,
           message \in [Dispatchers -> Topics \cup {None}],
           todo \in [Dispatchers -> SUBSET Roles], dead \subseteq Dispatchers,
           Return(d, r) \/ Raise(d, r)
    PROVE  /\ message' \in [Dispatchers -> Topics \cup {None}]
           /\ todo' \in [Dispatchers -> SUBSET Roles]
           /\ dead' \subseteq Dispatchers
           /\ \A e \in Dispatchers : todo'[e] \subseteq todo[e]
           /\ \A e \in Dispatchers \ {d} : todo'[e] = todo[e] /\ message'[e] = message[e]
           /\ todo'[d] # {} => message'[d] = message[d]
           /\ d \notin dead' => todo'[d] = todo[d] \ {r}
<1>1. CASE Return(d, r)
  <2>1. /\ todo' = [todo EXCEPT ![d] = todo[d] \ {r}]
        /\ message' = [message EXCEPT ![d] = IF todo[d] = {r} THEN None ELSE message[d]]
        /\ dead' = dead
    BY <1>1 DEF Return
  <2>2. todo[d] \ {r} # {} => todo[d] # {r}
    OBVIOUS
  <2>3. QED
    BY <2>1, <2>2
<1>2. CASE Raise(d, r) /\ ~isolating
  BY <1>2 DEF Raise
<1>3. CASE Raise(d, r) /\ isolating
  BY <1>1, <1>3 DEF Raise
<1>4. QED
  BY <1>1, <1>2, <1>3

(* The types and LockInv hold in every state.                                *)
THEOREM TypeCorrect == Spec => [](TypeOK /\ LockInv)
<1>1. Init => TypeOK /\ LockInv
  BY DEF Init, TypeOK, LockInv
<1>2. TypeOK /\ LockInv /\ [Next]_vars => TypeOK' /\ LockInv'
  <2> SUFFICES ASSUME TypeOK, LockInv, [Next]_vars
               PROVE  TypeOK' /\ LockInv'
    OBVIOUS
  <2>1. ASSUME NEW d \in Dispatchers, NEW t \in Topics, Begin(d, t)
        PROVE  TypeOK' /\ LockInv'
    <3> DEFINE called == {r \in Roles : <<r, t>> \in bus}
    <3>1. called \subseteq Roles /\ called # {}
      BY <2>1 DEF Begin
    <3>2. /\ message[d] = None /\ message' = [message EXCEPT ![d] = t]
          /\ todo' = [todo EXCEPT ![d] = called]
          /\ UNCHANGED <<busVars, dead, queueVars, watchVars, allVars>>
      BY <2>1 DEF Begin
    <3> HIDE DEF called
    <3>3. TypeOK'
      BY <3>1, <3>2 DEF TypeOK
    <3>4. d \notin lock /\ d \notin fresh
      BY <3>2 DEF TypeOK, LockInv
    <3>5. LockInv'
      BY <3>1, <3>2, <3>4 DEF TypeOK, LockInv
    <3>6. QED
      BY <3>3, <3>5
  <2>2. ASSUME NEW d \in Dispatchers, Put(d)
        PROVE  TypeOK' /\ LockInv'
    BY <2>2, ReturnStep DEF Put, MayCall, Full, TypeOK, LockInv
  <2>3. ASSUME NEW d \in Dispatchers, TakeLock(d)
        PROVE  TypeOK' /\ LockInv'
    BY <2>3 DEF TakeLock, MayCall, TypeOK, LockInv
  <2>4. ASSUME NEW d \in Dispatchers, TestSeen(d)
        PROVE  TypeOK' /\ LockInv'
    BY <2>4, ReturnStep DEF TestSeen, TypeOK, LockInv
  <2>5. ASSUME NEW d \in Dispatchers, Announce(d)
        PROVE  TypeOK' /\ LockInv'
    BY <2>5, ReturnStep DEF Announce, TypeOK, LockInv
  <2>6. CASE UseQueue
    BY <2>6 DEF UseQueue, OpenQueue, Get, TestEmpty, AddGetter, LoopTurns, ReaderStep, Leave,
       CloseQueue, TypeOK, LockInv
  <2>7. CASE UseWatch
    BY <2>7 DEF UseWatch, Watch, Unwatch, Watching, TypeOK, LockInv
  <2>8. CASE UseAll
    BY <2>8 DEF UseAll, SubscribeAll, EndDiscovery, Copy, EndAll, TypeOK, LockInv
  <2>9. CASE Discovery
    BY <2>9 DEF Discovery, Report, JoinTopic, AppendTopic, EndTopic, TypeOK, LockInv
  <2>10. CASE UNCHANGED vars
    BY <2>10 DEF vars, TypeOK, LockInv
  <2>11. QED
    BY <2>1, <2>2, <2>3, <2>4, <2>5, <2>6, <2>7, <2>8, <2>9, <2>10 DEF Next, Dispatch
<1>3. QED
  BY <1>1, <1>2, PTL DEF Spec

(* A message leaves the watcher with its topic announced, once, whatever     *)
(* other dispatchers do meanwhile.                                           *)
THEOREM NewTopicsAnnounced == Spec => AnnouncedOnce
<1>1. TypeOK /\ LockInv /\ [Next]_vars
          => [\A d \in Dispatchers \ dead' :
                 "watch" \in todo[d] \ todo'[d] => announced'[message[d]] = 1]_vars
  <2> SUFFICES ASSUME TypeOK, LockInv, Next, NEW d \in Dispatchers \ dead',
                      "watch" \in todo[d] \ todo'[d]
               PROVE  announced'[message[d]] = 1
    OBVIOUS
  <2>1. ASSUME NEW e \in Dispatchers, NEW t \in Topics, Begin(e, t)
        PROVE  FALSE
    <3>1. message[e] = None /\ \A f \in Dispatchers \ {e} : todo'[f] = todo[f]
      BY <2>1 DEF Begin, TypeOK
    <3>2. todo[e] = {}
      BY <3>1 DEF LockInv
    <3>3. QED
      BY <3>1, <3>2
  <2>2. ASSUME NEW e \in Dispatchers, Put(e)
        PROVE  FALSE
    BY <2>2, ReturnStep DEF Put, MayCall, TypeOK, LockInv
  <2>3. ASSUME NEW e \in Dispatchers, TestSeen(e)
        PROVE  announced'[message[d]] = 1
    BY <2>3, ReturnStep DEF TestSeen, TypeOK, LockInv
  <2>4. ASSUME NEW e \in Dispatchers, Announce(e)
        PROVE  announced'[message[d]] = 1
    BY <2>4, ReturnStep DEF Announce, TypeOK, LockInv
  <2>5. ASSUME UNCHANGED todo
        PROVE  FALSE
    BY <2>5
  <2>6. QED
    BY <2>1, <2>2, <2>3, <2>4, <2>5
       DEF Next, Dispatch, TakeLock, UseQueue, OpenQueue, Get, TestEmpty, AddGetter,
           LoopTurns, ReaderStep, Leave, CloseQueue,
           UseWatch, Watch, Unwatch, UseAll, SubscribeAll, EndDiscovery, Copy, EndAll,
           Discovery, Report, JoinTopic, AppendTopic, EndTopic
<1>2. QED
  BY <1>1, TypeCorrect, PTL DEF Spec, AnnouncedOnce

(* Only topics whose discovery was under way when the list was copied are    *)
(* left when unsubscribe_all has returned.                                   *)
THEOREM UnsubscribeAllEndsClean == Spec => []EndsClean
<1>1. Init => DiscoveryInv
  BY DEF Init, DiscoveryInv, Left
<1>2. DiscoveryInv /\ [Next]_vars => DiscoveryInv'
  <2> SUFFICES ASSUME DiscoveryInv, [Next]_vars
               PROVE  DiscoveryInv'
    OBVIOUS
  <2>1. CASE UNCHANGED allVars /\ Left' = Left
    BY <2>1 DEF DiscoveryInv
  <2>2. CASE UseQueue \/ UseWatch
    <3>1. Left' = Left
      BY <2>2 DEF UseQueue, OpenQueue, Get, TestEmpty, AddGetter, LoopTurns, ReaderStep,
         Leave, CloseQueue, UseWatch, Watch, Unwatch,
                  Watching, Left
    <3>2. UNCHANGED allVars
      BY <2>2 DEF UseQueue, OpenQueue, Get, TestEmpty, AddGetter, LoopTurns, ReaderStep,
         Leave, CloseQueue, UseWatch, Watch, Unwatch
    <3>3. QED
      BY <2>1, <3>1, <3>2
  <2>3. CASE UseAll
    BY <2>3 DEF UseAll, SubscribeAll, EndDiscovery, Copy, EndAll, DiscoveryInv, Left
  <2>4. ASSUME NEW t \in Topics, Report(t)
        PROVE  DiscoveryInv'
    BY <2>4 DEF Report, DiscoveryInv, Left
  <2>5. ASSUME NEW t \in Topics, JoinTopic(t)
        PROVE  DiscoveryInv'
    <3>1. CASE UNCHANGED <<bus, joining>>
      <4>1. Left' = Left
        BY <3>1 DEF Left
      <4>2. QED
        BY <2>5, <3>1, <4>1 DEF JoinTopic, DiscoveryInv
    <3>2. CASE joining' = joining \cup {t} /\ bus' = bus \cup {<<"all", t>>}
      <4>1. Left' \subseteq Left \cup {t}
        BY <3>2 DEF Left
      <4>2. QED
        BY <2>5, <3>2, <4>1 DEF JoinTopic, DiscoveryInv
    <3>3. QED
      BY <2>5, <3>1, <3>2 DEF JoinTopic
  <2>6. ASSUME NEW t \in Topics, AppendTopic(t)
        PROVE  DiscoveryInv'
    BY <2>6 DEF AppendTopic, DiscoveryInv, Left
  <2>7. ASSUME NEW t \in Topics, EndTopic(t)
        PROVE  DiscoveryInv'
    <3>1. CASE all' = "raised"
      <4>1. Left' \subseteq Left
        BY <2>7, <3>1 DEF EndTopic, Left
      <4>2. QED
        BY <2>7, <3>1, <4>1 DEF EndTopic, DiscoveryInv
    <3>2. CASE UNCHANGED all
      <4>1. Left' = Left \ {t}
        BY <2>7, <3>2 DEF EndTopic, Left
      <4>2. QED
        BY <2>7, <3>2, <4>1 DEF EndTopic, DiscoveryInv
    <3>3. QED
      BY <2>7, <3>1, <3>2 DEF EndTopic
  <2>8. QED
    BY <2>1, <2>2, <2>3, <2>4, <2>5, <2>6, <2>7
       DEF Next, Begin, Dispatch, Put, TakeLock, TestSeen, Announce, Discovery, vars, Left
<1>3. DiscoveryInv => EndsClean
  BY DEF DiscoveryInv, EndsClean, Left
<1>4. QED
  BY <1>1, <1>2, <1>3, PTL DEF Spec

(* A message that was put and not read is one that was put between the      *)
(* reader's test and its getter.                                            *)
FedInv == reader \in {"tested", "waiting"} => queued = missed

THEOREM WaitingReaderFed == Spec => []ReaderFed
<1>1. Init => FedInv
  BY DEF Init, FedInv
<1>2. TypeOK /\ FedInv /\ [Next]_vars => FedInv'
  <2> SUFFICES ASSUME TypeOK, FedInv, [Next]_vars
               PROVE  FedInv'
    OBVIOUS
  <2>1. CASE UNCHANGED queueVars
    BY <2>1 DEF FedInv
  <2>2. ASSUME NEW d \in Dispatchers, Put(d)
        PROVE  FedInv'
    BY <2>1, <2>2 DEF Put, MayCall, Full, FedInv, TypeOK
  <2>3. CASE UseQueue
    BY <2>3 DEF UseQueue, OpenQueue, Get, TestEmpty, AddGetter, LoopTurns, ReaderStep,
       Leave, CloseQueue, FedInv
  <2>4. QED
    BY <2>1, <2>2, <2>3
       DEF Next, Begin, Dispatch, TakeLock, TestSeen, Announce, UseWatch, Watch, Unwatch,
           UseAll, SubscribeAll, EndDiscovery, Copy, EndAll, Discovery, Report, JoinTopic,
           AppendTopic, EndTopic, vars
<1>3. FedInv => ReaderFed
  BY DEF FedInv, ReaderFed
<1>4. QED
  BY <1>1, <1>2, <1>3, TypeCorrect, PTL DEF Spec
=============================================================================

-------------------------- MODULE TransportsProofs --------------------------
(***************************************************************************)
(* Proofs, for any set of threads and any number of DimosROS objects, of   *)
(* the invariants of Transports.                                           *)
(***************************************************************************)
EXTENDS Transports, TLAPS

(* What the two history variables say of the present: calls that are inside  *)
(* a start or a stop with others, and any call beside one, are recorded.     *)
WitnessInv ==
    /\ \A c, d \in Threads : pc[c] \in Changing /\ pc[d] \in Changing /\ c # d => overlapped
    /\ \A c, d \in Threads :
          pc[c] # "idle" /\ pc[d] \in Changing /\ c # d => c \in contested

(* A pubsub is up, or a transport may be wrong about it because a start or   *)
(* stop raised.                                                              *)
Up(i)     == pubsub[i] = "up"
Served(i) == Up(i) \/ i \in Troubled

(* The flag of an LCM or shared-memory transport is true between start and   *)
(* stop calls that did not overlap; a call that was not contested found or   *)
(* made the pubsub up.                                                       *)
BaseLocations == {"idle", "test", "startBackend", "setFlag", "stopBackend", "clearFlag",
                  "use", "deliver", "failed"}

BaseInv ==
    /\ \A c \in Threads : pc[c] \in BaseLocations
    /\ \A i \in Pubsubs : i # 1 => pubsub[i] = "none"
    /\ \A c \in Threads : pc[c] = "deliver" => hand[c] = 1
    /\ ~overlapped =>
          /\ \A c \in Threads : pc[c] = "setFlag" => Up(1)
          /\ \A c \in Threads : pc[c] = "clearFlag" => ~Up(1)
          /\ (\A c \in Threads : pc[c] \notin {"setFlag", "clearFlag"}) =>
                (Up(1) => started) /\ (started => Served(1))
          /\ \A c \in Threads : pc[c] \in {"use", "deliver"} /\ c \notin contested => Served(1)

(* A ROSTransport: what _ros refers to is up, or somebody is about to start  *)
(* or to drop it, or a start or stop of it raised.  A call that was not      *)
(* contested keeps what it tested and finds what it uses up.  While no starts *)
(* and stops overlapped, the one thread that starts or stops knows what is up. *)
RosLocations == {"idle", "test", "startTest", "create", "loadStart", "startRos", "assert",
                 "use", "loadStop", "stopRos", "dropRos", "deliver", "raised", "failed"}

NoneUp == \A i \in Pubsubs : ~Up(i)
RosUp  == (\A i \in Pubsubs : Up(i) => i = ros) /\ (ros # None => Served(ros))

RosServed ==
    ros # None => \/ Served(ros)
                  \/ \E c \in Threads : \/ pc[c] \in {"loadStart", "dropRos"}
                                        \/ pc[c] = "startRos" /\ hand[c] = ros

RosKept ==
    \A c \in Threads :
        \/ c \in contested
        \/ /\ pc[c] \in {"use", "assert", "loadStart", "loadStop", "startRos"} => ros # None
           /\ pc[c] = "deliver" => Served(hand[c])
           /\ pc[c] = "raised" => hand[c] \in Troubled

RosSerial ==
    /\ \A c \in Threads :
          /\ pc[c] = "create" => ros = None /\ NoneUp
          /\ pc[c] \in {"loadStart", "startRos", "dropRos"} => NoneUp
          /\ pc[c] \in {"loadStop", "stopRos"} => RosUp
          /\ pc[c] \in {"startRos", "stopRos"} => hand[c] = ros
    /\ (\A c \in Threads : pc[c] \notin Changing) => RosUp

RosInv ==
    /\ \A c \in Threads : pc[c] \in RosLocations
    /\ RosServed
    /\ RosKept
    /\ ~overlapped => RosSerial

(* A DDSTransport: whoever is past the lock holds it, once or twice; the     *)
(* flag is true except between a start or stop and its assignment.           *)
DdsLocations == {"idle", "acquire", "test", "reacquire", "startDds", "markStarted",
                 "leaveStart", "use", "deliver", "stopDds", "markStopped", "release",
                 "failed"}
Twice(c)     == call[c] \in Uses /\ pc[c] \in {"startDds", "markStarted", "leaveStart"}

DdsInv ==
    /\ \A c \in Threads : pc[c] \in DdsLocations
    /\ \A c \in Threads : pc[c] \notin {"idle", "acquire"} =>
          holder = {c} /\ (pc[c] # "failed" => depth = IF Twice(c) THEN 2 ELSE 1)
    /\ \A c \in Threads : pc[c] = "failed" => depth \in 1 .. 2
    /\ \A c \in Threads :
          /\ pc[c] = "reacquire" => ~started
          /\ pc[c] = "deliver" => hand[c] = 1
          /\ pc[c] \in {"reacquire", "leaveStart", "use", "deliver"} => call[c] \in Uses
          /\ pc[c] \in {"markStarted", "leaveStart"} => Up(1)
          /\ pc[c] \in {"use", "deliver"} => Served(1)
          /\ pc[c] = "markStopped" => ~Up(1)
    /\ \A i \in Pubsubs : i # 1 => pubsub[i] = "none"
    /\ (\A c \in Threads : pc[c] \notin {"markStarted", "markStopped"}) =>
          (Up(1) => started) /\ (started => Served(1))

USE TransportsAssumption DEF Pubsubs, None, Kinds, Uses, Calls

-----------------------------------------------------------------------------
LEMMA WitnessStep ==
    ASSUME Witness
    PROVE  /\ WitnessInv'
           /\ contested' \subseteq Threads
           /\ overlapped' \in BOOLEAN
           /\ overlapped => overlapped'
           /\ \A c \in contested \cap Threads : pc'[c] # "idle" => c \in contested'
BY DEF Witness, WitnessInv

LEMMA GotoStep ==
    ASSUME NEW c \in Threads, NEW from, NEW to \in Locations,
           pc \in [Threads -> Locations], Goto(c, from, to)
    PROVE  /\ pc' \in [Threads -> Locations]
           /\ pc[c] = from /\ pc'[c] = to
           /\ \A d \in Threads \ {c} : pc'[d] = pc[d]
BY DEF Goto

LEMMA RememberStep ==
    ASSUME NEW c \in Threads, call \in [Threads -> Calls], Remember(c)
    PROVE  /\ call' \in [Threads -> Calls]
           /\ \A d \in Threads : pc'[d] # "idle" => call'[d] = call[d]
BY DEF Remember

OnlyTouches(i) ==
    /\ pubsub' \in [Pubsubs -> {"none", "made", "up", "down"}]
    /\ unstarted' \subseteq Pubsubs /\ unstopped' \subseteq Pubsubs
    /\ \A j \in Pubsubs \ {i} : pubsub'[j] = pubsub[j]
    /\ \A j \in Pubsubs \ {i} : j \in unstarted' <=> j \in unstarted
    /\ \A j \in Pubsubs \ {i} : j \in unstopped' <=> j \in unstopped

(* What an operation on a pubsub leaves, whether it returns or raises.       *)
Completed(i, s) ==
    OnlyTouches(i) /\ pubsub'[i] = s /\ i \notin unstarted' /\ i \notin unstopped'

StartMissed(i) ==
    /\ OnlyTouches(i) /\ pubsub'[i] = pubsub[i] /\ i \in unstarted'
    /\ i \in unstopped' <=> i \in unstopped

StopMissed(i) ==
    /\ OnlyTouches(i) /\ pubsub'[i] \in {pubsub[i], "down"} /\ i \in unstopped'
    /\ i \in unstarted' <=> i \in unstarted

LEMMA BecomeStep ==
    ASSUME NEW i \in Pubsubs, NEW s \in {"made", "up", "down", "none"}, TypeOK, Become(i, s)
    PROVE  Completed(i, s)
<1> HIDE DEF Pubsubs
<1>1. /\ pubsub \in [Pubsubs -> {"none", "made", "up", "down"}]
      /\ unstarted \subseteq Pubsubs /\ unstopped \subseteq Pubsubs
  BY DEF TypeOK
<1>2. /\ pubsub' \in [Pubsubs -> {"none", "made", "up", "down"}]
      /\ \A j \in Pubsubs \ {i} : pubsub'[j] = pubsub[j]
      /\ pubsub'[i] = s
  BY <1>1 DEF Become
<1>3. /\ unstarted' \subseteq Pubsubs
      /\ \A j \in Pubsubs \ {i} : j \in unstarted' <=> j \in unstarted
      /\ i \notin unstarted'
  BY <1>1 DEF Become
<1>4. /\ unstopped' \subseteq Pubsubs
      /\ \A j \in Pubsubs \ {i} : j \in unstopped' <=> j \in unstopped
      /\ i \notin unstopped'
  BY <1>1 DEF Become
<1>5. QED
  BY <1>2, <1>3, <1>4 DEF OnlyTouches, Completed, StartMissed, StopMissed

LEMMA StartRaisesStep ==
    ASSUME NEW i \in Pubsubs, TypeOK, StartRaises(i)
    PROVE  StartMissed(i)
<1> HIDE DEF Pubsubs
<1>1. /\ pubsub \in [Pubsubs -> {"none", "made", "up", "down"}]
      /\ unstarted \subseteq Pubsubs /\ unstopped \subseteq Pubsubs
  BY DEF TypeOK
<1>2. /\ pubsub' \in [Pubsubs -> {"none", "made", "up", "down"}]
      /\ \A j \in Pubsubs \ {i} : pubsub'[j] = pubsub[j]
      /\ pubsub'[i] = pubsub[i]
  BY <1>1 DEF StartRaises
<1>3. /\ unstarted' \subseteq Pubsubs
      /\ \A j \in Pubsubs \ {i} : j \in unstarted' <=> j \in unstarted
      /\ i \in unstarted'
  BY <1>1 DEF StartRaises
<1>4. /\ unstopped' \subseteq Pubsubs
      /\ \A j \in Pubsubs \ {i} : j \in unstopped' <=> j \in unstopped
      /\ i \in unstopped' <=> i \in unstopped
  BY <1>1 DEF StartRaises
<1>5. QED
  BY <1>2, <1>3, <1>4 DEF OnlyTouches, Completed, StartMissed, StopMissed

LEMMA StopRaisesStep ==
    ASSUME NEW i \in Pubsubs, TypeOK, StopRaises(i)
    PROVE  StopMissed(i)
<1> HIDE DEF Pubsubs
<1>1. /\ pubsub \in [Pubsubs -> {"none", "made", "up", "down"}]
      /\ unstarted \subseteq Pubsubs /\ unstopped \subseteq Pubsubs
  BY DEF TypeOK
<1>2. /\ pubsub' \in [Pubsubs -> {"none", "made", "up", "down"}]
      /\ \A j \in Pubsubs \ {i} : pubsub'[j] = pubsub[j]
      /\ pubsub'[i] \in {pubsub[i], "down"}
  BY <1>1 DEF StopRaises
<1>3. /\ unstarted' \subseteq Pubsubs
      /\ \A j \in Pubsubs \ {i} : j \in unstarted' <=> j \in unstarted
      /\ i \in unstarted' <=> i \in unstarted
  BY <1>1 DEF StopRaises
<1>4. /\ unstopped' \subseteq Pubsubs
      /\ \A j \in Pubsubs \ {i} : j \in unstopped' <=> j \in unstopped
      /\ i \in unstopped'
  BY <1>1 DEF StopRaises
<1>5. QED
  BY <1>2, <1>3, <1>4 DEF OnlyTouches, Completed, StartMissed, StopMissed

LEMMA BaseStepKeeps ==
    ASSUME NEW c \in Threads, TypeOK, WitnessInv, BaseInv, kind = "base", kind' = kind,
           (Step(c) /\ Remember(c)) \/ \E m \in Calls : Begin(c, m), Witness
    PROVE  TypeOK' /\ BaseInv'
<1>u. ASSUME NEW i \in Pubsubs, NEW s \in {"made", "up", "down", "none"}, Become(i, s)
      PROVE  Completed(i, s)
  BY <1>u, BecomeStep
<1>s. ASSUME NEW i \in Pubsubs, StartRaises(i)
      PROVE  StartMissed(i)
  BY <1>s, StartRaisesStep
<1>t. ASSUME NEW i \in Pubsubs, StopRaises(i)
      PROVE  StopMissed(i)
  BY <1>t, StopRaisesStep
<1> USE DEF Locations, Changing
<1>0. /\ WitnessInv' /\ contested' \subseteq Threads /\ overlapped' \in BOOLEAN
      /\ overlapped => overlapped'
      /\ \A d \in contested : d \in Threads /\ (pc'[d] # "idle" => d \in contested')
  BY WitnessStep DEF TypeOK
<1>r. ASSUME Remember(c)
      PROVE  /\ call' \in [Threads -> Calls]
             /\ \A d \in Threads : pc'[d] # "idle" => call'[d] = call[d]
  BY <1>r, RememberStep DEF TypeOK
<1>1. ASSUME NEW m \in Calls, Begin(c, m)
      PROVE  TypeOK' /\ BaseInv'
  BY <1>0, <1>1 DEF Begin, Goto, TypeOK, BaseInv, BaseLocations, Up, Served, Troubled, pubsubs
<1>2. CASE EnsureStarted(c) /\ Remember(c)
  BY <1>0, <1>r, <1>2
     DEF EnsureStarted, Goto, TypeOK, BaseInv, BaseLocations, Up, Served, Troubled, pubsubs,
         WitnessInv
<1>3. CASE StartBackend(c) /\ Remember(c)
  <2>1. CASE Goto(c, "startBackend", "setFlag") /\ Become(1, "up")
    <3>1. Completed(1, "up")
      BY <2>1, <1>u
    <3>2. TypeOK'
      BY <1>0, <1>r, <1>3, <2>1, <3>1
         DEF StartBackend, Goto, TypeOK, OnlyTouches, Completed, StartMissed, StopMissed
    <3>3. BaseInv'
      BY <1>0, <1>3, <2>1, <3>1
         DEF StartBackend, Goto, TypeOK, OnlyTouches, Completed, StartMissed, StopMissed,
             BaseInv, BaseLocations, Up, Served,
             Troubled, WitnessInv
    <3>4. QED
      BY <3>2, <3>3
  <2>2. CASE Goto(c, "startBackend", "failed") /\ StartRaises(1)
    <3>1. StartMissed(1)
      BY <2>2, <1>s
    <3>2. TypeOK'
      BY <1>0, <1>r, <1>3, <2>2, <3>1
         DEF StartBackend, Goto, TypeOK, OnlyTouches, Completed, StartMissed, StopMissed
    <3>3. BaseInv'
      BY <1>0, <1>3, <2>2, <3>1
         DEF StartBackend, Goto, TypeOK, OnlyTouches, Completed, StartMissed, StopMissed,
             BaseInv, BaseLocations, Up, Served,
             Troubled, WitnessInv
    <3>4. QED
      BY <3>2, <3>3
  <2>3. QED
    BY <1>3, <2>1, <2>2 DEF StartBackend
<1>4. CASE SetFlag(c) /\ Remember(c)
  BY <1>0, <1>r, <1>4
     DEF SetFlag, Started, Goto, TypeOK, BaseInv, BaseLocations, Up, Served, Troubled,
         pubsubs, WitnessInv
<1>5. CASE StopBackend(c) /\ Remember(c)
  <2>1. CASE Goto(c, "stopBackend", "clearFlag") /\ Become(1, "down")
    <3>1. Completed(1, "down")
      BY <2>1, <1>u
    <3>2. TypeOK'
      BY <1>0, <1>r, <1>5, <2>1, <3>1
         DEF StopBackend, Goto, TypeOK, OnlyTouches, Completed, StartMissed, StopMissed
    <3>3. BaseInv'
      BY <1>0, <1>5, <2>1, <3>1
         DEF StopBackend, Goto, TypeOK, OnlyTouches, Completed, StartMissed, StopMissed,
             BaseInv, BaseLocations, Up, Served,
             Troubled, WitnessInv
    <3>4. QED
      BY <3>2, <3>3
  <2>2. CASE Goto(c, "stopBackend", "failed") /\ StopRaises(1)
    <3>1. StopMissed(1)
      BY <2>2, <1>t
    <3>2. TypeOK'
      BY <1>0, <1>r, <1>5, <2>2, <3>1
         DEF StopBackend, Goto, TypeOK, OnlyTouches, Completed, StartMissed, StopMissed
    <3>3. BaseInv'
      BY <1>0, <1>5, <2>2, <3>1
         DEF StopBackend, Goto, TypeOK, OnlyTouches, Completed, StartMissed, StopMissed,
             BaseInv, BaseLocations, Up, Served,
             Troubled, WitnessInv
    <3>4. QED
      BY <3>2, <3>3
  <2>3. QED
    BY <1>5, <2>1, <2>2 DEF StopBackend
<1>6. CASE ClearFlag(c) /\ Remember(c)
  <2>1. TypeOK'
    BY <1>0, <1>r, <1>6 DEF ClearFlag, Goto, TypeOK, pubsubs
  <2>2. BaseInv'
    BY <1>0, <1>6 DEF ClearFlag, Goto, TypeOK, BaseInv, BaseLocations, Up, Served, Troubled,
       pubsubs, WitnessInv
  <2>3. QED
    BY <2>1, <2>2
<1>7. CASE UseBackend(c) /\ Remember(c)
  BY <1>0, <1>r, <1>7
     DEF UseBackend, Load, Goto, TypeOK, BaseInv, BaseLocations, Up, Served, Troubled,
         pubsubs, WitnessInv
<1>8. CASE Deliver(c) /\ Remember(c)
  BY <1>0, <1>r, <1>8
     DEF Deliver, Refused, Load, Goto, TypeOK, BaseInv, BaseLocations, Up, Served, Troubled,
         pubsubs, WitnessInv
<1>f. CASE Failed(c) /\ Remember(c)
  BY <1>0, <1>r, <1>f
     DEF Failed, Goto, TypeOK, BaseInv, BaseLocations, Up, Served, Troubled, pubsubs, WitnessInv
<1>9. ~RosStep(c) /\ ~DdsStep(c) /\ ~Raised(c)
  BY DEF RosStep, RosTest, RosStartTest, RosCreate, RosStart, RosAssert, RosLoad, RosStop,
         RosDrop, DdsStep, DdsAcquire, DdsTest, DdsReacquire, DdsStart, DdsStop, DdsMark,
         DdsRelease, Raised, Goto, BaseInv, BaseLocations
<1>10. QED
  BY <1>1, <1>2, <1>3, <1>4, <1>5, <1>6, <1>7, <1>8, <1>9, <1>f DEF Step, BaseStep

LEMMA RosStepKeeps ==
    ASSUME NEW c \in Threads, TypeOK, WitnessInv, RosInv, kind = "ros", kind' = kind,
           (Step(c) /\ Remember(c)) \/ \E m \in Calls : Begin(c, m), Witness
    PROVE  TypeOK' /\ RosInv'
<1>u. ASSUME NEW i \in Pubsubs, NEW s \in {"made", "up", "down", "none"}, Become(i, s)
      PROVE  Completed(i, s)
  BY <1>u, BecomeStep
<1>s. ASSUME NEW i \in Pubsubs, StartRaises(i)
      PROVE  StartMissed(i)
  BY <1>s, StartRaisesStep
<1>t. ASSUME NEW i \in Pubsubs, StopRaises(i)
      PROVE  StopMissed(i)
  BY <1>t, StopRaisesStep
<1> USE DEF Locations, Changing
<1>0. /\ WitnessInv' /\ contested' \subseteq Threads /\ overlapped' \in BOOLEAN
      /\ overlapped => overlapped'
      /\ \A d \in contested : d \in Threads /\ (pc'[d] # "idle" => d \in contested')
  BY WitnessStep DEF TypeOK
<1> USE DEF RosInv, RosLocations, RosServed, RosKept, RosSerial, NoneUp, RosUp, Up, Served,
            Troubled, pubsubs, Goto, TypeOK, WitnessInv
<1>r. ASSUME Remember(c)
      PROVE  /\ call' \in [Threads -> Calls]
             /\ \A d \in Threads : pc'[d] # "idle" => call'[d] = call[d]
  BY <1>r, RememberStep DEF TypeOK
<1>1. ASSUME NEW m \in Calls, Begin(c, m)
      PROVE  TypeOK' /\ RosInv'
  BY <1>0, <1>1 DEF Begin
<1>2. CASE RosTest(c) /\ Remember(c)
  BY <1>0, <1>r, <1>2 DEF RosTest
<1>3. CASE RosStartTest(c) /\ Remember(c)
  BY <1>0, <1>r, <1>3 DEF RosStartTest, RosStarted
<1>4. CASE RosCreate(c) /\ Remember(c)
  <2>1. CASE Goto(c, "create", "failed") /\ UNCHANGED <<ros, pubsubs>>
    BY <1>0, <1>r, <1>4, <2>1 DEF RosCreate
  <2>2. ASSUME NEW i \in Pubsubs, Goto(c, "create", "loadStart"), ros' = i, Become(i, "made")
        PROVE  TypeOK' /\ RosInv'
    <3>0. Completed(i, "made")
      BY <2>2, <1>u
    <3>1. TypeOK'
      BY <1>0, <1>r, <1>4, <2>2, <3>0
         DEF RosCreate, OnlyTouches, Completed, StartMissed, StopMissed
    <3>2. RosInv'
      BY <1>0, <1>4, <2>2, <3>0 DEF RosCreate, OnlyTouches, Completed, StartMissed, StopMissed
    <3>3. QED
      BY <3>1, <3>2
  <2>3. QED
    BY <1>4, <2>1, <2>2 DEF RosCreate
<1>5. CASE RosLoad(c, "loadStart", "startRos") /\ Remember(c)
  BY <1>0, <1>r, <1>5 DEF RosLoad, Load
<1>6. CASE RosLoad(c, "loadStop", "stopRos") /\ Remember(c)
  BY <1>0, <1>r, <1>6 DEF RosLoad, Load
<1>7. CASE RosLoad(c, "use", "deliver") /\ Remember(c)
  BY <1>0, <1>r, <1>7 DEF RosLoad, Load
<1>8. CASE RosStart(c) /\ Remember(c)
  <2>0. hand[c] \in Pubsubs
    BY <1>8 DEF RosStart
  <2>1. CASE Goto(c, "startRos", RosStarted(c)) /\ Become(hand[c], "up")
    <3>0. Completed(hand[c], "up")
      BY <2>0, <2>1, <1>u
    <3>1. TypeOK'
      BY <1>0, <1>r, <1>8, <2>0, <2>1, <3>0
         DEF RosStart, RosStarted, Load, OnlyTouches, Completed, StartMissed, StopMissed
    <3>2. RosInv'
      BY <1>0, <1>8, <2>0, <2>1, <3>0
         DEF RosStart, RosStarted, Load, OnlyTouches, Completed, StartMissed, StopMissed
    <3>3. QED
      BY <3>1, <3>2
  <2>2. CASE Goto(c, "startRos", "failed") /\ StartRaises(hand[c])
    <3>0. StartMissed(hand[c])
      BY <2>0, <2>2, <1>s
    <3>1. TypeOK'
      BY <1>0, <1>r, <1>8, <2>0, <2>2, <3>0
         DEF RosStart, Load, OnlyTouches, Completed, StartMissed, StopMissed
    <3>2. RosInv'
      BY <1>0, <1>8, <2>0, <2>2, <3>0
         DEF RosStart, Load, OnlyTouches, Completed, StartMissed, StopMissed
    <3>3. QED
      BY <3>1, <3>2
  <2>3. QED
    BY <1>8, <2>1, <2>2 DEF RosStart
<1>9. CASE RosAssert(c) /\ Remember(c)
  BY <1>0, <1>r, <1>9 DEF RosAssert
<1>10. CASE RosStop(c) /\ Remember(c)
  <2>0. hand[c] \in Pubsubs
    BY <1>10 DEF RosStop
  <2>1. ASSUME NEW s \in {"made", "up", "down", "none"}, s # "up",
               Goto(c, "stopRos", "dropRos"), Become(hand[c], s)
        PROVE  TypeOK' /\ RosInv'
    <3>0. Completed(hand[c], s)
      BY <2>0, <2>1, <1>u
    <3>1. TypeOK'
      BY <1>0, <1>r, <1>10, <2>0, <2>1, <3>0
         DEF RosStop, Load, OnlyTouches, Completed, StartMissed, StopMissed
    <3>2. RosInv'
      BY <1>0, <1>10, <2>0, <2>1, <3>0
         DEF RosStop, Load, OnlyTouches, Completed, StartMissed, StopMissed
    <3>3. QED
      BY <3>1, <3>2
  <2>2. CASE Goto(c, "stopRos", "failed") /\ StopRaises(hand[c])
    <3>0. StopMissed(hand[c])
      BY <2>0, <2>2, <1>t
    <3>1. TypeOK'
      BY <1>0, <1>r, <1>10, <2>0, <2>2, <3>0
         DEF RosStop, Load, OnlyTouches, Completed, StartMissed, StopMissed
    <3>2. RosInv'
      BY <1>0, <1>10, <2>0, <2>2, <3>0
         DEF RosStop, Load, OnlyTouches, Completed, StartMissed, StopMissed
    <3>3. QED
      BY <3>1, <3>2
  <2>3. CASE Goto(c, "stopRos", "dropRos") /\ pubsub[hand[c]] = "up" /\ Become(hand[c], "down")
    BY <2>1, <2>3
  <2>4. CASE /\ Goto(c, "stopRos", "dropRos") /\ pubsub[hand[c]] # "up"
             /\ Become(hand[c], pubsub[hand[c]])
    BY <2>0, <2>1, <2>4
  <2>5. QED
    BY <1>10, <2>2, <2>3, <2>4 DEF RosStop
<1>11. CASE RosDrop(c) /\ Remember(c)
  BY <1>0, <1>r, <1>11 DEF RosDrop
<1>12. CASE Deliver(c) /\ Remember(c)
  <2>1. TypeOK'
    <3>1. \/ pc' = [pc EXCEPT ![c] = "raised"] /\ hand' = hand
          \/ \E to \in {"idle", "failed"} : pc' = [pc EXCEPT ![c] = to] /\ Load(c, None)
      BY <1>12 DEF Deliver
    <3>2. QED
      BY <1>0, <1>r, <1>12, <3>1 DEF Deliver, Load
  <2>2. RosInv'
    BY <1>0, <1>12 DEF Deliver, Refused, Load
  <2>3. QED
    BY <2>1, <2>2
<1>13. CASE Raised(c) /\ Remember(c)
  BY <1>0, <1>r, <1>13 DEF Raised, Load
<1>f. CASE Failed(c) /\ Remember(c)
  BY <1>0, <1>r, <1>f DEF Failed
<1>14. ~BaseStep(c) /\ ~DdsStep(c) /\ ~UseBackend(c)
  BY DEF BaseStep, EnsureStarted, StartBackend, SetFlag, StopBackend, ClearFlag, UseBackend,
         DdsStep, DdsAcquire, DdsTest, DdsReacquire, DdsStart, DdsStop, DdsMark, DdsRelease
<1>15. QED
  BY <1>1, <1>2, <1>3, <1>4, <1>5, <1>6, <1>7, <1>8, <1>9, <1>10, <1>11, <1>12, <1>13, <1>14,
     <1>f
     DEF Step, RosStep

LEMMA DdsStepKeeps ==
    ASSUME NEW c \in Threads, TypeOK, WitnessInv, DdsInv, kind = "dds", kind' = kind,
           (Step(c) /\ Remember(c)) \/ \E m \in Calls : Begin(c, m), Witness
    PROVE  TypeOK' /\ DdsInv'
<1>u. ASSUME NEW i \in Pubsubs, NEW s \in {"made", "up", "down", "none"}, Become(i, s)
      PROVE  Completed(i, s)
  BY <1>u, BecomeStep
<1>s. ASSUME NEW i \in Pubsubs, StartRaises(i)
      PROVE  StartMissed(i)
  BY <1>s, StartRaisesStep
<1>t. ASSUME NEW i \in Pubsubs, StopRaises(i)
      PROVE  StopMissed(i)
  BY <1>t, StopRaisesStep
<1> USE DEF Locations, Changing
<1>0. contested' \subseteq Threads /\ overlapped' \in BOOLEAN
  BY WitnessStep
<1>a. pc[c] \notin {"idle", "acquire"} =>
          holder = {c} /\ \A d \in Threads \ {c} : pc[d] \in {"idle", "acquire"}
  BY DEF DdsInv, TypeOK
<1>b. /\ pc[c] = "reacquire" => depth = 1
      /\ pc[c] \in {"leaveStart", "release"} => depth \in 1 .. 2
  BY DEF DdsInv, Twice
<1>r. ASSUME Remember(c)
      PROVE  /\ call' \in [Threads -> Calls]
             /\ \A d \in Threads : pc'[d] # "idle" => call'[d] = call[d]
  BY <1>r, RememberStep DEF TypeOK
<1>1. ASSUME NEW m \in Calls, Begin(c, m)
      PROVE  TypeOK' /\ DdsInv'
  <2>1. TypeOK'
    BY <1>0, <1>1 DEF Begin, Goto, TypeOK, pubsubs
  <2>2. DdsInv'
    BY <1>1 DEF Begin, Goto, TypeOK, DdsInv, DdsLocations, Twice, Up, Served, Troubled, pubsubs
  <2>3. QED
    BY <2>1, <2>2
<1>2. CASE DdsAcquire(c) /\ Remember(c)
  <2>1. TypeOK'
    BY <1>0, <1>r, <1>2 DEF DdsAcquire, Goto, TypeOK, pubsubs
  <2>2. DdsInv'
    BY <1>a, <1>r, <1>2
       DEF DdsAcquire, Goto, TypeOK, DdsInv, DdsLocations, Twice, Up, Served, Troubled, pubsubs
  <2>3. QED
    BY <2>1, <2>2
<1>3. CASE DdsTest(c) /\ Remember(c)
  <2>1. TypeOK'
    BY <1>0, <1>r, <1>3 DEF DdsTest, Goto, TypeOK, pubsubs
  <2>2. DdsInv'
    BY <1>a, <1>r, <1>3
       DEF DdsTest, Goto, TypeOK, DdsInv, DdsLocations, Twice, Up, Served, Troubled, pubsubs
  <2>3. QED
    BY <2>1, <2>2
<1>4. CASE DdsReacquire(c) /\ Remember(c)
  <2>1. TypeOK'
    BY <1>0, <1>b, <1>r, <1>4 DEF DdsReacquire, Goto, TypeOK, pubsubs
  <2>2. DdsInv'
    BY <1>a, <1>r, <1>4
       DEF DdsReacquire, Goto, TypeOK, DdsInv, DdsLocations, Twice, Up, Served, Troubled,
           pubsubs
  <2>3. QED
    BY <2>1, <2>2
<1>5. CASE DdsStart(c) /\ Remember(c)
  <2>1. TypeOK'
    <3>1. OnlyTouches(1)
      BY <1>5, <1>u, <1>s DEF DdsStart, Completed, StartMissed
    <3>2. QED
      BY <1>0, <1>r, <1>5, <3>1
         DEF DdsStart, Goto, TypeOK, OnlyTouches, Completed, StartMissed, StopMissed
  <2>2. DdsInv'
    BY <1>a, <1>r, <1>5
       DEF DdsStart, Become, StartRaises, StopRaises, Goto, TypeOK, DdsInv, DdsLocations,
           Twice, Up, Served, Troubled, pubsubs
  <2>3. QED
    BY <2>1, <2>2
<1>6. CASE DdsStop(c) /\ Remember(c)
  <2>1. TypeOK'
    <3>1. OnlyTouches(1)
      BY <1>6, <1>u, <1>t DEF DdsStop, Completed, StopMissed
    <3>2. QED
      BY <1>0, <1>r, <1>6, <3>1
         DEF DdsStop, Goto, TypeOK, OnlyTouches, Completed, StartMissed, StopMissed
  <2>2. DdsInv'
    BY <1>a, <1>r, <1>6
       DEF DdsStop, Become, StartRaises, StopRaises, Goto, TypeOK, DdsInv, DdsLocations,
           Twice, Up, Served, Troubled, pubsubs
  <2>3. QED
    BY <2>1, <2>2
<1>7. CASE DdsMark(c) /\ Remember(c)
  <2>1. TypeOK'
    BY <1>0, <1>r, <1>7 DEF DdsMark, Goto, TypeOK, pubsubs
  <2>2. DdsInv'
    BY <1>a, <1>r, <1>7
       DEF DdsMark, Goto, TypeOK, DdsInv, DdsLocations, Twice, Up, Served, Troubled, pubsubs
  <2>3. QED
    BY <2>1, <2>2
<1>8. CASE DdsRelease(c) /\ Remember(c)
  <2>1. TypeOK'
    BY <1>0, <1>b, <1>r, <1>8 DEF DdsRelease, Goto, TypeOK, pubsubs
  <2>2. DdsInv'
    BY <1>a, <1>r, <1>8
       DEF DdsRelease, Goto, TypeOK, DdsInv, DdsLocations, Twice, Up, Served, Troubled, pubsubs
  <2>3. QED
    BY <2>1, <2>2
<1>9. CASE UseBackend(c) /\ Remember(c)
  <2>1. TypeOK'
    BY <1>0, <1>r, <1>9 DEF UseBackend, Load, Goto, TypeOK, pubsubs
  <2>2. DdsInv'
    BY <1>a, <1>r, <1>9
       DEF UseBackend, Load, Goto, TypeOK, DdsInv, DdsLocations, Twice, Up, Served, Troubled,
           pubsubs
  <2>3. QED
    BY <2>1, <2>2
<1>10. CASE Deliver(c) /\ Remember(c)
  <2>1. TypeOK'
    BY <1>0, <1>r, <1>10 DEF Deliver, Refused, Load, Goto, TypeOK, pubsubs
  <2>2. DdsInv'
    BY <1>a, <1>r, <1>10
       DEF Deliver, Refused, Load, Goto, TypeOK, DdsInv, DdsLocations, Twice, Up, Served,
           Troubled, pubsubs
  <2>3. QED
    BY <2>1, <2>2
<1>f. CASE Failed(c) /\ Remember(c)
  <2>1. TypeOK'
    BY <1>0, <1>r, <1>f DEF Failed, Goto, TypeOK, pubsubs
  <2>2. DdsInv'
    BY <1>a, <1>r, <1>f
       DEF Failed, Goto, TypeOK, DdsInv, DdsLocations, Twice, Up, Served, Troubled, pubsubs
  <2>3. QED
    BY <2>1, <2>2
<1>11. ~BaseStep(c) /\ ~RosStep(c) /\ ~Raised(c)
  BY DEF DdsInv, DdsLocations, Goto, BaseStep, EnsureStarted, StartBackend, SetFlag,
         StopBackend, ClearFlag, Raised,
         RosStep, RosTest, RosStartTest, RosCreate, RosStart, RosAssert, RosLoad, RosStop,
         RosDrop
<1>12. QED
  BY <1>1, <1>2, <1>3, <1>4, <1>5, <1>6, <1>7, <1>8, <1>9, <1>10, <1>11, <1>f DEF Step, DdsStep

-----------------------------------------------------------------------------
(* What the three families keep, whatever their threads do.                  *)
Inv ==
    /\ TypeOK
    /\ WitnessInv
    /\ kind = "base" => BaseInv
    /\ kind = "ros" => RosInv
    /\ kind = "dds" => DdsInv

THEOREM TransportsInvariant == Spec => []Inv
<1>1. Init => Inv
  <2> SUFFICES ASSUME Init PROVE Inv
    OBVIOUS
  <2>1. TypeOK
    <3>1. /\ kind \in Kinds
          /\ pc = [c \in Threads |-> "idle"]
          /\ call = [c \in Threads |-> "start"]
          /\ hand = [c \in Threads |-> None]
          /\ started = FALSE /\ overlapped = FALSE
          /\ ros = None
          /\ unstarted = {} /\ unstopped = {}
          /\ holder = {} /\ depth = 0 /\ contested = {}
      BY DEF Init
    <3>2. pubsub \in [Pubsubs -> {"none", "made", "up", "down"}]
      BY DEF Init
    <3>3. /\ pc \in [Threads -> Locations] /\ call \in [Threads -> Calls]
          /\ \A c \in Threads : pc[c] = "idle"
      BY <3>1 DEF Locations
    <3>4. hand \in [Threads -> Pubsubs \cup {None}] /\ ros \in Pubsubs \cup {None}
      BY <3>1
    <3>5. depth \in 0 .. 2 /\ holder \in SUBSET Threads /\ contested \subseteq Threads
      BY <3>1
    <3>6. started \in BOOLEAN /\ overlapped \in BOOLEAN
      BY <3>1
    <3>7. QED
      BY <3>1, <3>2, <3>3, <3>4, <3>5, <3>6 DEF TypeOK
  <2>2. WitnessInv
    BY DEF Init, WitnessInv, Changing
  <2>3. CASE kind = "base"
    BY <2>1, <2>2, <2>3 DEF Init, Inv, BaseInv, BaseLocations, Up, Served, Troubled
  <2>4. CASE kind = "ros"
    BY <2>1, <2>2, <2>4 DEF Init, Inv, RosInv, RosLocations, RosServed, RosKept, RosSerial,
                            NoneUp, RosUp, Up, Served, Troubled
  <2>5. CASE kind = "dds"
    BY <2>1, <2>2, <2>5 DEF Init, Inv, DdsInv, DdsLocations, Up, Served, Troubled
  <2>6. QED
    BY <2>1, <2>3, <2>4, <2>5 DEF TypeOK
<1>2. Inv /\ [Next]_vars => Inv'
  <2> SUFFICES ASSUME Inv, [Next]_vars
               PROVE  Inv'
    OBVIOUS
  <2>1. ASSUME NEW c \in Threads,
               (Step(c) /\ Remember(c)) \/ \E m \in Calls : Begin(c, m),
               Witness, kind' = kind
        PROVE  Inv'
    <3>1. WitnessInv'
      BY <2>1, WitnessStep
    <3>2. CASE kind = "base"
      BY <2>1, <3>1, <3>2, BaseStepKeeps DEF Inv
    <3>3. CASE kind = "ros"
      BY <2>1, <3>1, <3>3, RosStepKeeps DEF Inv
    <3>4. CASE kind = "dds"
      BY <2>1, <3>1, <3>4, DdsStepKeeps DEF Inv
    <3>5. QED
      BY <3>2, <3>3, <3>4 DEF Inv, TypeOK
  <2>2. CASE UNCHANGED vars
    BY <2>2 DEF vars, Inv, TypeOK, WitnessInv, BaseInv, RosInv, RosServed, RosKept, RosSerial,
                NoneUp, RosUp, DdsInv, Twice, Up, Served, Troubled
  <2>3. QED
    BY <2>1, <2>2 DEF Next, GoOn
<1>3. QED
  BY <1>1, <1>2, PTL DEF Spec

(* The transports keep their types, and a start, stop or use has a pubsub.   *)
THEOREM TypeCorrect == Spec => []TypeOK
<1>1. Inv => TypeOK
  BY DEF Inv
<1>2. QED
  BY <1>1, TransportsInvariant, PTL

(* A broadcast or subscribe reaches a pubsub that is up: with DDS unless an   *)
(* earlier stop raised, with LCM and shared memory unless it was contested or *)
(* calls overlapped besides, with ROS unless an earlier start raised besides. *)
THEOREM UseReachesStarted == Spec => []ReachesStarted
<1>1. Inv => ReachesStarted
  BY DEF Inv, TypeOK, ReachesStarted, BaseInv, RosInv, RosKept, DdsInv, Up, Served
<1>2. QED
  BY <1>1, TransportsInvariant, PTL

(* Exceptions of the pubsub apart, only ROSTransport raises, and only in a    *)
(* contested call or over a pubsub whose start or stop raised.                *)
THEOREM CallsRaiseForCause == Spec => []RaisesForCause
<1>1. Inv => RaisesForCause
  BY DEF Inv, TypeOK, RaisesForCause, BaseInv, BaseLocations, RosInv, RosKept,
         DdsInv, DdsLocations
<1>2. QED
  BY <1>1, TransportsInvariant, PTL

(* What is up is what a transport at rest believes to be up, whatever raised, *)
(* and what it believes is up unless a start or stop of it raised; without    *)
(* DDS unless calls overlapped.                                               *)
THEOREM RestIsTrue == Spec => []AtRestTrue
<1>1. Inv => AtRestTrue
  <2> SUFFICES ASSUME Inv, \A c \in Threads : pc[c] = "idle", overlapped => kind = "dds"
               PROVE  Running \subseteq Believed /\ Believed \subseteq Running \cup Troubled
    BY DEF AtRestTrue
  <2>1. CASE kind = "base"
    <3>1. ~overlapped /\ BaseInv
      BY <2>1 DEF Inv
    <3>2. (Up(1) => started) /\ (started => Served(1))
      BY <3>1 DEF BaseInv
    <3>3. QED
      BY <2>1, <3>1, <3>2 DEF BaseInv, Believed, Running, Up, Served
  <2>2. CASE kind = "ros"
    <3>1. RosUp
      BY <2>2 DEF Inv, RosInv, RosSerial, Changing
    <3>2. QED
      BY <2>2, <3>1 DEF RosUp, Up, Served, Believed, Running, Inv, TypeOK
  <2>3. CASE kind = "dds"
    <3>1. DdsInv
      BY <2>3 DEF Inv
    <3>2. (Up(1) => started) /\ (started => Served(1))
      BY <3>1 DEF DdsInv
    <3>3. QED
      BY <2>3, <3>1, <3>2 DEF DdsInv, Believed, Running, Up, Served
  <2>4. QED
    BY <2>1, <2>2, <2>3 DEF Inv, TypeOK
<1>2. QED
  BY <1>1, TransportsInvariant, PTL
=============================================================================

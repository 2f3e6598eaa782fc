------------------------------ MODULE G1Proofs ------------------------------
(***************************************************************************)
(* Proofs about the two halves of G1HighLevelDdsSdk, for any set of        *)
(* callers: for any number of moves and any set of failing calls, of the   *)
(* safety properties of G1Motion; with failing robot calls or without, of  *)
(* the invariants of G1Posture.                                            *)
(***************************************************************************)
EXTENDS G1Motion, G1Posture, TLAPS

-----------------------------------------------------------------------------
(* Velocity commands and the auto-stop timer.                              *)

(* A caller that took the timer away, or moved the robot, before arming. *)
Taken(c) ==
    \/ pc[c] \in {"clear", "create"}
    \/ pc[c] = "command" /\ op[c] # "velocity"

(* A caller that will start the timer now in self._stop_timer. *)
Arming(c) ==
    \/ pc[c] \in {"loadDaemon", "loadStart"}
    \/ pc[c] \in {"daemon", "start"} /\ held[c] = timerRef

(* The inductive form of DeadMan: a caller in the arming statements counts  *)
(* only while the referenced timer is made, not cancelled, and the one that *)
(* this caller will start.                                                  *)
Attended ==
    \/ \E t \in Timers : Live(t)
    \/ \E c \in Callers : Taken(c)
    \/ /\ timerRef # NoTimer
       /\ phase[timerRef] = "made"
       /\ ~cancelled[timerRef]
       /\ \E c \in Callers : Arming(c)

DeadManInv ==
    /\ \A c \in Callers :
          pc[c] \in {"check", "loadCancel", "cancel", "clear"} => op[c] # "velocity"
    /\ motion = "continuous" /\ ~blind => Attended

(* The inductive form of StopHolds: only stop() is being executed. *)
StopInv ==
    quiet => motion = "still" /\ \A c \in Callers : pc[c] # "idle" => op[c] = "stop"

(* The inductive form of OneTimer and SerialCancel. *)
SerialInv ==
    ~overlapped =>
        /\ \A c, d \in Callers : pc[c] # "idle" /\ pc[d] # "idle" => c = d
        /\ \A c \in Callers :
              /\ pc[c] # "raised"
              /\ pc[c] = "loadCancel" => timerRef # NoTimer
              /\ pc[c] \in {"cancel", "start"} => held[c] = timerRef
              /\ pc[c] = "cancel" => timerRef # NoTimer
              /\ pc[c] = "clear" => timerRef # NoTimer /\ cancelled[timerRef]
              /\ pc[c] = "command" => op[c] = "velocity" \/ timerRef = NoTimer
              /\ pc[c] = "create" => timerRef = NoTimer
        /\ \A t \in Timers : phase[t] = "waiting" /\ ~cancelled[t] => t = timerRef

-----------------------------------------------------------------------------
USE MotionAssumption DEF MotionAssumption, Timers, NoTimer, Ops, Locations, timerVars, robotVars,
                         ghostVars

(* Type correctness: a Timer that is referenced or cancelled has been made.  *)
THEOREM TypeCorrect == Spec => []TypeOK
<1>1. Init => TypeOK
  <2> SUFFICES ASSUME Init PROVE TypeOK
    OBVIOUS
  <2>1. /\ pc = [c \in Callers |-> "idle"]
        /\ op = [c \in Callers |-> "stop"]
        /\ held = [c \in Callers |-> NoTimer]
        /\ timerRef = NoTimer
        /\ phase = [t \in Timers |-> "none"]
        /\ motion = "still"
        /\ begun = 0
    BY Zenon DEF Init
  <2>2. cancelled \in [Timers -> BOOLEAN] /\ \A t \in Timers : ~cancelled[t]
    BY Zenon DEF Init
  <2>3. blind \in BOOLEAN /\ quiet \in BOOLEAN /\ overlapped \in BOOLEAN
    BY Zenon DEF Init
  <2>4. QED
    BY <2>1, <2>2, <2>3 DEF TypeOK
<1>2. TypeOK /\ [Next]_vars => TypeOK'
  <2> SUFFICES ASSUME TypeOK, [Next]_vars
               PROVE  TypeOK'
    OBVIOUS
  <2> USE DEF TypeOK, Goto
  <2>1. ASSUME NEW c \in Callers, NEW o \in Ops, Begin(c, o)
        PROVE  TypeOK'
    BY <2>1 DEF Begin
  <2>2. ASSUME NEW c \in Callers, CheckTimer(c)
        PROVE  TypeOK'
    BY <2>2 DEF CheckTimer
  <2>3. ASSUME NEW c \in Callers, LoadForCancel(c)
        PROVE  TypeOK'
    BY <2>3 DEF LoadForCancel, LoadTimer
  <2>4. ASSUME NEW c \in Callers, CancelTimer(c)
        PROVE  TypeOK'
    BY <2>4 DEF CancelTimer, UseNone
  <2>5. ASSUME NEW c \in Callers, ClearTimer(c)
        PROVE  TypeOK'
    BY <2>5 DEF ClearTimer
  <2>6. ASSUME NEW c \in Callers, Raised(c)
        PROVE  TypeOK'
    BY <2>6 DEF Raised
  <2>7. ASSUME NEW c \in Callers, SendMove(c)
        PROVE  TypeOK'
    BY <2>7 DEF SendMove, Accepted, Refused
  <2>8. ASSUME NEW c \in Callers, SendMoveFor(c)
        PROVE  TypeOK'
    BY <2>8 DEF SendMoveFor, Accepted, Refused
  <2>9. ASSUME NEW c \in Callers, SendRequest(c)
        PROVE  TypeOK'
    BY <2>9 DEF SendRequest, Accepted, Refused
  <2>10. ASSUME NEW c \in Callers, SendStop(c)
        PROVE  TypeOK'
    BY <2>10 DEF SendStop, Accepted, Refused
  <2>11. ASSUME NEW c \in Callers, CreateTimer(c)
        PROVE  TypeOK'
    BY <2>11 DEF CreateTimer
  <2>12. ASSUME NEW c \in Callers, LoadForDaemon(c)
        PROVE  TypeOK'
    BY <2>12 DEF LoadForDaemon, LoadTimer
  <2>13. ASSUME NEW c \in Callers, SetDaemon(c)
        PROVE  TypeOK'
    <3>1. \/ pc' = [pc EXCEPT ![c] = "loadStart"]
          \/ pc' = [pc EXCEPT ![c] = "idle"]
      BY <2>13 DEF SetDaemon, UseNone
    <3>2. UNCHANGED <<op, held, timerVars, robotVars, begun, ghostVars>>
      BY <2>13 DEF SetDaemon, UseNone
    <3>3. QED
      BY <3>1, <3>2
  <2>14. ASSUME NEW c \in Callers, LoadForStart(c)
        PROVE  TypeOK'
    BY <2>14 DEF LoadForStart, LoadTimer
  <2>15. ASSUME NEW c \in Callers, StartTimer(c)
        PROVE  TypeOK'
    <3>0. CASE UseNone(c, "start", "idle")
      BY <3>0 DEF UseNone
    <3> SUFFICES ASSUME ~UseNone(c, "start", "idle")
                 PROVE  TypeOK'
      BY <3>0
    <3>1. /\ held[c] \in Timers
          /\ phase[held[c]] # "none"
          /\ phase' \in {phase, [phase EXCEPT ![held[c]] = "waiting"]}
          /\ pc' = [pc EXCEPT ![c] = "idle"]
          /\ blind' \in BOOLEAN
          /\ UNCHANGED <<op, held, timerRef, cancelled, motion, begun, quiet, overlapped>>
      BY <2>15 DEF StartTimer
    <3>2. \A t \in Timers : phase'[t] = "none" <=> phase[t] = "none"
      BY <3>1
    <3>3. QED
      BY <3>1, <3>2
  <2>16. ASSUME NEW t \in Timers, Expire(t)
        PROVE  TypeOK'
    BY <2>16 DEF Expire
  <2>17. ASSUME NEW t \in Timers, AutoStop(t)
        PROVE  TypeOK'
    BY <2>17 DEF AutoStop, Accepted, Refused
  <2>18. CASE TimedEnd
    BY <2>18 DEF TimedEnd
  <2>19. CASE UNCHANGED vars
    BY <2>19 DEF vars
  <2>20. QED
    BY <2>1, <2>2, <2>3, <2>4, <2>5, <2>6, <2>7, <2>8, <2>9, <2>10, <2>11, <2>12, <2>13,
       <2>14, <2>15, <2>16, <2>17, <2>18, <2>19 DEF Next, Step, TimerStep
<1>3. QED
  BY <1>1, <1>2, PTL DEF Spec

(* A robot in continuous motion is attended, on every interleaving. *)
THEOREM MotionAttended == Spec => []DeadMan
<1>1. Init => DeadManInv
  BY Zenon DEF Init, DeadManInv
<1>2. TypeOK /\ TypeOK' /\ DeadManInv /\ [Next]_vars => DeadManInv'
  <2> SUFFICES ASSUME TypeOK, TypeOK', DeadManInv, [Next]_vars
               PROVE  DeadManInv'
    OBVIOUS
  <2> USE DEF TypeOK, Goto, DeadManInv, Attended, Live, Taken, Arming
  <2>1. ASSUME NEW c \in Callers, NEW o \in Ops, Begin(c, o)
        PROVE  DeadManInv'
    BY <2>1 DEF Begin
  <2>2. ASSUME NEW c \in Callers, CheckTimer(c)
        PROVE  DeadManInv'
    BY <2>2 DEF CheckTimer
  <2>3. ASSUME NEW c \in Callers, LoadForCancel(c)
        PROVE  DeadManInv'
    BY <2>3 DEF LoadForCancel, LoadTimer
  <2>4. ASSUME NEW c \in Callers, CancelTimer(c)
        PROVE  DeadManInv'
    BY <2>4 DEF CancelTimer, UseNone
  <2>5. ASSUME NEW c \in Callers, ClearTimer(c)
        PROVE  DeadManInv'
    BY <2>5 DEF ClearTimer
  <2>6. ASSUME NEW c \in Callers, Raised(c)
        PROVE  DeadManInv'
    BY <2>6 DEF Raised
  <2>7. ASSUME NEW c \in Callers, SendMove(c)
        PROVE  DeadManInv'
    BY <2>7 DEF SendMove, Accepted, Refused
  <2>8. ASSUME NEW c \in Callers, SendMoveFor(c)
        PROVE  DeadManInv'
    BY <2>8 DEF SendMoveFor, Accepted, Refused
  <2>9. ASSUME NEW c \in Callers, SendRequest(c)
        PROVE  DeadManInv'
    BY <2>9 DEF SendRequest, Accepted, Refused
  <2>10. ASSUME NEW c \in Callers, SendStop(c)
        PROVE  DeadManInv'
    BY <2>10 DEF SendStop, Accepted, Refused
  <2>11. ASSUME NEW c \in Callers, CreateTimer(c)
        PROVE  DeadManInv'
    BY <2>11 DEF CreateTimer
  <2>12. ASSUME NEW c \in Callers, LoadForDaemon(c)
        PROVE  DeadManInv'
    BY <2>12 DEF LoadForDaemon, LoadTimer
  <2>13. ASSUME NEW c \in Callers, SetDaemon(c)
        PROVE  DeadManInv'
    BY <2>13 DEF SetDaemon, UseNone
  <2>14. ASSUME NEW c \in Callers, LoadForStart(c)
        PROVE  DeadManInv'
    BY <2>14 DEF LoadForStart, LoadTimer
  <2>15. ASSUME NEW c \in Callers, StartTimer(c)
        PROVE  DeadManInv'
    BY <2>15 DEF StartTimer, UseNone
  <2>16. ASSUME NEW t \in Timers, Expire(t)
        PROVE  DeadManInv'
    BY <2>16 DEF Expire
  <2>17. ASSUME NEW t \in Timers, AutoStop(t)
        PROVE  DeadManInv'
    BY <2>17 DEF AutoStop, Accepted, Refused
  <2>18. CASE TimedEnd
    BY <2>18 DEF TimedEnd
  <2>19. CASE UNCHANGED vars
    BY <2>19 DEF vars
  <2>20. QED
    BY <2>1, <2>2, <2>3, <2>4, <2>5, <2>6, <2>7, <2>8, <2>9, <2>10, <2>11, <2>12, <2>13,
       <2>14, <2>15, <2>16, <2>17, <2>18, <2>19 DEF Next, Step, TimerStep
<1>3. DeadManInv => DeadMan
  BY DEF DeadMan, DeadManInv, Attended, Live, Taken, Arming, Committed
<1>4. QED
  BY <1>1, <1>2, <1>3, TypeCorrect, PTL DEF Spec

(* A robot that stop() brought to rest stays at rest. *)
THEOREM StopIsKept == Spec => []StopHolds
<1>1. Init => StopInv
  BY Zenon DEF Init, StopInv
<1>2. TypeOK /\ TypeOK' /\ StopInv /\ [Next]_vars => StopInv'
  <2> SUFFICES ASSUME TypeOK, TypeOK', StopInv, [Next]_vars
               PROVE  StopInv'
    OBVIOUS
  <2> USE DEF TypeOK, Goto, StopInv
  <2>1. ASSUME NEW c \in Callers, NEW o \in Ops, Begin(c, o)
        PROVE  StopInv'
    BY <2>1 DEF Begin
  <2>2. ASSUME NEW c \in Callers, CheckTimer(c)
        PROVE  StopInv'
    BY <2>2 DEF CheckTimer
  <2>3. ASSUME NEW c \in Callers, LoadForCancel(c)
        PROVE  StopInv'
    BY <2>3 DEF LoadForCancel, LoadTimer
  <2>4. ASSUME NEW c \in Callers, CancelTimer(c)
        PROVE  StopInv'
    BY <2>4 DEF CancelTimer, UseNone
  <2>5. ASSUME NEW c \in Callers, ClearTimer(c)
        PROVE  StopInv'
    BY <2>5 DEF ClearTimer
  <2>6. ASSUME NEW c \in Callers, Raised(c)
        PROVE  StopInv'
    BY <2>6 DEF Raised
  <2>7. ASSUME NEW c \in Callers, SendMove(c)
        PROVE  StopInv'
    BY <2>7 DEF SendMove, Accepted, Refused
  <2>8. ASSUME NEW c \in Callers, SendMoveFor(c)
        PROVE  StopInv'
    BY <2>8 DEF SendMoveFor, Accepted, Refused
  <2>9. ASSUME NEW c \in Callers, SendRequest(c)
        PROVE  StopInv'
    BY <2>9 DEF SendRequest, Accepted, Refused
  <2>10. ASSUME NEW c \in Callers, SendStop(c)
        PROVE  StopInv'
    BY <2>10 DEF SendStop, Accepted, Refused
  <2>11. ASSUME NEW c \in Callers, CreateTimer(c)
        PROVE  StopInv'
    BY <2>11 DEF CreateTimer
  <2>12. ASSUME NEW c \in Callers, LoadForDaemon(c)
        PROVE  StopInv'
    BY <2>12 DEF LoadForDaemon, LoadTimer
  <2>13. ASSUME NEW c \in Callers, SetDaemon(c)
        PROVE  StopInv'
    BY <2>13 DEF SetDaemon, UseNone
  <2>14. ASSUME NEW c \in Callers, LoadForStart(c)
        PROVE  StopInv'
    BY <2>14 DEF LoadForStart, LoadTimer
  <2>15. ASSUME NEW c \in Callers, StartTimer(c)
        PROVE  StopInv'
    BY <2>15 DEF StartTimer, UseNone
  <2>16. ASSUME NEW t \in Timers, Expire(t)
        PROVE  StopInv'
    BY <2>16 DEF Expire
  <2>17. ASSUME NEW t \in Timers, AutoStop(t)
        PROVE  StopInv'
    BY <2>17 DEF AutoStop, Accepted, Refused
  <2>18. CASE TimedEnd
    BY <2>18 DEF TimedEnd
  <2>19. CASE UNCHANGED vars
    BY <2>19 DEF vars
  <2>20. QED
    BY <2>1, <2>2, <2>3, <2>4, <2>5, <2>6, <2>7, <2>8, <2>9, <2>10, <2>11, <2>12, <2>13,
       <2>14, <2>15, <2>16, <2>17, <2>18, <2>19 DEF Next, Step, TimerStep
<1>3. StopInv => StopHolds
  BY DEF StopHolds, StopInv
<1>4. QED
  BY <1>1, <1>2, <1>3, TypeCorrect, PTL DEF Spec

(* SerialInv always holds: as long as no two calls have overlapped, one caller
   tests, loads and stores self._stop_timer at a time. *)
LEMMA SerialAlways == Spec => []SerialInv
<1>1. Init => SerialInv
  BY Zenon DEF Init, SerialInv
<1>2. TypeOK /\ TypeOK' /\ SerialInv /\ [Next]_vars => SerialInv'
  <2> SUFFICES ASSUME TypeOK, TypeOK', SerialInv, [Next]_vars
               PROVE  SerialInv'
    OBVIOUS
  <2> USE DEF TypeOK, Goto, SerialInv
  <2>1. ASSUME NEW c \in Callers, NEW o \in Ops, Begin(c, o)
        PROVE  SerialInv'
    <3>1. CASE overlapped'
      BY <3>1
    <3>2. CASE ~overlapped'
      <4>1. ~overlapped /\ \A d \in Callers \ {c} : pc[d] = "idle"
        BY <2>1, <3>2, Zenon DEF Begin
      <4>2. /\ pc' = [pc EXCEPT ![c] = IF o = "velocity" THEN "command" ELSE "check"]
            /\ op' = [op EXCEPT ![c] = o]
            /\ UNCHANGED <<held, timerRef, phase, cancelled>>
        BY <2>1 DEF Begin
      <4>3. QED
        BY <4>1, <4>2
    <3>3. QED
      BY <3>1, <3>2
  <2>2. ASSUME NEW c \in Callers, CheckTimer(c)
        PROVE  SerialInv'
    BY <2>2 DEF CheckTimer
  <2>3. ASSUME NEW c \in Callers, LoadForCancel(c)
        PROVE  SerialInv'
    BY <2>3 DEF LoadForCancel, LoadTimer
  <2>4. ASSUME NEW c \in Callers, CancelTimer(c)
        PROVE  SerialInv'
    <3>1. CASE UseNone(c, "cancel", "raised")
      BY <3>1 DEF UseNone
    <3>2. CASE ~UseNone(c, "cancel", "raised")
      <4>1. /\ pc[c] = "cancel" /\ held[c] \in Timers
            /\ pc' = [pc EXCEPT ![c] = "clear"]
            /\ cancelled' = [cancelled EXCEPT ![held[c]] = TRUE]
            /\ UNCHANGED <<op, held, timerRef, phase, overlapped>>
        BY <2>4, <3>2 DEF CancelTimer
      <4>2. \A t \in Timers : cancelled[t] => cancelled'[t]
        BY <4>1
      <4>3. cancelled'[held[c]] = TRUE
        BY <4>1
      <4>4. QED
        BY <4>1, <4>2, <4>3
    <3>3. QED
      BY <3>1, <3>2
  <2>5. ASSUME NEW c \in Callers, ClearTimer(c)
        PROVE  SerialInv'
    BY <2>5 DEF ClearTimer
  <2>6. ASSUME NEW c \in Callers, Raised(c)
        PROVE  SerialInv'
    BY <2>6 DEF Raised
  <2>7. ASSUME NEW c \in Callers, SendMove(c)
        PROVE  SerialInv'
    BY <2>7 DEF SendMove, Accepted, Refused
  <2>8. ASSUME NEW c \in Callers, SendMoveFor(c)
        PROVE  SerialInv'
    BY <2>8 DEF SendMoveFor, Accepted, Refused
  <2>9. ASSUME NEW c \in Callers, SendRequest(c)
        PROVE  SerialInv'
    BY <2>9 DEF SendRequest, Accepted, Refused
  <2>10. ASSUME NEW c \in Callers, SendStop(c)
        PROVE  SerialInv'
    BY <2>10 DEF SendStop, Accepted, Refused
  <2>11. ASSUME NEW c \in Callers, CreateTimer(c)
        PROVE  SerialInv'
    <3>1. PICK t \in Timers : /\ timerRef' = t
                              /\ phase' = [phase EXCEPT ![t] = "made"]
      BY <2>11 DEF CreateTimer
    <3>2. /\ pc[c] = "create" /\ pc' = [pc EXCEPT ![c] = "loadDaemon"]
          /\ UNCHANGED <<op, held, cancelled, overlapped>>
      BY <2>11 DEF CreateTimer
    <3>3. CASE overlapped
      BY <3>2, <3>3
    <3>4. CASE ~overlapped
      <4>1. \A u \in Timers : ~(phase[u] = "waiting" /\ ~cancelled[u])
        BY <3>2, <3>4
      <4>2. \A u \in Timers : ~(phase'[u] = "waiting" /\ ~cancelled'[u])
        BY <4>1, <3>1, <3>2
      <4>3. \A d \in Callers \ {c} : pc[d] = "idle" /\ pc'[d] = "idle"
        BY <3>2, <3>4
      <4>4. QED
        BY <3>2, <3>4, <4>2, <4>3
    <3>5. QED
      BY <3>3, <3>4
  <2>12. ASSUME NEW c \in Callers, LoadForDaemon(c)
        PROVE  SerialInv'
    BY <2>12 DEF LoadForDaemon, LoadTimer
  <2>13. ASSUME NEW c \in Callers, SetDaemon(c)
        PROVE  SerialInv'
    BY <2>13 DEF SetDaemon, UseNone
  <2>14. ASSUME NEW c \in Callers, LoadForStart(c)
        PROVE  SerialInv'
    BY <2>14 DEF LoadForStart, LoadTimer
  <2>15. ASSUME NEW c \in Callers, StartTimer(c)
        PROVE  SerialInv'
    BY <2>15 DEF StartTimer, UseNone
  <2>16. ASSUME NEW t \in Timers, Expire(t)
        PROVE  SerialInv'
    BY <2>16 DEF Expire
  <2>17. ASSUME NEW t \in Timers, AutoStop(t)
        PROVE  SerialInv'
    BY <2>17 DEF AutoStop, Accepted, Refused
  <2>18. CASE TimedEnd
    BY <2>18 DEF TimedEnd
  <2>19. CASE UNCHANGED vars
    BY <2>19 DEF vars
  <2>20. QED
    BY <2>1, <2>2, <2>3, <2>4, <2>5, <2>6, <2>7, <2>8, <2>9, <2>10, <2>11, <2>12, <2>13,
       <2>14, <2>15, <2>16, <2>17, <2>18, <2>19 DEF Next, Step, TimerStep
<1>3. QED
  BY <1>1, <1>2, TypeCorrect, PTL DEF Spec

(* While calls do not overlap, the only timer that may still fire is the one
   self._stop_timer refers to: no earlier move's timer outlives it and stops
   the robot in the middle of the next move. *)
THEOREM SerialOneTimer == Spec => []OneTimer
<1>1. SerialInv => OneTimer
  BY DEF OneTimer, SerialInv
<1>2. QED
  BY <1>1, SerialAlways, PTL

(* While calls do not overlap, no call finds self._stop_timer cleared between
   testing it and calling cancel() on it, so none raises. *)
THEOREM SerialCancelHolds == Spec => []SerialCancel
<1>1. SerialInv => SerialCancel
  BY DEF SerialCancel, SerialInv
<1>2. QED
  BY <1>1, SerialAlways, PTL

HIDE MotionAssumption DEF MotionAssumption, Timers, NoTimer, Ops, Locations, timerVars, robotVars,
                          ghostVars

-----------------------------------------------------------------------------
(* Posture commands.                                                       *)

(* What a call knows of the robot at each of its statements: where it last   *)
(* saw it or sent it, and, while it is obeyed and alone, whether it stands.  *)
KnowsState(c) ==
    known[c] =>
        /\ pc[c] = "requery" => fsm = DAMP
        /\ pc[c] = "ai" /\ AsAnswered(c) => fsm = fsmId[c] /\ fsm # ZERO_TORQUE

KnowsPosture(c) ==
    clean[c] =>
        /\ pc[c] \in {"query", "damp", "requery", "ai"} => aiStandup /\ (up <=> ~wasDown[c])
        /\ pc[c] = "damp" => ~up
        /\ pc[c] = "plainDamp" => ~aiStandup
        /\ pc[c] = "toggle" => (up <=> ~(wasDown[c] \/ ~aiStandup))
        /\ pc[c] = "stood" => (up <=> wasDown[c] \/ ~aiStandup)

Knowledge == \A c \in Callers : KnowsState(c) /\ KnowsPosture(c)

(* The types in two halves: the Boolean ones, and the others.               *)
Flags ==
    /\ aiStandup \in BOOLEAN
    /\ up \in BOOLEAN
    /\ wasDown \in [Callers -> BOOLEAN]
    /\ known \in [Callers -> BOOLEAN]
    /\ clean \in [Callers -> BOOLEAN]

Values ==
    /\ pc \in [Callers -> Rungs]
    /\ fsmId \in [Callers -> FsmStates \cup {Unread}]
    /\ answer \in [Callers -> FsmStates \cup {Unread}]
    /\ fsm \in FsmStates
    /\ \A c \in Callers : pc[c] \in {"damp", "ai"} => fsmId[c] # Unread

Sunk == up => fsm \notin {ZERO_TORQUE, DAMP}

LEMMA Halves ==
    /\ PostureTypeOK => Flags /\ Values /\ Sunk
    /\ Flags /\ Values /\ Sunk => PostureTypeOK
    /\ Flags' /\ Values' /\ Sunk' => PostureTypeOK'
BY Zenon DEF PostureTypeOK, Flags, Values, Sunk

(* A Boolean function with one value replaced, or none.                      *)
LEMMA OneReplaced ==
    ASSUME NEW S, NEW f \in [S -> BOOLEAN], NEW g, NEW c \in S, NEW v \in BOOLEAN,
           g = f \/ g = [f EXCEPT ![c] = v]
    PROVE  /\ g \in [S -> BOOLEAN]
           /\ \A d \in S : d # c => g[d] = f[d]
           /\ g = [f EXCEPT ![c] = v] => g[c] = v
<1>1. [f EXCEPT ![c] = v] \in [S -> BOOLEAN]
  OBVIOUS
<1>2. [f EXCEPT ![c] = v][c] = v /\ \A d \in S : d # c => [f EXCEPT ![c] = v][d] = f[d]
  OBVIOUS
<1>3. CASE g = f
  <2>1. g \in [S -> BOOLEAN] /\ \A d \in S : g[d] = f[d]
    BY <1>3
  <2>2. QED
    BY <1>2, <2>1, Zenon
<1>4. CASE g = [f EXCEPT ![c] = v]
  BY <1>1, <1>2, <1>4, Zenon
<1>5. QED
  BY <1>3, <1>4

USE PostureAssumption DEF FsmStates, ZERO_TORQUE, DAMP, SIT, AI_MODE, TOGGLE, Unread,
                          Rungs, fsmVars, historyVars

-----------------------------------------------------------------------------
(* Every kind of step, whatever statement it is.                            *)

LEMMA ReachFlags ==
    ASSUME NEW state \in FsmStates, up \in BOOLEAN, Reach(state)
    PROVE  /\ fsm' = state /\ up' \in BOOLEAN /\ Sunk'
           /\ state = TOGGLE => (up' <=> ~up)
           /\ state \in {ZERO_TORQUE, DAMP} => ~up'
           /\ state \notin {TOGGLE, ZERO_TORQUE, DAMP} => (up' <=> up)
<1>1. fsm' = state
  BY Zenon DEF Reach
<1>2. CASE state = TOGGLE
  <2>1. up' = ~up
    BY <1>2, Zenon DEF Reach
  <2>2. up' \in BOOLEAN /\ (up' <=> ~up)
    BY <2>1, Zenon
  <2>3. Sunk' /\ state \notin {ZERO_TORQUE, DAMP}
    BY <1>1, <1>2 DEF Sunk
  <2>4. QED
    BY <1>1, <1>2, <2>2, <2>3
<1>3. CASE state # TOGGLE
  <2>1. up' = (up /\ state \notin {ZERO_TORQUE, DAMP})
    BY <1>3, Zenon DEF Reach
  <2>2. QED
    BY <1>1, <1>3, <2>1 DEF Sunk
<1>4. QED
  BY <1>2, <1>3

(* What a command to the robot makes of the flags.                          *)
LEMMA ToldFlags ==
    ASSUME NEW c \in Callers, NEW state \in FsmStates, Flags, Sunk,
           Obeyed(c, state) \/ Lost(c), UNCHANGED <<aiStandup, wasDown>>
    PROVE  /\ Flags' /\ Sunk'
           /\ \A d \in Callers : known'[d] => known[d] \/ d = c
           /\ \A d \in Callers : clean'[d] => clean[d]
           /\ \A d \in Callers : (known'[d] \/ clean'[d]) /\ d # c => fsm' = fsm /\ up' = up
           /\ known'[c] \/ clean'[c] => Reach(state)
<1>0. aiStandup' = aiStandup /\ wasDown' = wasDown
  OBVIOUS
<1>1. CASE Obeyed(c, state)
  <2>1. up' \in BOOLEAN /\ Sunk' /\ Reach(state)
    BY <1>1, ReachFlags, Zenon DEF Obeyed, Flags
  <2>2. known' \in [Callers -> BOOLEAN] /\ clean' \in [Callers -> BOOLEAN]
    <3>1. /\ known' = [d \in Callers |-> d = c]
          /\ clean' = [d \in Callers |-> d = c /\ clean[d]]
      BY <1>1, Zenon DEF Obeyed
    <3>2. [d \in Callers |-> d = c] \in [Callers -> BOOLEAN]
      OBVIOUS
    <3>3. [d \in Callers |-> d = c /\ clean[d]] \in [Callers -> BOOLEAN]
      OBVIOUS
    <3>4. QED
      BY <3>1, <3>2, <3>3
  <2>3. \A d \in Callers : (known'[d] => d = c) /\ (clean'[d] => d = c /\ clean[d])
    BY <1>1, Zenon DEF Obeyed
  <2>4. Flags'
    BY <1>0, <2>1, <2>2, Zenon DEF Flags
  <2>5. QED
    BY <2>1, <2>3, <2>4
<1>2. CASE Lost(c)
  <2>1. /\ known' = [known EXCEPT ![c] = FALSE]
        /\ clean' = [clean EXCEPT ![c] = FALSE]
        /\ fsm' = fsm /\ up' = up
    BY <1>2, Zenon DEF Lost
  <2>2. known' \in [Callers -> BOOLEAN] /\ clean' \in [Callers -> BOOLEAN]
    BY <2>1, Zenon DEF Flags
  <2>3. Flags' /\ Sunk'
    BY <1>0, <2>1, <2>2, Zenon DEF Flags, Sunk
  <2>4. \A d \in Callers : known'[d] => known[d] /\ d # c
    <3>1. known \in [Callers -> BOOLEAN] /\ FALSE \in BOOLEAN
      BY DEF Flags
    <3>2. ~known'[c] /\ \A d \in Callers : d # c => known'[d] = known[d]
      BY <2>1, <3>1, OneReplaced
    <3>3. QED
      BY <3>2
  <2>5. \A d \in Callers : clean'[d] => clean[d] /\ d # c
    <3>1. clean \in [Callers -> BOOLEAN] /\ FALSE \in BOOLEAN
      BY DEF Flags
    <3>2. ~clean'[c] /\ \A d \in Callers : d # c => clean'[d] = clean[d]
      BY <2>1, <3>1, OneReplaced
    <3>3. QED
      BY <3>2
  <2>6. QED
    BY <2>1, <2>3, <2>4, <2>5
<1>3. QED
  BY <1>1, <1>2

(* A caller of whom nothing changed goes on knowing what it knew.            *)
LEMMA StillKnows ==
    ASSUME NEW d \in Callers, KnowsState(d), KnowsPosture(d),
           pc'[d] = pc[d], wasDown'[d] = wasDown[d], answer'[d] = answer[d],
           fsmId'[d] = fsmId[d], aiStandup' = aiStandup,
           known'[d] => known[d] /\ fsm' = fsm,
           clean'[d] => clean[d] /\ up' = up
    PROVE  KnowsState(d)' /\ KnowsPosture(d)'
<1>1. KnowsState(d)'
  BY SMT DEF KnowsState, AsAnswered
<1>2. KnowsPosture(d)'
  <2>1. CASE clean'[d]
    <3>1. /\ pc'[d] = pc[d] /\ wasDown'[d] = wasDown[d]
          /\ aiStandup' = aiStandup /\ up' = up
      BY <2>1
    <3>2. clean[d]
      BY <2>1
    <3> HIDE DEF KnowsState
    <3>3. KnowsPosture(d)' <=> KnowsPosture(d)
      BY <2>1, <3>1, <3>2 DEF KnowsPosture
    <3>4. QED
      BY <3>3
  <2>2. QED
    BY <2>1 DEF KnowsPosture
<1>3. QED
  BY <1>1, <1>2

LEMMA EnterStep ==
    ASSUME NEW c \in Callers, NEW to \in {"query", "plainDamp", "squat"},
           PostureTypeOK, Knowledge, Enter(c, to),
           to = "query" => aiStandup,
           to = "plainDamp" => ~aiStandup
    PROVE  PostureTypeOK' /\ Knowledge'
<1>1. /\ pc' = [pc EXCEPT ![c] = to]
      /\ wasDown' = [wasDown EXCEPT ![c] = ~up]
      /\ answer' = [answer EXCEPT ![c] = Unread]
      /\ known' = [known EXCEPT ![c] = FALSE]
      /\ clean' = [clean EXCEPT ![c] = TRUE]
      /\ UNCHANGED <<aiStandup, fsmId, fsm, up>>
  BY DEF Enter, Goto
<1>2. PostureTypeOK'
  <2>1. Values'
    BY <1>1, Halves DEF Values
  <2>2. Flags' /\ Sunk'
    BY <1>1, Halves, Zenon DEF Flags, Sunk
  <2>3. QED
    BY <2>1, <2>2, Halves, Zenon
<1>3. ASSUME NEW d \in Callers
      PROVE  KnowsState(d)' /\ KnowsPosture(d)'
  <2>1. CASE d # c
    <3>1. pc'[d] = pc[d] /\ answer'[d] = answer[d]
      BY <1>1, <2>1, Halves DEF Values
    <3>2. wasDown'[d] = wasDown[d] /\ known'[d] = known[d] /\ clean'[d] = clean[d]
      BY <1>1, <2>1, Halves, Zenon DEF Flags
    <3>3. KnowsState(d) /\ KnowsPosture(d)
      BY DEF Knowledge
    <3>4. fsmId' = fsmId /\ aiStandup' = aiStandup /\ fsm' = fsm /\ up' = up
      BY <1>1
    <3>5. QED
      BY <3>1, <3>2, <3>3, <3>4, StillKnows
  <2>2. CASE d = c
    <3>1. pc'[d] = to
      BY <1>1, <2>2, Halves DEF Values
    <3>2. wasDown'[d] = ~up /\ ~known'[d]
      BY <1>1, <2>2, Halves, Zenon DEF Flags
    <3>3. up' = up /\ aiStandup' = aiStandup
      BY <1>1
    <3>4. up \in BOOLEAN
      BY Halves DEF Flags
    <3>5. QED
      BY <3>1, <3>2, <3>3, <3>4 DEF KnowsState, KnowsPosture
  <2>3. QED
    BY <2>1, <2>2
<1>4. QED
  BY <1>2, <1>3 DEF Knowledge

LEMMA CommandStep ==
    ASSUME NEW c \in Callers, NEW state \in FsmStates,
           NEW from \in Rungs \ {"idle"}, NEW to \in Rungs \ {"query", "damp", "ai", "plainDamp"},
           PostureTypeOK, Knowledge, Command(c, state, from, to),
           to = "requery" => state = DAMP /\ from = "damp",
           to = "toggle" => (from = "ai" /\ state = AI_MODE) \/ (from = "plainDamp" /\ state = DAMP),
           to = "stood" => from = "toggle" /\ state = TOGGLE
    PROVE  PostureTypeOK' /\ Knowledge'
<1>1. /\ pc[c] = from
      /\ pc' = [pc EXCEPT ![c] = to] \/ pc' = [pc EXCEPT ![c] = "idle"]
      /\ Obeyed(c, state) \/ Lost(c)
      /\ UNCHANGED <<aiStandup, fsmId, wasDown, answer>>
  BY DEF Command, Goto
<1>2. Flags /\ Values /\ Sunk
  BY Halves
<1>3. /\ Flags' /\ Sunk'
      /\ \A d \in Callers : known'[d] => known[d] \/ d = c
      /\ \A d \in Callers : clean'[d] => clean[d]
      /\ \A d \in Callers : (known'[d] \/ clean'[d]) /\ d # c => fsm' = fsm /\ up' = up
      /\ known'[c] \/ clean'[c] => Reach(state)
  BY <1>1, <1>2, ToldFlags
<1>4. PostureTypeOK'
  <2>1. fsm' \in FsmStates
    BY <1>1, <1>2 DEF Values, Obeyed, Lost, Reach
  <2>2. Values'
    BY <1>1, <1>2, <2>1 DEF Values
  <2>3. QED
    BY <1>3, <2>2, Halves, Zenon
<1>5. ASSUME NEW d \in Callers
      PROVE  KnowsState(d)' /\ KnowsPosture(d)'
  <2>0. KnowsState(d) /\ KnowsPosture(d)
    BY DEF Knowledge
  <2>1. CASE d # c
    <3>1. pc'[d] = pc[d] /\ wasDown'[d] = wasDown[d] /\ answer'[d] = answer[d] /\ fsmId'[d] = fsmId[d]
      BY <1>1, <1>2, <2>1 DEF Values
    <3>2. QED
      BY <1>1, <1>3, <2>0, <2>1, <3>1, StillKnows
  <2>2. CASE d = c
    <3>1. pc'[c] \in {to, "idle"}
      BY <1>1, <1>2 DEF Values
    <3>2. up \in BOOLEAN
      BY <1>2 DEF Flags
    <3>3. ASSUME Reach(state)
          PROVE  /\ fsm' = state
                 /\ state = TOGGLE => (up' <=> ~up)
                 /\ state = DAMP => ~up'
                 /\ state = AI_MODE => (up' <=> up)
      BY <3>2, <3>3, ReachFlags
    <3>4. KnowsState(c)'
      BY <1>3, <3>1, <3>3 DEF KnowsState
    <3>5. KnowsPosture(c)'
      BY <1>1, <1>3, <2>0, <2>2, <3>1, <3>3 DEF KnowsPosture
    <3>6. QED
      BY <2>2, <3>4, <3>5
  <2>3. QED
    BY <2>1, <2>2
<1>6. QED
  BY <1>4, <1>5 DEF Knowledge

LEMMA ReadStep ==
    ASSUME NEW c \in Callers, NEW seen \in FsmStates \cup {Unread},
           NEW from \in {"query", "requery"},
           NEW to \in {"idle", "damp", "ai", "toggle"}, NEW id \in FsmStates \cup {Unread},
           PostureTypeOK, Knowledge,
           Read(c, seen), Goto(c, from, to), fsmId' = [fsmId EXCEPT ![c] = id],
           to \in {"damp", "ai"} => id # Unread,
           to = "damp" => from = "query" /\ seen = ZERO_TORQUE,
           to = "ai" /\ seen = Unread => from = "requery" /\ id = DAMP,
           to = "ai" /\ seen = id => id # ZERO_TORQUE
    PROVE  PostureTypeOK' /\ Knowledge'
<1>1. /\ pc[c] = from /\ pc' = [pc EXCEPT ![c] = to]
      /\ \/ seen = fsm /\ known' = [known EXCEPT ![c] = TRUE]
         \/ seen = Unread /\ known' = known
      /\ answer' = [answer EXCEPT ![c] = seen]
      /\ UNCHANGED <<aiStandup, wasDown, clean, fsm, up>>
  BY DEF Read, Goto
<1>2. Flags /\ Values /\ Sunk
  BY Halves
<1>3. PostureTypeOK'
  <2>1. Values'
    BY <1>1, <1>2 DEF Values
  <2>2. known' \in [Callers -> BOOLEAN]
    <3>1. known \in [Callers -> BOOLEAN] /\ TRUE \in BOOLEAN
      BY <1>2 DEF Flags
    <3>2. known' = known \/ known' = [known EXCEPT ![c] = TRUE]
      BY <1>1
    <3>3. CASE known' = known
      BY <3>1, <3>3
    <3>4. CASE known' = [known EXCEPT ![c] = TRUE]
      BY <3>1, <3>4, OneReplaced
    <3>5. QED
      BY <3>2, <3>3, <3>4
  <2>3. Flags' /\ Sunk'
    <3>1. /\ aiStandup' = aiStandup /\ wasDown' = wasDown /\ clean' = clean
          /\ fsm' = fsm /\ up' = up
      BY <1>1
    <3>2. aiStandup \in BOOLEAN /\ up \in BOOLEAN
      BY <1>2 DEF Flags
    <3>3. wasDown \in [Callers -> BOOLEAN] /\ clean \in [Callers -> BOOLEAN]
      BY <1>2 DEF Flags
    <3>4. Flags'
      BY <2>2, <3>1, <3>2, <3>3 DEF Flags
    <3>5. Sunk'
      BY <1>2, <3>1 DEF Sunk
    <3>6. QED
      BY <3>4, <3>5
  <2>4. QED
    BY <2>1, <2>3, Halves, Zenon
<1>4. ASSUME NEW d \in Callers
      PROVE  KnowsState(d)' /\ KnowsPosture(d)'
  <2>0. KnowsState(d) /\ KnowsPosture(d)
    BY DEF Knowledge
  <2>1. CASE d # c
    <3>1. pc'[d] = pc[d] /\ fsmId'[d] = fsmId[d] /\ answer'[d] = answer[d]
      BY <1>1, <1>2, <2>1 DEF Values
    <3>2. known'[d] = known[d]
      BY <1>1, <1>2, <2>1 DEF Flags
    <3>3. QED
      BY <1>1, <2>0, <3>1, <3>2, StillKnows
  <2>2. CASE d = c
    <3>1. pc'[c] = to /\ fsmId'[c] = id /\ answer'[c] = seen
      BY <1>1, <1>2 DEF Values
    <3>2. known'[c] => seen = fsm \/ (seen = Unread /\ known[c])
      BY <1>1
    <3>3. KnowsState(c)'
      <4>1. to = "ai" /\ known'[c] /\ seen \in {id, Unread} => fsm = id /\ id # ZERO_TORQUE
        BY <1>1, <1>2, <2>0, <2>2, <3>2 DEF KnowsState, Values
      <4>2. QED
        BY <1>1, <3>1, <4>1 DEF KnowsState, AsAnswered
    <3>4. KnowsPosture(c)'
      <4>1. to = "damp" => ~up
        BY <1>1, <1>2 DEF Sunk
      <4>2. clean'[c] => clean[c]
        BY <1>1
      <4>3. QED
        BY <1>1, <2>0, <2>2, <3>1, <4>1, <4>2 DEF KnowsPosture
    <3>5. QED
      BY <2>2, <3>3, <3>4
  <2>3. QED
    BY <2>1, <2>2
<1>5. QED
  BY <1>3, <1>4 DEF Knowledge

-----------------------------------------------------------------------------
(* The types, and what every call knows of the robot, hold in every state.   *)
THEOREM PostureInvariant == PostureSpec => [](PostureTypeOK /\ Knowledge)
<1>1. PostureInit => PostureTypeOK /\ Knowledge
  <2> SUFFICES ASSUME PostureInit PROVE PostureTypeOK /\ Knowledge
    OBVIOUS
  <2>1. /\ wasDown \in [Callers -> BOOLEAN]
        /\ known \in [Callers -> BOOLEAN] /\ clean \in [Callers -> BOOLEAN]
        /\ \A c \in Callers : ~known[c] /\ ~clean[c]
    BY Zenon DEF PostureInit
  <2>2. up \in BOOLEAN /\ (up => fsm = AI_MODE)
    BY DEF PostureInit
  <2>3. Flags /\ Sunk
    BY <2>1, <2>2 DEF PostureInit, Flags, Sunk
  <2>4. Values
    BY DEF PostureInit, Values
  <2>5. QED
    BY <2>1, <2>3, <2>4, Halves, Zenon DEF Knowledge, KnowsState, KnowsPosture
<1>2. PostureTypeOK /\ Knowledge /\ [PostureNext]_postureVars => PostureTypeOK' /\ Knowledge'
  <2> SUFFICES ASSUME PostureTypeOK, Knowledge, [PostureNext]_postureVars
               PROVE  PostureTypeOK' /\ Knowledge'
    OBVIOUS
  <2>1. ASSUME NEW c \in Callers, StandUp(c) \/ LieDown(c)
        PROVE  PostureTypeOK' /\ Knowledge'
    BY <2>1, EnterStep DEF StandUp, LieDown
  <2>2. ASSUME NEW c \in Callers, Query(c)
        PROVE  PostureTypeOK' /\ Knowledge'
    <3>1. PICK seen \in FsmStates \cup {Unread} :
             /\ Read(c, seen)
             /\ fsmId' = [fsmId EXCEPT ![c] = seen]
             /\ Goto(c, "query", CASE seen = Unread      -> "idle"
                                   [] seen = ZERO_TORQUE -> "damp"
                                   [] seen = AI_MODE     -> "toggle"
                                   [] OTHER              -> "ai")
      BY <2>2 DEF Query
    <3>2. PICK to \in {"idle", "damp", "ai", "toggle"} :
             /\ Goto(c, "query", to)
             /\ to \in {"damp", "ai"} => seen # Unread
             /\ to = "damp" => seen = ZERO_TORQUE
             /\ to = "ai" => seen # ZERO_TORQUE
      BY <3>1
    <3>4. Read(c, seen) /\ fsmId' = [fsmId EXCEPT ![c] = seen]
      BY <3>1
    <3> HIDE DEF FsmStates, ZERO_TORQUE, DAMP, Unread
    <3>5. QED
      BY <3>2, <3>4, ReadStep
  <2>3. ASSUME NEW c \in Callers, Requery(c)
        PROVE  PostureTypeOK' /\ Knowledge'
    <3>1. PICK seen \in FsmStates \cup {Unread} :
             LET id == IF seen \in {Unread, ZERO_TORQUE} THEN DAMP ELSE seen IN
             /\ Read(c, seen)
             /\ fsmId' = [fsmId EXCEPT ![c] = id]
             /\ Goto(c, "requery", IF id = AI_MODE THEN "toggle" ELSE "ai")
      BY <2>3 DEF Requery
    <3> DEFINE id == IF seen \in {Unread, ZERO_TORQUE} THEN DAMP ELSE seen
               to == IF id = AI_MODE THEN "toggle" ELSE "ai"
    <3>2. id \in FsmStates /\ id # Unread /\ to \in {"idle", "damp", "ai", "toggle"}
      OBVIOUS
    <3>3. Read(c, seen) /\ fsmId' = [fsmId EXCEPT ![c] = id] /\ Goto(c, "requery", to)
      BY <3>1
    <3>4. (seen = Unread => id = DAMP) /\ id # ZERO_TORQUE /\ to # "damp"
      OBVIOUS
    <3>5. id # Unread /\ id \in FsmStates \cup {Unread}
      BY <3>2
    <3> HIDE DEF id, to, FsmStates, ZERO_TORQUE, DAMP, Unread
    <3>6. QED
      BY <3>2, <3>3, <3>4, <3>5, ReadStep
  <2>4. ASSUME NEW c \in Callers, EnableDamp(c)
        PROVE  PostureTypeOK' /\ Knowledge'
    BY <2>4, CommandStep DEF EnableDamp
  <2>5. ASSUME NEW c \in Callers, StartAi(c)
        PROVE  PostureTypeOK' /\ Knowledge'
    BY <2>5, CommandStep DEF StartAi
  <2>6. ASSUME NEW c \in Callers, PlainDamp(c)
        PROVE  PostureTypeOK' /\ Knowledge'
    BY <2>6, CommandStep DEF PlainDamp
  <2>7. ASSUME NEW c \in Callers, Squat2StandUp(c)
        PROVE  PostureTypeOK' /\ Knowledge'
    BY <2>7, CommandStep DEF Squat2StandUp
  <2>8. ASSUME NEW c \in Callers, StandUp2Squat(c)
        PROVE  PostureTypeOK' /\ Knowledge'
    BY <2>8, CommandStep DEF StandUp2Squat
  <2>9. ASSUME NEW c \in Callers, Damp(c)
        PROVE  PostureTypeOK' /\ Knowledge'
    BY <2>9, CommandStep DEF Damp
  <2>10. ASSUME NEW c \in Callers, Stood(c)
         PROVE  PostureTypeOK' /\ Knowledge'
    <3>1. PostureTypeOK'
      BY <2>10 DEF Stood, Goto, PostureTypeOK
    <3>2. Knowledge'
      BY <2>10 DEF Stood, Goto, PostureTypeOK, Knowledge, KnowsState, KnowsPosture, AsAnswered
    <3>3. QED
      BY <3>1, <3>2
  <2>11. ASSUME NEW c \in Callers, NEW state \in FsmStates, SetFsmId(c, state)
         PROVE  PostureTypeOK' /\ Knowledge'
    <3>1. /\ Obeyed(c, state) \/ Lost(c)
          /\ UNCHANGED <<aiStandup, pc, fsmId, wasDown, answer>> /\ pc[c] = "idle"
      BY <2>11 DEF SetFsmId
    <3>2. Flags /\ Values /\ Sunk
      BY Halves
    <3>3. /\ Flags' /\ Sunk'
          /\ \A d \in Callers : known'[d] => known[d] \/ d = c
          /\ \A d \in Callers : clean'[d] => clean[d]
          /\ \A d \in Callers : (known'[d] \/ clean'[d]) /\ d # c => fsm' = fsm /\ up' = up
      BY <3>1, <3>2, ToldFlags
    <3>4. PostureTypeOK'
      <4>1. fsm' \in FsmStates
        BY <3>1, <3>2 DEF Values, Obeyed, Lost, Reach
      <4>2. Values'
        BY <3>1, <3>2, <4>1 DEF Values
      <4>3. QED
        BY <3>3, <4>2, Halves, Zenon
    <3>5. ASSUME NEW d \in Callers
          PROVE  KnowsState(d)' /\ KnowsPosture(d)'
      <4>1. KnowsState(d) /\ KnowsPosture(d)
        BY DEF Knowledge
      <4>2. CASE d = c
        BY <3>1, <4>2 DEF KnowsState, KnowsPosture
      <4>3. CASE d # c
        BY <3>1, <3>3, <4>1, <4>3, StillKnows
      <4>4. QED
        BY <4>2, <4>3
    <3>6. QED
      BY <3>4, <3>5 DEF Knowledge
  <2>12. CASE UNCHANGED postureVars
    BY <2>12 DEF postureVars, PostureTypeOK, Knowledge, KnowsState, KnowsPosture, AsAnswered
  <2>13. QED
    BY <2>1, <2>2, <2>3, <2>4, <2>5, <2>6, <2>7, <2>8, <2>9, <2>10, <2>11, <2>12
       DEF PostureNext, PostureStep
<1>3. QED
  BY <1>1, <1>2, PTL DEF PostureSpec

(* stand_up starts AI mode from the state the robot is in and never from    *)
(* zero torque, whatever queries failed: only another caller's command, a   *)
(* damp the robot did not obey, or an answer that was overridden, break it. *)
THEOREM AiIsKnown == PostureSpec => []AiFromKnownState
<1>1. Knowledge => AiFromKnownState
  BY DEF Knowledge, KnowsState, AiFromKnownState
<1>2. QED
  BY <1>1, PostureInvariant, PTL

(* Where an obeyed stand_up leaves the robot: standing if it was down or     *)
(* was damped first, squatting if it stood.                                  *)
THEOREM StandUpGetsUp == PostureSpec => []GetsUp
<1>1. Knowledge => GetsUp
  BY DEF Knowledge, KnowsPosture, GetsUp
<1>2. QED
  BY <1>1, PostureInvariant, PTL
=============================================================================

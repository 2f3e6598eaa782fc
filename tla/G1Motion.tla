------------------------------ MODULE G1Motion ------------------------------
(***************************************************************************)
(* Velocity commands and the auto-stop timer of G1HighLevelDdsSdk          *)
(* (dds_sdk.py).  The methods run on any number of threads at once: the    *)
(* transport thread that delivers cmd_vel to move, RPC workers calling     *)
(* move, stop and publish_request, and the skill that calls move.  Nothing *)
(* is locked, so every read of self._stop_timer is a step of its own.      *)
(*                                                                         *)
(* The model starts after start() has built the clients.  A Timer is the   *)
(* number of the move that made it; NoTimer is Python's None.              *)
(***************************************************************************)
EXTENDS Naturals, G1Calls

CONSTANTS MaxMoves,  \* bound: move(duration = 0) calls in a behaviour
          Failures   \* which external calls may fail

Calls == {"Move", "SetVelocity", "StopMove", "StartTimer"}

ASSUME MotionAssumption ==
    /\ MaxMoves \in Nat
    /\ Failures \subseteq Calls

Timers  == 1 .. MaxMoves
NoTimer == 0

VARIABLES
    op,         \* the operation each caller is in (or was last in)
    held,       \* the Timer object a caller has loaded from self._stop_timer
    timerRef,   \* self._stop_timer
    phase,      \* threading.Timer: none, made, waiting, firing, done
    cancelled,  \* Timer.finished was set by cancel()
    motion,     \* what the robot executes: still, timed or continuous
    begun,      \* move(duration = 0) calls so far
    blind,      \* history: the last command that mattered was refused or lost
    quiet,      \* history: stop() had its effect and no motion was requested since
    overlapped  \* history: two callers were inside the methods at once

vars == <<pc, op, held, timerRef, phase, cancelled, motion, begun,
          blind, quiet, overlapped>>

timerVars  == <<timerRef, phase, cancelled>>
robotVars  == <<motion, blind>>
ghostVars  == <<quiet, overlapped>>

Ops == {"move", "moveFor", "stop", "velocity"}

Locations == {"idle", "check", "loadCancel", "cancel", "clear", "command",
              "create", "loadDaemon", "daemon", "loadStart", "start", "raised"}

Init ==
    /\ pc = [c \in Callers |-> "idle"]
    /\ op = [c \in Callers |-> "stop"]
    /\ held = [c \in Callers |-> NoTimer]
    /\ timerRef = NoTimer
    /\ phase = [t \in Timers |-> "none"]
    /\ cancelled = [t \in Timers |-> FALSE]
    /\ motion = "still"
    /\ begun = 0
    /\ blind = FALSE
    /\ quiet = TRUE
    /\ overlapped = FALSE

-----------------------------------------------------------------------------
(* Entering a method.  publish_request (api 7105) commands at once; move   *)
(* and stop cancel the pending timer first.                                *)

Begin(c, o) ==
    /\ Goto(c, "idle", IF o = "velocity" THEN "command" ELSE "check")
    /\ op' = [op EXCEPT ![c] = o]
    /\ IF o = "move" THEN begun < MaxMoves /\ begun' = begun + 1
                     ELSE UNCHANGED begun
    /\ quiet' = (quiet /\ o = "stop")
    /\ overlapped' = (overlapped \/ \E d \in Callers \ {c} : pc[d] # "idle")
    /\ UNCHANGED <<held, timerVars, robotVars>>

-----------------------------------------------------------------------------
(* _cancel_stop_timer: test, load, cancel, clear.                          *)

(* Mutants: no test for None; the pending timer is never cancelled.        *)
CheckTimerBlindly(c) ==
    /\ Goto(c, "check", "loadCancel")
    /\ UNCHANGED <<op, held, timerVars, robotVars, begun, ghostVars>>

CheckTimerSkipped(c) ==
    /\ Goto(c, "check", "command")
    /\ UNCHANGED <<op, held, timerVars, robotVars, begun, ghostVars>>

CheckTimer(c) ==
    /\ Goto(c, "check", IF timerRef = NoTimer THEN "command" ELSE "loadCancel")
    /\ UNCHANGED <<op, held, timerVars, robotVars, begun, ghostVars>>

(* self._stop_timer is read again before each use.  What is read may be None *)
(* by then: the use that follows raises.                                     *)
LoadTimer(c, from, to) ==
    /\ Goto(c, from, to)
    /\ held' = [held EXCEPT ![c] = timerRef]
    /\ UNCHANGED <<op, timerVars, robotVars, begun, ghostVars>>

UseNone(c, from, to) ==
    /\ held[c] = NoTimer
    /\ Goto(c, from, to)
    /\ UNCHANGED <<op, held, timerVars, robotVars, begun, ghostVars>>

LoadForCancel(c) == LoadTimer(c, "loadCancel", "cancel")

CancelTimer(c) ==
    \/ UseNone(c, "cancel", "raised")
    \/ /\ held[c] # NoTimer
       /\ Goto(c, "cancel", "clear")
       /\ cancelled' = [cancelled EXCEPT ![held[c]] = TRUE]
       /\ UNCHANGED <<op, held, timerRef, phase, robotVars, begun, ghostVars>>

ClearTimer(c) ==
    /\ Goto(c, "clear", "command")
    /\ timerRef' = NoTimer
    /\ UNCHANGED <<op, held, phase, cancelled, robotVars, begun, ghostVars>>

(* The AttributeError leaves move and stop: it is raised outside their try. *)
Raised(c) ==
    /\ Goto(c, "raised", "idle")
    /\ UNCHANGED <<op, held, timerVars, robotVars, begun, ghostVars>>

-----------------------------------------------------------------------------
(* The commands.  A call that fails may still have reached the robot.      *)

Accepted(effect) == motion' = effect /\ blind' = FALSE

Refused(call, effect) == call \in Failures /\ motion' \in {motion, effect}

(* Mutant: the move returns without arming a timer.                        *)
SendMoveUnarmed(c) ==
    /\ op[c] = "move"
    /\ Goto(c, "command", "idle")
    /\ Accepted("continuous")
    /\ UNCHANGED <<op, held, timerVars, begun, ghostVars>>

(* The code Move returns is not looked at: only an exception keeps the call  *)
(* from arming the timer.                                                    *)
SendMove(c) ==
    /\ op[c] = "move"
    /\ \/ Goto(c, "command", "create") /\ Accepted("continuous")
       \/ /\ Goto(c, "command", "create")
          /\ Refused("Move", "continuous")
          /\ blind' = FALSE
       \/ /\ Goto(c, "command", "idle")
          /\ Refused("Move", "continuous")
          /\ blind' = TRUE
    /\ UNCHANGED <<op, held, timerVars, begun, ghostVars>>

SendMoveFor(c) ==
    /\ op[c] = "moveFor"
    /\ Goto(c, "command", "idle")
    /\ \/ Accepted("timed")
       \/ Refused("SetVelocity", "timed") /\ blind' = TRUE
    /\ UNCHANGED <<op, held, timerVars, begun, ghostVars>>

(* The timer is not cancelled here, so a refusal leaves it in charge. *)
SendRequest(c) ==
    /\ op[c] = "velocity"
    /\ Goto(c, "command", "idle")
    /\ \/ Accepted("timed")
       \/ Refused("SetVelocity", "timed") /\ UNCHANGED blind
    /\ UNCHANGED <<op, held, timerVars, begun, ghostVars>>

(* Mutant: stop commands the robot only if it found a timer to cancel.     *)
SendStopIfTimer(c) ==
    /\ op[c] = "stop"
    /\ Goto(c, "command", "idle")
    /\ Accepted(IF held[c] = NoTimer THEN motion ELSE "still")
    /\ quiet' = (\A d \in Callers \ {c} : pc[d] = "idle" \/ op[d] = "stop")
    /\ UNCHANGED <<op, held, timerVars, begun, overlapped>>

SendStop(c) ==
    /\ op[c] = "stop"
    /\ Goto(c, "command", "idle")
    /\ \/ /\ Accepted("still")
          /\ quiet' = (\A d \in Callers \ {c} : pc[d] = "idle" \/ op[d] = "stop")
       \/ /\ Refused("StopMove", "still")
          /\ blind' = TRUE
          /\ UNCHANGED quiet
    /\ UNCHANGED <<op, held, timerVars, begun, overlapped>>

-----------------------------------------------------------------------------
(* Arming the timer: three statements, each reading self._stop_timer.      *)
(* What they raise is caught in move, which returns False.                 *)

CreateTimer(c) ==
    /\ Goto(c, "create", "loadDaemon")
    /\ \E t \in Timers :
          /\ phase[t] = "none"
          /\ \A u \in Timers : phase[u] = "none" => t <= u
          /\ timerRef' = t
          /\ phase' = [phase EXCEPT ![t] = "made"]
    /\ UNCHANGED <<op, held, cancelled, robotVars, begun, ghostVars>>

LoadForDaemon(c) == LoadTimer(c, "loadDaemon", "daemon")

(* The daemon flag of a thread that has started cannot be set. *)
SetDaemon(c) ==
    \/ UseNone(c, "daemon", "idle")
    \/ /\ held[c] # NoTimer
       /\ Goto(c, "daemon", IF phase[held[c]] = "made" THEN "loadStart" ELSE "idle")
       /\ UNCHANGED <<op, held, timerVars, robotVars, begun, ghostVars>>

LoadForStart(c) == LoadTimer(c, "loadStart", "start")

(* Mutant: the timer is made and never started.                            *)
StartTimerForgotten(c) ==
    /\ Goto(c, "start", "idle")
    /\ UNCHANGED <<op, held, timerVars, robotVars, begun, ghostVars>>

(* A Timer starts once; starting it may also fail for want of a thread. *)
StartTimer(c) ==
    \/ UseNone(c, "start", "idle")
    \/ /\ held[c] # NoTimer
       /\ Goto(c, "start", "idle")
       /\ \/ /\ phase[held[c]] = "made"
             /\ phase' = [phase EXCEPT ![held[c]] = "waiting"]
             /\ UNCHANGED blind
          \/ /\ phase[held[c]] = "made"
             /\ "StartTimer" \in Failures
             /\ blind' = TRUE
             /\ UNCHANGED phase
          \/ /\ phase[held[c]] # "made"
             /\ UNCHANGED <<phase, blind>>
       /\ UNCHANGED <<op, held, timerRef, cancelled, motion, begun, ghostVars>>

-----------------------------------------------------------------------------
(* The timer's own thread, and the end of a timed motion.                  *)

Expire(t) ==
    /\ phase[t] = "waiting"
    /\ phase' = [phase EXCEPT ![t] = IF cancelled[t] THEN "done" ELSE "firing"]
    /\ UNCHANGED <<pc, op, held, timerRef, cancelled, robotVars, begun, ghostVars>>

(* auto_stop logs a failure and does not retry. *)
AutoStop(t) ==
    /\ phase[t] = "firing"
    /\ phase' = [phase EXCEPT ![t] = "done"]
    /\ \/ Accepted("still")
       \/ Refused("StopMove", "still") /\ blind' = TRUE
    /\ UNCHANGED <<pc, op, held, timerRef, cancelled, begun, ghostVars>>

TimedEnd ==
    /\ motion = "timed"
    /\ motion' = "still"
    /\ UNCHANGED <<pc, op, held, timerVars, begun, blind, ghostVars>>

-----------------------------------------------------------------------------
Step(c) ==
    \/ CheckTimer(c) \/ LoadForCancel(c) \/ CancelTimer(c) \/ ClearTimer(c)
    \/ Raised(c)
    \/ SendMove(c) \/ SendMoveFor(c) \/ SendRequest(c) \/ SendStop(c)
    \/ CreateTimer(c) \/ LoadForDaemon(c) \/ SetDaemon(c)
    \/ LoadForStart(c) \/ StartTimer(c)

TimerStep(t) == Expire(t) \/ AutoStop(t)

Next ==
    \/ \E c \in Callers, o \in Ops : Begin(c, o)
    \/ \E c \in Callers : Step(c)
    \/ \E t \in Timers : TimerStep(t)
    \/ TimedEnd

(* A method that was entered runs on, and a Timer's wait is finite. Nobody  *)
(* is obliged to call a method.                                             *)
Fairness ==
    /\ \A c \in Callers : WF_vars(Step(c))
    /\ \A t \in Timers : WF_vars(TimerStep(t))

Spec == Init /\ [][Next]_vars /\ Fairness

-----------------------------------------------------------------------------
(* The types; a Timer that is referenced or cancelled has been made.        *)
TypeOK ==
    /\ pc \in [Callers -> Locations]
    /\ op \in [Callers -> Ops]
    /\ held \in [Callers -> Timers \cup {NoTimer}]
    /\ timerRef \in Timers \cup {NoTimer}
    /\ phase \in [Timers -> {"none", "made", "waiting", "firing", "done"}]
    /\ cancelled \in [Timers -> BOOLEAN]
    /\ motion \in {"still", "timed", "continuous"}
    /\ begun \in 0 .. MaxMoves
    /\ blind \in BOOLEAN
    /\ quiet \in BOOLEAN
    /\ overlapped \in BOOLEAN
    /\ \A c \in Callers : held[c] # NoTimer => phase[held[c]] # "none"
    /\ timerRef # NoTimer => phase[timerRef] # "none"
    /\ \A t \in Timers : cancelled[t] => phase[t] # "none"

(* A timer that will still stop the robot. *)
Live(t) == phase[t] = "firing" \/ (phase[t] = "waiting" /\ ~cancelled[t])

(* A caller that has taken the timer away or has just moved the robot, and *)
(* has yet to command it or to arm the next timer.                         *)
Committed(c) ==
    \/ pc[c] \in {"clear", "create", "loadDaemon", "daemon", "loadStart", "start"}
    \/ pc[c] = "command" /\ op[c] # "velocity"

(* The robot never runs on unattended: while it executes a continuous Move, *)
(* a timer will stop it or a caller is on its way to command it again or to *)
(* arm one, whatever the interleaving of move, stop and publish_request.    *)
(* The one exception is a command the robot refused after the timer was     *)
(* taken away (blind).                                                      *)
DeadMan ==
    motion = "continuous" /\ ~blind =>
        (\E t \in Timers : Live(t)) \/ (\E c \in Callers : Committed(c))

(* Once a stop() took effect with no move or velocity request in flight,    *)
(* the robot stays still until one is made: no timer left behind and no     *)
(* later stop() sets it moving.                                             *)
StopHolds == quiet => motion = "still"

(* While calls do not overlap, no timer outlives its move: every timer that *)
(* can still fire is the one in self._stop_timer, or has passed its check.  *)
OneTimer ==
    ~overlapped =>
        \A t \in Timers : phase[t] = "waiting" /\ ~cancelled[t] => t = timerRef

(* While calls do not overlap, _cancel_stop_timer never raises. *)
SerialCancel == ~overlapped => \A c \in Callers : pc[c] # "raised"

(* _cancel_stop_timer does what its docstring says, "Cancel and clear any   *)
(* pending auto-stop timer", on any thread: it never raises instead.        *)
CancelNeverRaises == \A c \in Callers : pc[c] # "raised"

(* Commands end, so a continuous motion ends, unless a command was refused. *)
MotionEnds == motion = "continuous" ~> (motion # "continuous" \/ blind)
=============================================================================

--------------------------------- MODULE MCG1 ---------------------------------
(***************************************************************************)
(* Both halves of the G1 SDK for TLC.  The same threads call them, and     *)
(* they share no state but that: a session is of one half, the other       *)
(* stands still.                                                           *)
(***************************************************************************)
EXTENDS G1Motion, G1Posture

VARIABLE half   \* of the SDK, motion or posture

postureOwn == <<aiStandup, fsmId, fsmVars, historyVars>>
motionOwn  == <<op, held, timerVars, robotVars, begun, ghostVars>>

SdkInit ==
    /\ Init /\ PostureInit
    /\ half \in {"motion", "posture"}
    /\ half = "motion" => aiStandup /\ fsm = DAMP

Motion  == half = "motion" /\ Next /\ UNCHANGED <<half, postureOwn>>
Posture == half = "posture" /\ PostureNext /\ UNCHANGED <<half, motionOwn>>

SdkNext == Motion \/ Posture

SdkSpec == SdkInit /\ [][SdkNext]_<<vars, postureVars, half>> /\ Fairness
=============================================================================

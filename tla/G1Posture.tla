----------------------------- MODULE G1Posture ------------------------------
(***************************************************************************)
(* The posture commands of G1HighLevelDdsSdk (dds_sdk.py): stand_up climbs *)
(* a ladder of FSM states with a query before it, lie_down squats and      *)
(* damps, publish_request (api 7101) sets any FSM state.  They sleep       *)
(* between their commands and hold no lock, so calls from several threads  *)
(* interleave at every command.                                            *)
(*                                                                         *)
(* The robot is external.  It is in the FSM state last accepted; damping   *)
(* or zero torque lets it sink; the toggle swaps squatting and standing.   *)
(***************************************************************************)
EXTENDS Naturals, G1Calls

CONSTANT Failing   \* robot calls may be refused, raise, or not answer

ASSUME PostureAssumption == Failing \in BOOLEAN

(* FsmState.  Unread stands for the None of a query that failed. *)
ZERO_TORQUE == 0
DAMP        == 1
SIT         == 3
AI_MODE     == 200
TOGGLE      == 706
FsmStates   == {ZERO_TORQUE, DAMP, SIT, AI_MODE, TOGGLE}
Unread      == 1000

VARIABLES
    aiStandup,  \* config.ai_standup
    fsmId,      \* local variable fsm_id of each stand_up
    fsm, up,    \* the robot: its FSM state, and whether it stands
    wasDown,    \* history: the robot was down when the caller's call began
    answer,     \* history: what the robot answered the caller's last query
    known,      \* history: the robot is where the caller last saw or sent it
    clean       \* history: since the call began the robot did what the caller
                \* told it, and nobody else told it anything

fsmVars   == <<fsm, up>>
historyVars == <<wasDown, answer, known, clean>>
postureVars == <<aiStandup, pc, fsmId, fsmVars, historyVars>>

Rungs == {"idle", "query", "damp", "requery", "ai", "plainDamp", "toggle", "stood",
              "squat", "lie"}

PostureInit ==
    /\ aiStandup \in BOOLEAN
    /\ pc = [c \in Callers |-> "idle"]
    /\ fsmId = [c \in Callers |-> Unread]
    /\ wasDown = [c \in Callers |-> FALSE]
    /\ answer = [c \in Callers |-> Unread]
    /\ known = [c \in Callers |-> FALSE]
    /\ clean = [c \in Callers |-> FALSE]
    /\ fsm \in FsmStates \ {TOGGLE}
    /\ up \in {FALSE, fsm = AI_MODE}

Enter(c, to) ==
    /\ Goto(c, "idle", to)
    /\ wasDown' = [wasDown EXCEPT ![c] = ~up]
    /\ answer' = [answer EXCEPT ![c] = Unread]
    /\ known' = [known EXCEPT ![c] = FALSE]
    /\ clean' = [clean EXCEPT ![c] = TRUE]
    /\ UNCHANGED <<aiStandup, fsmId, fsmVars>>

-----------------------------------------------------------------------------
(* What the robot makes of a command.                                      *)

Reach(state) ==
    /\ fsm' = state
    /\ up' = IF state = TOGGLE THEN ~up ELSE up /\ state \notin {ZERO_TORQUE, DAMP}

(* The command has reached the robot: what another caller knew is stale.    *)
Obeyed(c, state) ==
    /\ Reach(state)
    /\ known' = [d \in Callers |-> d = c]
    /\ clean' = [d \in Callers |-> d = c /\ clean[d]]

Lost(c) ==
    /\ Failing
    /\ known' = [known EXCEPT ![c] = FALSE]
    /\ clean' = [clean EXCEPT ![c] = FALSE]
    /\ UNCHANGED fsmVars

(* One statement that commands the robot: the return code is not looked at, *)
(* and an exception ends the call, whether or not the robot obeyed.        *)
Command(c, state, from, to) ==
    /\ Obeyed(c, state) \/ Lost(c)
    /\ Goto(c, from, to) \/ (Failing /\ Goto(c, from, "idle"))
    /\ UNCHANGED <<aiStandup, fsmId, wasDown, answer>>

(* _get_fsm_id: what the caller sees is what the robot answered, or None.   *)
Read(c, seen) ==
    /\ \/ seen = fsm /\ known' = [known EXCEPT ![c] = TRUE]
       \/ Failing /\ seen = Unread /\ UNCHANGED known
    /\ answer' = [answer EXCEPT ![c] = seen]
    /\ UNCHANGED <<aiStandup, wasDown, clean, fsmVars>>

-----------------------------------------------------------------------------
(* stand_up                                                                *)

StandUp(c) == Enter(c, IF aiStandup THEN "query" ELSE "plainDamp")

(* Mutant: zero torque is not looked for.                                  *)
QueryForAiOnly(c) ==
    \E seen \in FsmStates \cup {Unread} :
        /\ Read(c, seen)
        /\ fsmId' = [fsmId EXCEPT ![c] = seen]
        /\ Goto(c, "query", CASE seen = Unread  -> "idle"
                              [] seen = AI_MODE -> "toggle"
                              [] OTHER          -> "ai")

Query(c) ==
    \E seen \in FsmStates \cup {Unread} :
        /\ Read(c, seen)
        /\ fsmId' = [fsmId EXCEPT ![c] = seen]
        /\ Goto(c, "query", CASE seen = Unread      -> "idle"
                              [] seen = ZERO_TORQUE -> "damp"
                              [] seen = AI_MODE     -> "toggle"
                              [] OTHER              -> "ai")

EnableDamp(c) == Command(c, DAMP, "damp", "requery")

(* self._get_fsm_id() or FsmState.DAMP: an answer of 0 is replaced as well. *)
Requery(c) ==
    \E seen \in FsmStates \cup {Unread} :
        LET id == IF seen \in {Unread, ZERO_TORQUE} THEN DAMP ELSE seen IN
        /\ Read(c, seen)
        /\ fsmId' = [fsmId EXCEPT ![c] = id]
        /\ Goto(c, "requery", IF id = AI_MODE THEN "toggle" ELSE "ai")

StartAi(c) == Command(c, AI_MODE, "ai", "toggle")

PlainDamp(c) == Command(c, DAMP, "plainDamp", "toggle")

(* Mutant: the last rung of the ladder is left out. *)
SkipSquat2StandUp(c) ==
    /\ Goto(c, "toggle", "stood")
    /\ UNCHANGED <<aiStandup, fsmId, fsmVars, historyVars>>

Squat2StandUp(c) ==
    Command(c, TOGGLE, "toggle", "stood")

Stood(c) ==
    /\ Goto(c, "stood", "idle")
    /\ UNCHANGED <<aiStandup, fsmId, fsmVars, historyVars>>

-----------------------------------------------------------------------------
(* lie_down and publish_request                                            *)

LieDown(c) == Enter(c, "squat")

StandUp2Squat(c) == Command(c, TOGGLE, "squat", "lie")

Damp(c) == Command(c, DAMP, "lie", "idle")

(* One command: the call is over when it is made. *)
SetFsmId(c, state) ==
    /\ pc[c] = "idle"
    /\ Obeyed(c, state) \/ Lost(c)
    /\ UNCHANGED <<aiStandup, pc, fsmId, wasDown, answer>>

-----------------------------------------------------------------------------
PostureStep(c) ==
    \/ Query(c) \/ EnableDamp(c) \/ Requery(c) \/ StartAi(c) \/ PlainDamp(c)
    \/ Squat2StandUp(c) \/ Stood(c)
    \/ StandUp2Squat(c) \/ Damp(c)

PostureNext == \E c \in Callers :
    \/ StandUp(c) \/ LieDown(c) \/ PostureStep(c)
    \/ \E state \in FsmStates : SetFsmId(c, state)

PostureSpec == PostureInit /\ [][PostureNext]_postureVars

-----------------------------------------------------------------------------
PostureTypeOK ==
    /\ aiStandup \in BOOLEAN
    /\ pc \in [Callers -> Rungs]
    /\ fsmId \in [Callers -> FsmStates \cup {Unread}]
    /\ fsm \in FsmStates /\ up \in BOOLEAN
    /\ wasDown \in [Callers -> BOOLEAN]
    /\ answer \in [Callers -> FsmStates \cup {Unread}]
    /\ known \in [Callers -> BOOLEAN]
    /\ clean \in [Callers -> BOOLEAN]
    /\ \A c \in Callers : pc[c] \in {"damp", "ai"} => fsmId[c] # Unread
    /\ up => fsm \notin {ZERO_TORQUE, DAMP}

(* The state the caller goes by is the one the robot answered, or the robot *)
(* did not answer.                                                          *)
AsAnswered(c) == answer[c] \in {fsmId[c], Unread}

(* When stand_up starts AI mode, the robot is in the state stand_up goes by *)
(* and not in zero torque, whatever queries failed.  Exactly three things   *)
(* break this: another caller commanded the robot since it was last seen or *)
(* commanded; it did not obey the damp (both ~known); it answered the       *)
(* second query and the answer was overridden (~AsAnswered).                *)
AiFromKnownState ==
    \A c \in Callers :
        pc[c] = "ai" /\ known[c] /\ AsAnswered(c) => fsm = fsmId[c] /\ fsm # ZERO_TORQUE

(* Where a stand_up that returns True leaves the robot, if it obeyed the    *)
(* commands and no other caller commanded it: on its feet if it was down,   *)
(* or if it was damped first (ai_standup off); a robot that stood already,  *)
(* by a stand_up whose reply was lost for instance, is squatted.            *)
GetsUp ==
    \A c \in Callers :
        pc[c] = "stood" /\ clean[c] => (up <=> wasDown[c] \/ ~aiStandup)
=============================================================================

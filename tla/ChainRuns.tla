----------------------------- MODULE ChainRuns ------------------------------
(***************************************************************************)
(* The benchmark as an operator runs it: the two environment contracts     *)
(* (config/env), a shell runner of scripts/bench around pingpong.py        *)
(* (module BenchRun), and the files it leaves in its artifact folder.      *)
(*                                                                         *)
(* A folder belongs to a runner and a topology and outlives its runs; a    *)
(* run may be interrupted at any step.  A session is about one folder.  Of *)
(* a file the model keeps its status and the run that wrote it.            *)
(***************************************************************************)
EXTENDS BenchRun

CONSTANT Runs      \* bound: runs of a session

ASSUME RunsAssumption == Runs \in Nat \ {0}

Env     == [rmw : {"unset", "fastrtps", "cyclonedds"}, domain : {"unset", "0", "42"},
            profile : BOOLEAN]
Bare    == [rmw |-> "unset", domain |-> "unset", profile |-> FALSE]
Scripts == {"run_chain_a", "run_chain_b", "run_cross_host_a"}
Folders == {f \in Scripts \X Topologies :
                f[1] = "run_cross_host_a" => f[2] = "cross-host-UDP"}
NoFile  == 0

(* Bound: a session is either looked at in detail or has several runs. *)
RunsOf(d) == IF d THEN 1 ELSE Runs

VARIABLES
    folder,    \* the runner and the topology of this session
    detail,    \* whether pingpong.py is taken statement by statement
    shell,     \* the variables of the operator's shell
    count,     \* runs so far
    runner,    \* the script that runs: its environment and what it still does
    raw,       \* raw.json: its run and status, and the cases' results
    envMd,     \* environment.md: besides, whether it says that chain_a.sh was
               \* sourced, and whether the environment of the run was that
    summary,   \* summary.md
    note       \* the run that wrote BLOCKED.txt

sessionVars == <<folder, detail>>
scriptVars  == <<sessionVars, shell, count, runner>>
fileVars    == <<raw, envMd, summary, note>>
vars == <<benchVars, scriptVars, fileVars>>

NoRunner == [env |-> Bare, todo |-> <<>>, blocked |-> FALSE, pytest |-> 0, rc |-> 0,
             active |-> FALSE]
NoRaw    == [run |-> NoFile, status |-> "none", rows |-> <<>>]
NoText   == [run |-> NoFile, status |-> "none"]
NoEnvMd  == [run |-> NoFile, status |-> "none", sourced |-> FALSE, contract |-> FALSE]

Script == folder[1]
Chain  == IF Script = "run_chain_b" THEN "B" ELSE "A"

SessionInit ==
    /\ Idle
    /\ folder \in Folders /\ detail \in BOOLEAN
    /\ shell = Bare /\ count = 0 /\ runner = NoRunner
    /\ raw = NoRaw /\ envMd = NoEnvMd /\ summary = NoText /\ note = NoFile

-----------------------------------------------------------------------------
(* The contracts: chain_a.sh and chain_b.sh, apply_chain_a and              *)
(* apply_chain_b.  Chain B leaves the Fast DDS profile of chain A alone.   *)

ApplyA(e) == [e EXCEPT !.rmw = "fastrtps", !.domain = "42", !.profile = TRUE]
ApplyB(e) == [e EXCEPT !.rmw = "cyclonedds", !.domain = "0"]

AtPrompt == ~runner.active

SourceChain ==
    /\ AtPrompt /\ count < RunsOf(detail)
    /\ shell' \in {ApplyA(shell), ApplyB(shell)}
    /\ UNCHANGED <<benchVars, sessionVars, count, runner, fileVars>>

(* Exports of the operator's own, and a new shell. *)
Export ==
    /\ AtPrompt /\ count < RunsOf(detail)
    /\ shell' \in {Bare, [shell EXCEPT !.rmw = "fastrtps"], [shell EXCEPT !.domain = "0"]}
    /\ UNCHANGED <<benchVars, sessionVars, count, runner, fileVars>>

-----------------------------------------------------------------------------
(* What a script will do, in its order.                                    *)

(* "If the caller did not already": all that is looked at is whether the    *)
(* variables are set.                                                      *)
Set(e) == "unset" \notin {e.rmw, e.domain}

(* run_chain_a.sh looks at two of the three variables, run_cross_host_a.sh  *)
(* at all of them, run_chain_b.sh at none.                                 *)
Contract(e) ==
    IF \/ Script = "run_chain_a" /\ ~Set(e)
       \/ Script = "run_cross_host_a" /\ (~Set(e) \/ ~e.profile)
    THEN ApplyA(e) ELSE e

Enter(e, todo, blocked) ==
    /\ AtPrompt
    /\ count < RunsOf(detail)
    /\ count' = count + 1
    /\ runner' = [NoRunner EXCEPT !.active = TRUE, !.env = e, !.todo = todo,
                                  !.blocked = blocked]
    /\ UNCHANGED <<benchVars, sessionVars, shell, fileVars>>

(* run_chain_a.sh does not try a second machine, whatever the shell has. *)
SingleHost == folder = <<"run_chain_a", "cross-host-UDP">>

RunSingleHost == SingleHost /\ Enter(shell, <<"ping", "env", "summary", "note">>, TRUE)

(* Everything the script looks for is there. *)
RunMeasure ==
    ~SingleHost /\ Enter(Contract(shell), <<"pytest", "ping", "env", "summary">>, FALSE)

(* ROS is missing; no DimOS tree can be imported; no role, peer or ROS. *)
RunWithoutRos ==
    /\ Script = "run_chain_a" /\ ~SingleHost
    /\ Enter(Contract(shell), <<"env", "raw", "summary", "note">>, TRUE)

RunWithoutTree ==
    /\ Script = "run_chain_b"
    /\ Enter(Contract(shell), <<"env", "raw", "summary">>, TRUE)

RunWithoutPeer ==
    /\ Script = "run_cross_host_a"
    /\ Enter(Contract(shell), <<"ping", "env", "summary", "note">>, TRUE)

Doing(step) ==
    /\ runner.todo # <<>>
    /\ Head(runner.todo) = step

Rest == Tail(runner.todo)

(* pytest may fail; its exit code is kept.  The cross-host runner has none. *)
Pytest ==
    /\ Doing("pytest")
    /\ \E rc \in {0, 1} :
        /\ Script = "run_cross_host_a" => rc = 0
        /\ runner' = [runner EXCEPT !.todo = Rest, !.pytest = rc]
    /\ UNCHANGED <<benchVars, sessionVars, shell, count, fileVars>>

(* Only run_cross_host_a.sh names a peer, whose qos may be that of any cases. *)
Peer    == Script = "run_cross_host_a" /\ ~runner.blocked
Job     == [chain |-> Chain, topology |-> folder[2], peer |-> Peer]
Remotes == IF Peer THEN SUBSET CaseIds ELSE {{}}

StartPing ==
    /\ Doing("ping") /\ detail
    /\ \E r \in Remotes : Launch(Job, r)
    /\ UNCHANGED <<scriptVars, fileVars>>

RawOf(s, rs) == [run |-> count, status |-> s, rows |-> rs]

(* A step of pingpong.py; its last one writes raw.json. *)
PingStep ==
    /\ Bench
    /\ raw' = IF at' = "done" THEN RawOf(status', rows') ELSE raw
    /\ UNCHANGED <<scriptVars, envMd, summary, note>>

(* pingpong.py in one step: any report that is allowed. *)
Ping ==
    /\ Doing("ping") /\ ~detail
    /\ \E r \in Remotes, rs \in {<<>>} \cup [CaseIds -> Results], s \in Statuses, e \in 0 .. 2 :
        /\ ReportAllowed(Job, r, rs, s, e)
        /\ raw' = RawOf(s, rs)
        /\ runner' = [runner EXCEPT !.todo = Rest, !.rc = e]
    /\ UNCHANGED <<benchVars, sessionVars, shell, count, envMd, summary, note>>

BenchReset ==
    /\ at' = "off" /\ job' = NoJob /\ remote' = {} /\ case' = 1 /\ result' = "error"
    /\ context' = FALSE /\ nodes' = {} /\ stopping' = {} /\ spinning' = {} /\ unclean' = {}
    /\ buses' = {} /\ responders' = {} /\ killed' = {}
    /\ rows' = <<>> /\ status' = "none" /\ exit' = -1

PingExits ==
    /\ Doing("ping") /\ at = "done"
    /\ runner' = [runner EXCEPT !.todo = Rest, !.rc = exit]
    /\ BenchReset
    /\ UNCHANGED <<sessionVars, shell, count, fileVars>>

(* pingpong.py ends without a report: bad arguments, no memory, a signal. *)
PingCrashes ==
    /\ Doing("ping")
    /\ detail => at \notin {"off", "done"}
    /\ runner' = [runner EXCEPT !.todo = Rest, !.rc = 1]
    /\ BenchReset
    /\ UNCHANGED <<sessionVars, shell, count, fileVars>>

(* Mutant: the exit code of pingpong.py is not looked at. *)
ScriptStatusByPytest ==
    IF runner.blocked THEN "blocked" ELSE IF runner.pytest # 0 THEN "partial" ELSE "ok"

ScriptStatus ==
    IF runner.blocked \/ runner.rc # 0 THEN "blocked"
    ELSE IF runner.pytest # 0 THEN "partial" ELSE "ok"

(* The notes that run_chain_a.sh gives to collect_env.py after measuring    *)
(* name the contract of chain A.                                           *)
CollectEnv ==
    /\ Doing("env")
    /\ envMd' = [run |-> count, status |-> ScriptStatus,
                 sourced |-> Script = "run_chain_a" /\ ~runner.blocked,
                 contract |-> runner.env = ApplyA(runner.env)]
    /\ runner' = [runner EXCEPT !.todo = Rest]
    /\ UNCHANGED <<benchVars, sessionVars, shell, count, raw, summary, note>>

WriteBlockedRaw ==
    /\ Doing("raw")
    /\ raw' = RawOf("blocked", <<>>)
    /\ runner' = [runner EXCEPT !.todo = Rest]
    /\ UNCHANGED <<benchVars, sessionVars, shell, count, envMd, summary, note>>

(* The summary repeats the status of whatever raw.json is there.  Without   *)
(* one it says so and fails, which ends the script.                        *)
WriteSummary ==
    /\ Doing("summary")
    /\ summary' = [run |-> count,
                   status |-> IF raw = NoRaw THEN "blocked" ELSE raw.status]
    /\ runner' = [runner EXCEPT !.todo = IF raw = NoRaw THEN <<>> ELSE Rest]
    /\ UNCHANGED <<benchVars, sessionVars, shell, count, raw, envMd, note>>

WriteNote ==
    /\ Doing("note")
    /\ note' = count
    /\ runner' = [runner EXCEPT !.todo = Rest]
    /\ UNCHANGED <<benchVars, sessionVars, shell, count, raw, envMd, summary>>

Exit ==
    /\ runner.active /\ runner.todo = <<>>
    /\ runner' = NoRunner
    /\ UNCHANGED <<benchVars, sessionVars, shell, count, fileVars>>

(* The operator's interrupt, or a helper that fails under set -e. *)
Interrupt ==
    /\ runner.todo # <<>>
    /\ runner' = NoRunner
    /\ BenchReset
    /\ UNCHANGED <<sessionVars, shell, count, fileVars>>

-----------------------------------------------------------------------------
ScriptStep ==
    \/ Pytest \/ StartPing \/ PingExits \/ Ping
    \/ CollectEnv \/ WriteBlockedRaw \/ WriteSummary \/ WriteNote \/ Exit

Operator ==
    \/ SourceChain \/ Export
    \/ RunSingleHost \/ RunMeasure \/ RunWithoutRos \/ RunWithoutTree \/ RunWithoutPeer
    \/ PingCrashes \/ Interrupt

Next == PingStep \/ ScriptStep \/ Operator

(* The scripts and the main thread of pingpong.py run on. *)
Fairness ==
    /\ WF_vars(PingStep /\ Main)
    /\ WF_vars(ScriptStep)

Spec == SessionInit /\ [][Next]_vars /\ Fairness

-----------------------------------------------------------------------------
TypeOK ==
    /\ BenchTypeOK
    /\ folder \in Folders /\ detail \in BOOLEAN
    /\ shell \in Env
    /\ count \in 0 .. Runs
    /\ runner.env \in Env /\ {runner.active, runner.blocked} \subseteq BOOLEAN
    /\ {raw.status, envMd.status, summary.status} \subseteq Statuses \cup {"none"}
    /\ {raw.run, envMd.run, summary.run, note} \subseteq 0 .. count

(* The notes of environment.md say "Sourced chain_a.sh" and name its values *)
(* (run_chain_a.sh:212).  The code violates it in a shell that has the      *)
(* variables of chain B.                                                   *)
NotesTrue == envMd.sourced => envMd.contract

(* A script that got to its end leaves files that agree: the summary has    *)
(* the status of raw.json; an environment.md that is not blocked stands     *)
(* beside a report of this very run with samples in it, and a blocked note  *)
(* of this run beside no samples of this run.                              *)
FilesAgree ==
    runner.active /\ runner.todo = <<>> =>
        /\ envMd.run = count /\ summary.run = count
        /\ raw # NoRaw => summary.status = raw.status
        /\ envMd.status # "blocked" =>
                /\ raw.run = count
                /\ \E k \in DOMAIN raw.rows : raw.rows[k] = "sampled"
        /\ note = count => ~(raw.run = count /\ raw.status # "blocked")

(* Every run gives the prompt back, whether or not a responder dies when    *)
(* told to and a spin thread ends.                                         *)
RunsEnd == ~AtPrompt ~> AtPrompt
=============================================================================

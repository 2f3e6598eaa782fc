--------------------------- MODULE ChainRunsProofs ---------------------------
(***************************************************************************)
(* Proofs, for any number of cases and of runs, that a case of pingpong.py *)
(* leaves to the next no more than what a failed teardown left up, that    *)
(* the report says what happened, and that the files of a run agree.       *)
(***************************************************************************)
EXTENDS ChainRuns, SequenceTheorems, TLAPS

-----------------------------------------------------------------------------
(* One run of pingpong.py.                                                 *)

OnA == job.chain = "A"

Crosses == job.topology = "cross-host-UDP"

OffInv == at = "off" => Idle

(* Which statements belong to which chain and to which topology.            *)
PathInv ==
    /\ at \in {"init", "node", "spin", "stopspin", "join", "destroy", "shutdown"} => OnA
    /\ at \in {"bus", "stopbus"} => ~OnA
    /\ at \in {"spawn", "poll", "terminate", "reap"} => job.topology = "same-host"
    /\ at = "refuse" => Crosses /\ ~job.peer /\ rows = <<>>
    /\ at \notin {"off", "refuse", "done"} => (Crosses => job.peer)

(* Where the fixtures of chain A live: with the case under way, or since a  *)
(* teardown that raised, after which no case was without an error.  Who    *)
(* ends a spin thread.                                                      *)
LeftBy(k) == \A i \in k .. Len(rows) : rows[i] = "error"

ContextInv ==
    context => /\ OnA
               /\ \/ at \in {"node", "spin", "measure", "stopspin", "join", "destroy",
                             "shutdown"}
                  \/ /\ at \in {"terminate", "reap", "row"} => result = "error"
                     /\ \E k \in unclean : LeftBy(k)

RosInv ==
    /\ \A k \in nodes \ unclean :
           k = case /\ OnA /\ at \in {"spin", "measure", "stopspin", "join", "destroy"}
    /\ \A k \in spinning \ stopping : k = case /\ OnA /\ at \in {"measure", "stopspin"}

(* A responder that was not killed is that of the case under way.           *)
ResponderInv ==
    \A k \in responders \ killed :
        k = case /\ job.topology = "same-host"
                 /\ at \notin {"off", "refuse", "case", "spawn", "row", "report", "done"}

(* A bus is left by a case with an error, or it is that of the case under   *)
(* way, which will have one unless its loop ends.                           *)
Raised(k) == k \in DOMAIN rows /\ rows[k] = "error"

BusInv ==
    \A k \in buses : \/ Raised(k)
                     \/ /\ k = case /\ ~OnA
                        /\ \/ at \in {"measure", "stopbus"}
                           \/ at \in {"terminate", "reap", "row"} /\ result = "error"

(* The rows of the cases that are over, and what the next one may say.      *)
RowInv ==
    /\ at \notin {"report", "done"} => Len(rows) = case - 1
    /\ at = "report" => Len(rows) = Cases
    /\ at \in {"spawn", "poll", "init", "node", "spin", "bus", "measure"} => result = "error"
    /\ Crosses => \A k \in DOMAIN rows : rows[k] = "sampled" => k \in remote
    /\ Crosses /\ result = "sampled" /\ at \notin {"case", "report", "done"} => case \in remote

BenchInv ==
    /\ BenchTypeOK /\ OffInv /\ PathInv /\ ContextInv /\ RosInv /\ ResponderInv /\ BusInv
    /\ RowInv /\ StatusHonest

-----------------------------------------------------------------------------
(* The runner around it.                                                    *)

(* What a script has left to do, when it measures and when it is blocked.   *)
Todos(blocked) ==
    IF blocked
    THEN {<<"ping", "env", "summary", "note">>, <<"env", "summary", "note">>,
          <<"summary", "note">>, <<"note">>, <<>>,
          <<"env", "raw", "summary", "note">>, <<"raw", "summary", "note">>,
          <<"env", "raw", "summary">>, <<"raw", "summary">>, <<"summary">>}
    ELSE {<<"pytest", "ping", "env", "summary">>, <<"ping", "env", "summary">>,
          <<"env", "summary">>, <<"summary">>, <<>>}

RunnerInv ==
    /\ runner \in [env : Env, todo : Todos(runner.blocked), blocked : BOOLEAN,
                   pytest : {0, 1}, rc : 0 .. 2, active : BOOLEAN]
    /\ ~runner.active => runner = NoRunner
    /\ runner.active /\ runner.blocked /\ Doing("ping") => folder[2] = "cross-host-UDP"

(* pingpong.py runs while its script waits for it, and writes raw.json.     *)
CallInv ==
    /\ at # "off" => detail /\ Doing("ping") /\ job = Job
    /\ at = "done" => raw = RawOf(status, rows)

(* What the files say at each point of the script.                          *)
AfterPing    == {<<"env", "summary">>, <<"summary">>, <<>>}
AfterEnv     == {<<"summary", "note">>, <<"note">>, <<>>, <<"summary">>,
                 <<"raw", "summary", "note">>, <<"raw", "summary">>}
AfterSummary == {<<"note">>, <<>>}

HasSamples == \E k \in DOMAIN raw.rows : raw.rows[k] = "sampled"

FileInv ==
    runner.active =>
        /\ runner.todo \in AfterPing /\ ~runner.blocked /\ runner.rc = 0 =>
                raw.run = count /\ HasSamples
        /\ runner.todo \in AfterEnv => envMd.run = count /\ envMd.status = ScriptStatus
        /\ runner.todo \in AfterSummary =>
                summary.run = count /\ (raw # NoRaw => summary.status = raw.status)
        /\ runner.blocked /\ raw.run = count => raw.status = "blocked"
        /\ note = count => runner.blocked

Inv == TypeOK /\ BenchInv /\ RunnerInv /\ CallInv /\ FileInv

USE CasesAssumption, RunsAssumption
    DEF CaseIds, Chains, Topologies, Results, Statuses, Jobs, Step, rosVars, processVars,
        reportVars, benchVars

-----------------------------------------------------------------------------
(* The steps of pingpong.py keep its invariant.                             *)

LEMMA MainTypes ==
    ASSUME BenchTypeOK, Main
    PROVE  BenchTypeOK'
<1> USE DEF BenchTypeOK, Client, Cleanup, AfterLoop
<1>1. CASE Refuse \/ BeginCase \/ Spawn \/ SpawnFails \/ Poll
  BY <1>1 DEF Refuse, BeginCase, Spawn, SpawnFails, Poll
<1>2. CASE EnsureInit \/ EnsureShutdown
  <2>1. context' \in BOOLEAN
    BY <1>2 DEF EnsureInit, EnsureShutdown
  <2>2. QED
    BY <1>2, <2>1 DEF EnsureInit, EnsureShutdown, Torn
<1>3. CASE CreateNode \/ StartSpin \/ StopSpin \/ JoinSpin
  BY <1>3 DEF CreateNode, StartSpin, StopSpin, JoinSpin
<1>4. CASE DestroyNode
  BY <1>4 DEF DestroyNode, Torn
<1>5. CASE StartBus \/ StopBus
  BY <1>5 DEF StartBus, StopBus
<1>6. CASE Measure \/ MeasureFails \/ Terminate \/ Reap
  BY <1>6 DEF Measure, MeasureFails, Terminate, Reap
<1>7. CASE EndCase
  <2>1. rows' \in Seq(Results)
    BY <1>7, AppendProperties DEF EndCase
  <2>2. QED
    BY <1>7, <2>1 DEF EndCase
<1>8. CASE Report
  BY <1>8 DEF Report, Status
<1>9. QED
  BY <1>1, <1>2, <1>3, <1>4, <1>5, <1>6, <1>7, <1>8 DEF Main

LEMMA MainPath ==
    ASSUME BenchTypeOK, PathInv, Main
    PROVE  PathInv'
<1> USE DEF BenchTypeOK, PathInv, OnA, Crosses, Client, Cleanup, AfterLoop
<1>1. CASE Refuse \/ BeginCase \/ Spawn \/ SpawnFails \/ Poll \/ EndCase
           \/ Report
  BY <1>1 DEF Refuse, BeginCase, Spawn, SpawnFails, Poll, EndCase, Report
<1>2. CASE EnsureInit \/ CreateNode \/ StartSpin \/ StopSpin
  BY <1>2 DEF EnsureInit, CreateNode, StartSpin, StopSpin
<1>3. CASE JoinSpin \/ DestroyNode \/ EnsureShutdown
  BY <1>3 DEF JoinSpin, DestroyNode, EnsureShutdown, Torn
<1>4. CASE StartBus \/ StopBus
  BY <1>4 DEF StartBus, StopBus
<1>5. CASE Measure \/ MeasureFails \/ Terminate \/ Reap
  BY <1>5 DEF Measure, MeasureFails, Terminate, Reap
<1>6. QED
  BY <1>1, <1>2, <1>3, <1>4, <1>5 DEF Main

(* The context stays up only while no case ends without an error.           *)
LEMMA MainContext ==
    ASSUME BenchTypeOK, PathInv, RowInv, ContextInv, Main
    PROVE  ContextInv'
<1> USE DEF BenchTypeOK, OnA, Client, Cleanup, AfterLoop
<1>1. CASE EndCase
  <2>1. /\ rows' = Append(rows, result) /\ at = "row" /\ at' \in {"case", "report"}
        /\ Len(rows) = case - 1 /\ rows \in Seq(Results) /\ result \in Results
        /\ case \in Nat /\ Len(rows) \in Nat
        /\ context' = context /\ job' = job /\ unclean' = unclean
    BY <1>1 DEF EndCase, RowInv
  <2>2. /\ Len(rows') = case /\ rows'[case] = result
        /\ \A i \in 1 .. Len(rows) : rows'[i] = rows[i]
    BY <2>1, AppendProperties
  <2>3. ASSUME NEW k \in unclean, LeftBy(k), result = "error"
        PROVE  LeftBy(k)'
    <3>1. k \in 1 .. Cases
      BY <2>3
    <3>2. ASSUME NEW i \in k .. Len(rows')
          PROVE  rows'[i] = "error"
      <4>1. CASE i = case
        BY <2>2, <2>3, <4>1
      <4>2. CASE i # case
        <5>1. i \in k .. Len(rows) /\ i \in 1 .. Len(rows)
          BY <2>1, <2>2, <3>1, <3>2, <4>2
        <5>2. QED
          BY <2>2, <2>3, <5>1 DEF LeftBy
      <4>3. QED
        BY <4>1, <4>2
    <3>3. QED
      BY <3>2 DEF LeftBy
  <2>4. QED
    BY <2>1, <2>3 DEF ContextInv
<1>2. CASE DestroyNode \/ EnsureShutdown
  <2>1. /\ rows' = rows /\ job' = job /\ case' = case /\ at \in {"destroy", "shutdown"}
        /\ \/ at' = "shutdown"
           \/ ~context'
           \/ result' = "error" /\ case \in unclean'
    BY <1>2 DEF DestroyNode, EnsureShutdown, Torn
  <2>2. Len(rows) = case - 1 /\ case \in Nat /\ OnA
    BY <2>1 DEF RowInv, PathInv
  <2>3. LeftBy(case)'
    BY <2>1, <2>2 DEF LeftBy
  <2>4. QED
    BY <2>1, <2>2, <2>3 DEF ContextInv
<1>3. CASE Refuse \/ BeginCase \/ Spawn \/ SpawnFails \/ Poll \/ Report
  <2>1. /\ UNCHANGED <<rows, job, context, unclean>>
        /\ at' # "reap" /\ at \in {"refuse", "case", "spawn", "poll", "report"}
        /\ at' \in {"terminate", "row"} => result' = "error"
    BY <1>3 DEF Refuse, BeginCase, Spawn, SpawnFails, Poll, Report, RowInv
  <2>2. QED
    BY <2>1 DEF ContextInv, LeftBy
<1>4. CASE EnsureInit
  <2>1. /\ at = "init" /\ result = "error" /\ UNCHANGED <<rows, job, unclean, result>>
        /\ at' = "node" \/ (context' = context /\ at' = Cleanup)
        /\ OnA
    BY <1>4 DEF EnsureInit, RowInv, PathInv
  <2>2. QED
    BY <2>1 DEF ContextInv, LeftBy
<1>5. CASE CreateNode \/ StartSpin \/ StopSpin \/ JoinSpin
  <2>1. /\ UNCHANGED <<rows, job, context, unclean>> /\ OnA
        /\ at' \in {"spin", "stopspin", "measure", "join", "destroy"}
    BY <1>5 DEF CreateNode, StartSpin, StopSpin, JoinSpin, PathInv
  <2>2. QED
    BY <2>1 DEF ContextInv
<1>6. CASE StartBus \/ StopBus
  <2>1. UNCHANGED <<job, context>> /\ ~OnA
    BY <1>6 DEF StartBus, StopBus, PathInv
  <2>2. QED
    BY <2>1 DEF ContextInv
<1>7. CASE Measure \/ MeasureFails
  <2>1. UNCHANGED <<job, context>> /\ (OnA => at' = "stopspin")
    BY <1>7 DEF Measure, MeasureFails
  <2>2. QED
    BY <2>1 DEF ContextInv
<1>8. CASE Terminate \/ Reap
  <2>1. /\ UNCHANGED <<rows, job, context, unclean, result>>
        /\ at \in {"terminate", "reap"} /\ at' \in {"reap", "row"}
    BY <1>8 DEF Terminate, Reap
  <2>2. QED
    BY <2>1 DEF ContextInv, LeftBy
<1>9. QED
  BY <1>1, <1>2, <1>3, <1>4, <1>5, <1>6, <1>7, <1>8 DEF Main

LEMMA MainRos ==
    ASSUME BenchTypeOK, PathInv, RosInv, Main
    PROVE  RosInv'
<1> USE DEF BenchTypeOK, PathInv, RosInv, OnA, Crosses, Client, Cleanup, AfterLoop
<1>1. CASE Refuse \/ BeginCase \/ Spawn \/ SpawnFails \/ Poll \/ EndCase
           \/ Report
  BY <1>1 DEF Refuse, BeginCase, Spawn, SpawnFails, Poll, EndCase, Report
<1>2. CASE EnsureInit \/ CreateNode \/ StartSpin \/ StopSpin
  BY <1>2 DEF EnsureInit, CreateNode, StartSpin, StopSpin
<1>3. CASE JoinSpin \/ DestroyNode \/ EnsureShutdown
  BY <1>3 DEF JoinSpin, DestroyNode, EnsureShutdown, Torn
<1>4. CASE StartBus \/ StopBus
  BY <1>4 DEF StartBus, StopBus
<1>5. CASE Measure \/ MeasureFails \/ Terminate \/ Reap
  BY <1>5 DEF Measure, MeasureFails, Terminate, Reap
<1>6. QED
  BY <1>1, <1>2, <1>3, <1>4, <1>5 DEF Main

LEMMA MainResponder ==
    ASSUME BenchTypeOK, PathInv, ResponderInv, Main
    PROVE  ResponderInv'
<1> USE DEF BenchTypeOK, PathInv, ResponderInv, OnA, Crosses, Client, Cleanup, AfterLoop
<1>1. CASE Refuse \/ BeginCase \/ Spawn \/ SpawnFails \/ Poll \/ EndCase
           \/ Report
  BY <1>1 DEF Refuse, BeginCase, Spawn, SpawnFails, Poll, EndCase, Report
<1>2. CASE EnsureInit \/ CreateNode \/ StartSpin \/ StopSpin
  BY <1>2 DEF EnsureInit, CreateNode, StartSpin, StopSpin
<1>3. CASE JoinSpin \/ DestroyNode \/ EnsureShutdown
  BY <1>3 DEF JoinSpin, DestroyNode, EnsureShutdown, Torn
<1>4. CASE StartBus \/ StopBus
  BY <1>4 DEF StartBus, StopBus
<1>5. CASE Measure \/ MeasureFails \/ Terminate \/ Reap
  BY <1>5 DEF Measure, MeasureFails, Terminate, Reap
<1>6. QED
  BY <1>1, <1>2, <1>3, <1>4, <1>5 DEF Main

LEMMA MainBuses ==
    ASSUME BenchTypeOK, PathInv, BusInv, RowInv, Main
    PROVE  BusInv'
<1> USE DEF BenchTypeOK, PathInv, BusInv, OnA, Client, Cleanup, AfterLoop
<1>1. CASE Measure \/ MeasureFails \/ StartBus \/ StopBus
  BY <1>1 DEF Measure, MeasureFails, StartBus, StopBus, RowInv, Raised
<1>2. CASE EndCase
  <2>1. /\ rows' = Append(rows, result) /\ at = "row" /\ buses' = buses
        /\ Len(rows) = case - 1 /\ rows \in Seq(Results) /\ result \in Results
        /\ case \in Nat /\ Len(rows) \in Nat
    BY <1>2 DEF EndCase, RowInv
  <2>2. /\ DOMAIN rows' = DOMAIN rows \cup {case} /\ rows'[case] = result
        /\ \A k \in DOMAIN rows : rows'[k] = rows[k]
    BY <2>1, AppendProperties
  <2>3. ASSUME NEW k \in buses
        PROVE  Raised(k)'
    <3>1. CASE Raised(k)
      BY <2>2, <3>1 DEF Raised
    <3>2. CASE k = case /\ result = "error"
      BY <2>2, <3>2 DEF Raised
    <3>3. QED
      BY <2>1, <3>1, <3>2
  <2>4. QED
    BY <2>1, <2>3
<1>3. CASE Refuse \/ BeginCase \/ Spawn \/ SpawnFails \/ Poll \/ Report
  BY <1>3 DEF Refuse, BeginCase, Spawn, SpawnFails, Poll, Report, Raised
<1>4. CASE EnsureInit \/ CreateNode \/ StartSpin \/ StopSpin
  BY <1>4 DEF EnsureInit, CreateNode, StartSpin, StopSpin, Raised
<1>5. CASE JoinSpin \/ DestroyNode \/ EnsureShutdown
  BY <1>5 DEF JoinSpin, DestroyNode, EnsureShutdown, Torn, Raised
<1>6. CASE Terminate \/ Reap
  BY <1>6 DEF Terminate, Reap, Raised
<1>7. QED
  BY <1>1, <1>2, <1>3, <1>4, <1>5, <1>6 DEF Main

(* Samples are of a case that was answered.                                 *)
LEMMA MainRows ==
    ASSUME BenchTypeOK, PathInv, RowInv, Main
    PROVE  RowInv'
<1> USE DEF BenchTypeOK, PathInv, RowInv, OnA, Crosses, Client, Cleanup, AfterLoop
<1>1. CASE EndCase
  <2>1. /\ rows' = Append(rows, result) /\ at = "row"
        /\ Len(rows) = case - 1 /\ rows \in Seq(Results) /\ result \in Results
        /\ case \in Nat /\ Len(rows) \in Nat /\ UNCHANGED <<job, remote, result>>
        /\ \/ case < Cases /\ case' = case + 1 /\ at' = "case"
           \/ case = Cases /\ case' = case /\ at' = "report"
    BY <1>1 DEF EndCase
  <2>2. /\ DOMAIN rows' = DOMAIN rows \cup {case} /\ rows'[case] = result
        /\ \A k \in DOMAIN rows : rows'[k] = rows[k]
        /\ Len(rows') = case
    BY <2>1, AppendProperties
  <2>3. Crosses' => \A k \in DOMAIN rows' : rows'[k] = "sampled" => k \in remote'
    BY <2>1, <2>2
  <2>4. QED
    BY <2>1, <2>2, <2>3
<1>2. CASE Measure \/ MeasureFails
  BY <1>2 DEF Measure, MeasureFails, Answered
<1>3. CASE Refuse \/ BeginCase \/ Spawn \/ SpawnFails \/ Poll \/ Report
  BY <1>3 DEF Refuse, BeginCase, Spawn, SpawnFails, Poll, Report
<1>4. CASE EnsureInit \/ CreateNode \/ StartSpin \/ StopSpin
  BY <1>4 DEF EnsureInit, CreateNode, StartSpin, StopSpin
<1>5. CASE JoinSpin \/ DestroyNode \/ EnsureShutdown
  BY <1>5 DEF JoinSpin, DestroyNode, EnsureShutdown, Torn
<1>6. CASE StartBus \/ StopBus \/ Terminate \/ Reap
  BY <1>6 DEF StartBus, StopBus, Terminate, Reap
<1>7. QED
  BY <1>1, <1>2, <1>3, <1>4, <1>5, <1>6 DEF Main

(* The report says which of its cases have samples, and the exit code       *)
(* whether one has.                                                         *)
LEMMA MainHonest ==
    ASSUME BenchTypeOK, PathInv, RowInv, Main
    PROVE  StatusHonest'
<1> USE DEF BenchTypeOK, PathInv, StatusHonest, ReportAllowed, Crosses
<1>1. CASE Refuse
  BY <1>1 DEF Refuse
<1>2. CASE Report
  <2>1. /\ at = "report" /\ status' = Status
        /\ exit' = IF Status \in {"ok", "partial"} THEN 0 ELSE 1
        /\ UNCHANGED <<job, remote, rows>>
    BY <1>2 DEF Report
  <2>2. rows \in [CaseIds -> Results] /\ DOMAIN rows = CaseIds
    BY <2>1, LenProperties DEF RowInv
  <2>3. /\ Crosses => job.peer
        /\ \A k \in CaseIds : rows[k] = "sampled" /\ Crosses => k \in remote
    BY <2>1, <2>2 DEF RowInv
  <2>4. "error" \in {rows[k] : k \in CaseIds} <=> Has("error")
    BY <2>2 DEF Has
  <2>5. Has("sampled") <=> \E k \in CaseIds : rows[k] = "sampled"
    BY <2>2 DEF Has
  <2>6. /\ exit' = 0 <=> Has("sampled")
        /\ exit' = 0 => status' = IF Has("error") THEN "partial" ELSE "ok"
        /\ exit' # 0 => exit' = 1 /\ status' = "blocked"
    BY <2>1 DEF Status
  <2>7. ReportAllowed(job, remote, rows, status', exit')
    BY <2>2, <2>3, <2>4, <2>5, <2>6
  <2>8. QED
    BY <2>1, <2>7
<1>3. CASE Main /\ ~Refuse /\ ~Report
  <2>1. at' # "done"
    BY <1>3 DEF Main, BeginCase, Spawn, SpawnFails, Poll, EnsureInit, CreateNode,
                StartSpin, StopSpin, JoinSpin, DestroyNode, EnsureShutdown, StartBus,
                StopBus, Measure, MeasureFails, Terminate, Reap, EndCase, Client,
                Cleanup, AfterLoop, Torn
  <2>2. QED
    BY <2>1
<1>4. QED
  BY <1>1, <1>2, <1>3

LEMMA BenchKeeps ==
    ASSUME BenchInv, Bench
    PROVE  BenchInv' /\ at # "off" /\ UNCHANGED <<job, remote>>
<1>1. CASE Main
  <2>1. at # "off" /\ at' # "off" /\ UNCHANGED <<job, remote>>
    BY <1>1 DEF Main, Refuse, BeginCase, Spawn, SpawnFails, Poll, EnsureInit, CreateNode,
                StartSpin, StopSpin, JoinSpin, DestroyNode, EnsureShutdown, StartBus,
                StopBus, Measure, MeasureFails, Terminate, Reap, EndCase, Report, Client,
                Cleanup, AfterLoop, Torn
  <2>2. QED
    BY <1>1, <2>1, MainTypes, MainPath, MainContext, MainRos, MainResponder, MainBuses, MainRows,
       MainHonest DEF BenchInv, OffInv
<1>2. ASSUME NEW k \in CaseIds, ResponderDies(k) \/ SpinEnds(k)
      PROVE  BenchInv' /\ at # "off" /\ UNCHANGED <<job, remote>>
  <2>1. /\ UNCHANGED <<at, job, remote, case, result, context, nodes, stopping, unclean,
                       buses, killed, reportVars>>
        /\ responders' \subseteq responders /\ spinning' \subseteq spinning
        /\ at # "off"
    BY <1>2 DEF ResponderDies, SpinEnds, BenchInv, OffInv, Idle
  <2>2. BenchTypeOK' /\ PathInv'
    BY <2>1 DEF BenchInv, BenchTypeOK, PathInv, Crosses, OnA
  <2>3. ContextInv' /\ RosInv' /\ ResponderInv'
    BY <2>1 DEF BenchInv, ContextInv, LeftBy, RosInv, ResponderInv, OnA
  <2>4. BusInv' /\ RowInv'
    BY <2>1 DEF BenchInv, BusInv, RowInv, OnA, Crosses, Raised
  <2>5. StatusHonest' /\ OffInv'
    BY <2>1 DEF BenchInv, StatusHonest, OffInv
  <2>6. QED
    BY <2>1, <2>2, <2>3, <2>4, <2>5 DEF BenchInv
<1>3. QED
  BY <1>1, <1>2 DEF Bench, Others

LEMMA IdleKeeps == Idle => BenchInv
<1> SUFFICES ASSUME Idle
             PROVE  BenchInv
  OBVIOUS
<1> USE DEF Idle
<1>1. BenchTypeOK
  <2>1. job \in Jobs
    BY DEF NoJob
  <2>2. rows \in Seq(Results)
    OBVIOUS
  <2>3. context \in BOOLEAN
    OBVIOUS
  <2>4. QED
    BY <2>1, <2>2, <2>3 DEF BenchTypeOK
<1>2. OffInv /\ PathInv /\ ContextInv /\ RosInv /\ ResponderInv /\ BusInv
  BY DEF OffInv, PathInv, ContextInv, RosInv, ResponderInv, BusInv
<1>3. RowInv /\ StatusHonest
  BY DEF RowInv, StatusHonest, Crosses
<1>4. QED
  BY <1>1, <1>2, <1>3 DEF BenchInv

LEMMA LaunchKeeps ==
    ASSUME BenchInv, NEW j \in Jobs, NEW r \in SUBSET CaseIds, Launch(j, r)
    PROVE  BenchInv' /\ at' \notin {"off", "done"} /\ job' = j
<1>1. /\ Idle /\ job' = j /\ remote' = r
      /\ at' = IF j.topology = "cross-host-UDP" /\ ~j.peer THEN "refuse" ELSE "case"
      /\ UNCHANGED <<case, result, rosVars, buses, processVars, reportVars>>
  BY DEF Launch, BenchInv, OffInv
<1> USE DEF Idle
<1>2. BenchTypeOK'
  BY <1>1 DEF BenchInv, BenchTypeOK
<1>3. PathInv'
  BY <1>1 DEF PathInv, Crosses
<1>4. OffInv' /\ ContextInv' /\ RosInv' /\ ResponderInv' /\ BusInv'
  BY <1>1 DEF OffInv, ContextInv, RosInv, ResponderInv, BusInv
<1>5. RowInv' /\ StatusHonest'
  BY <1>1 DEF RowInv, StatusHonest, Crosses
<1>6. QED
  BY <1>1, <1>2, <1>3, <1>4, <1>5 DEF BenchInv

(* The processes and threads of a case that is over were told to end, and   *)
(* a node, a context or a bus is left only by one that failed.              *)
LEMMA CleanEnough == BenchInv => CleanStart
<1>1. SUFFICES ASSUME BenchInv, at \in {"case", "report", "done"}
               PROVE  /\ nodes \subseteq unclean
                      /\ context => \E k \in unclean :
                                         \A i \in k .. Len(rows) : rows[i] = "error"
                      /\ spinning \subseteq stopping
                      /\ responders \subseteq killed
                      /\ \A k \in buses : rows[k] = "error"
  BY DEF CleanStart
<1>2. /\ nodes \subseteq unclean /\ spinning \subseteq stopping
      /\ context => \E k \in unclean : \A i \in k .. Len(rows) : rows[i] = "error"
  BY <1>1 DEF BenchInv, ContextInv, LeftBy, RosInv
<1>3. responders \subseteq killed
  BY <1>1 DEF BenchInv, ResponderInv
<1>4. \A k \in buses : rows[k] = "error"
  BY <1>1 DEF BenchInv, BusInv, Raised
<1>5. QED
  BY <1>2, <1>3, <1>4

-----------------------------------------------------------------------------
(* What is left to do gets shorter, and a part of it is reached in order.   *)

LEMMA Tails ==
    ASSUME NEW a, NEW b, NEW c, NEW d
    PROVE  /\ Tail(<<a>>) = <<>> /\ Tail(<<a, b>>) = <<b>>
           /\ Tail(<<a, b, c>>) = <<b, c>> /\ Tail(<<a, b, c, d>>) = <<b, c, d>>
OBVIOUS

LEMMA TodoSteps ==
    ASSUME NEW b \in BOOLEAN, NEW t \in Todos(b), t # <<>>
    PROVE  /\ Tail(t) \in Todos(b)
           /\ ~b /\ Tail(t) \in AfterPing => t \in AfterPing \/ Head(t) = "ping"
           /\ Tail(t) \in AfterEnv => t \in AfterEnv \/ Head(t) = "env"
           /\ Tail(t) \in AfterSummary => t \in AfterSummary \/ Head(t) = "summary"
           /\ Tail(t) # <<>> /\ Head(Tail(t)) = "ping" => ~b
<1> USE DEF Todos, AfterPing, AfterEnv, AfterSummary
<1>1. CASE ~b /\ t = <<"pytest", "ping", "env", "summary">>
  <2>1. Tail(t) = <<"ping", "env", "summary">>
    BY <1>1, Tails
  <2>2. QED
    BY <1>1, <2>1
<1>2. CASE ~b /\ t = <<"ping", "env", "summary">>
  <2>1. Tail(t) = <<"env", "summary">>
    BY <1>2, Tails
  <2>2. QED
    BY <1>2, <2>1
<1>3. CASE ~b /\ t = <<"env", "summary">>
  <2>1. Tail(t) = <<"summary">>
    BY <1>3, Tails
  <2>2. QED
    BY <1>3, <2>1
<1>4. CASE b /\ t = <<"ping", "env", "summary", "note">>
  <2>1. Tail(t) = <<"env", "summary", "note">>
    BY <1>4, Tails
  <2>2. QED
    BY <1>4, <2>1
<1>5. CASE b /\ t = <<"env", "summary", "note">>
  <2>1. Tail(t) = <<"summary", "note">>
    BY <1>5, Tails
  <2>2. QED
    BY <1>5, <2>1
<1>6. CASE b /\ t = <<"summary", "note">>
  <2>1. Tail(t) = <<"note">>
    BY <1>6, Tails
  <2>2. QED
    BY <1>6, <2>1
<1>7. CASE b /\ t = <<"note">>
  <2>1. Tail(t) = <<>>
    BY <1>7, Tails
  <2>2. QED
    BY <1>7, <2>1
<1>8. CASE b /\ t = <<"env", "raw", "summary", "note">>
  <2>1. Tail(t) = <<"raw", "summary", "note">>
    BY <1>8, Tails
  <2>2. QED
    BY <1>8, <2>1
<1>9. CASE b /\ t = <<"raw", "summary", "note">>
  <2>1. Tail(t) = <<"summary", "note">>
    BY <1>9, Tails
  <2>2. QED
    BY <1>9, <2>1
<1>10. CASE b /\ t = <<"env", "raw", "summary">>
  <2>1. Tail(t) = <<"raw", "summary">>
    BY <1>10, Tails
  <2>2. QED
    BY <1>10, <2>1
<1>11. CASE b /\ t = <<"raw", "summary">>
  <2>1. Tail(t) = <<"summary">>
    BY <1>11, Tails
  <2>2. QED
    BY <1>11, <2>1
<1>12. CASE t = <<"summary">>
  <2>1. Tail(t) = <<>>
    BY <1>12, Tails
  <2>2. QED
    BY <1>12, <2>1
<1>13. QED
  BY <1>1, <1>2, <1>3, <1>4, <1>5, <1>6, <1>7, <1>8, <1>9, <1>10, <1>11, <1>12

LEMMA TodoHeads ==
    ASSUME NEW b \in BOOLEAN, NEW t \in Todos(b), t # <<>>
    PROVE  /\ Head(t) \in {"pytest", "ping"} =>
                  t \notin AfterPing \cup AfterEnv \cup AfterSummary
           /\ Head(t) = "pytest" => ~b
           /\ Head(t) = "env" => t \notin AfterEnv \cup AfterSummary
           /\ Head(t) = "raw" => b /\ t \in AfterEnv \ AfterSummary
           /\ Head(t) = "summary" => t \in AfterEnv \ AfterSummary /\ (b \/ t \in AfterPing)
           /\ Head(t) = "note" => b /\ t \in AfterEnv \cap AfterSummary
BY DEF Todos, AfterPing, AfterEnv, AfterSummary

-----------------------------------------------------------------------------
(* Chains and reports.                                                      *)

LEMMA ContractTypes ==
    ASSUME shell \in Env
    PROVE  ApplyA(shell) \in Env /\ ApplyB(shell) \in Env /\ Contract(shell) \in Env
BY DEF Env, ApplyA, ApplyB, Contract

(* The report of a run that a script waits for: nothing is measured when    *)
(* the script is blocked.                                                   *)
LEMMA RawHolds ==
    ASSUME RunnerInv, Doing("ping"), NEW r, NEW rs, NEW s, NEW e,
           ReportAllowed(Job, r, rs, s, e), raw' = RawOf(s, rs)
    PROVE  /\ raw'.run = count /\ raw'.status = s /\ s \in Statuses /\ e \in 0 .. 2
           /\ runner.blocked => s = "blocked"
           /\ e = 0 => \E k \in DOMAIN raw'.rows : raw'.rows[k] = "sampled"
<1>1. raw'.run = count /\ raw'.status = s /\ raw'.rows = rs
  BY DEF RawOf
<1>2. s \in Statuses /\ e \in 0 .. 2
  BY DEF ReportAllowed
<1>3. runner.active
  BY DEF RunnerInv, Doing, NoRunner
<1>4. ASSUME runner.blocked
      PROVE  s = "blocked"
  BY <1>3, <1>4 DEF RunnerInv, ReportAllowed, Job, Peer
<1>5. ASSUME e = 0
      PROVE  \E k \in DOMAIN rs : rs[k] = "sampled"
  BY <1>5 DEF ReportAllowed
<1>6. QED
  BY <1>1, <1>2, <1>4, <1>5

-----------------------------------------------------------------------------
(* The steps of the runners.                                                *)

LEMMA ResetKeeps == BenchReset => BenchInv' /\ at' = "off"
<1>1. Idle' => BenchInv'
  BY IdleKeeps, PTL
<1>2. BenchReset => Idle'
  BY DEF BenchReset, Idle
<1>3. QED
  BY <1>1, <1>2 DEF BenchReset

LEMMA BenchStays ==
    ASSUME BenchInv, UNCHANGED benchVars
    PROVE  BenchInv'
<1>1. BenchTypeOK' /\ OffInv' /\ PathInv' /\ ContextInv' /\ RosInv'
  BY DEF BenchInv, BenchTypeOK, OffInv, Idle, PathInv, ContextInv, LeftBy, RosInv, OnA, Crosses
<1>2. ResponderInv' /\ BusInv' /\ RowInv' /\ StatusHonest'
  BY DEF BenchInv, ResponderInv, BusInv, Raised, RowInv, StatusHonest, OnA, Crosses
<1>3. QED
  BY <1>1, <1>2 DEF BenchInv

LEMMA Prompted ==
    ASSUME RunnerInv, CallInv
    PROVE  /\ ~runner.active => runner.todo = <<>>
           /\ runner.todo = <<>> => at = "off"
BY DEF RunnerInv, CallInv, NoRunner, Doing

(* A script goes on to what is left.                                        *)
LEMMA Advances ==
    ASSUME RunnerInv, CallInv, runner.todo # <<>>, NEW p \in {0, 1}, NEW c \in 0 .. 2,
           runner' = [runner EXCEPT !.todo = Rest, !.pytest = p, !.rc = c],
           UNCHANGED <<folder, shell>>
    PROVE  /\ RunnerInv'
           /\ runner.active /\ runner'.active /\ runner'.todo = Rest
           /\ runner'.pytest = p /\ runner'.rc = c
           /\ runner'.blocked = runner.blocked /\ runner'.env = runner.env
<1>1. /\ runner \in [env : Env, todo : Todos(runner.blocked), blocked : BOOLEAN,
                     pytest : {0, 1}, rc : 0 .. 2, active : BOOLEAN]
      /\ runner.active
  BY Prompted DEF RunnerInv
<1>2. /\ runner'.active /\ runner'.todo = Rest /\ runner'.pytest = p /\ runner'.rc = c
      /\ runner'.blocked = runner.blocked /\ runner'.env = runner.env
  BY <1>1
<1>3. Rest \in Todos(runner.blocked) /\ (Rest # <<>> /\ Head(Rest) = "ping" => ~runner.blocked)
  <2>1. runner.todo \in Todos(runner.blocked) /\ runner.blocked \in BOOLEAN
    BY <1>1
  <2>2. QED
    BY <2>1, TodoSteps DEF Rest
<1>4. runner' \in [env : Env, todo : Todos(runner.blocked), blocked : BOOLEAN,
                   pytest : {0, 1}, rc : 0 .. 2, active : BOOLEAN]
  BY <1>1, <1>3
<1>5. RunnerInv'
  BY <1>1, <1>2, <1>3, <1>4 DEF RunnerInv, Doing, Contract, Script
<1>6. QED
  BY <1>1, <1>2, <1>5

LEMMA ShellKeeps ==
    ASSUME Inv, SourceChain \/ Export
    PROVE  Inv'
<1>1. /\ ~runner.active
      /\ UNCHANGED <<benchVars, sessionVars, count, runner, fileVars>>
  BY DEF SourceChain, Export, AtPrompt
<1>2. shell' \in Env
  <2>1. CASE SourceChain
    BY <2>1, ContractTypes DEF SourceChain, Inv, TypeOK
  <2>2. CASE Export
    <3>1. shell \in Env
      BY DEF Inv, TypeOK
    <3>2. \/ shell' = Bare
          \/ shell' = [shell EXCEPT !.rmw = "fastrtps"]
          \/ shell' = [shell EXCEPT !.domain = "0"]
      BY <2>2 DEF Export
    <3>3. Bare \in Env
      BY DEF Bare, Env
    <3>4. [shell EXCEPT !.rmw = "fastrtps"] \in Env /\ [shell EXCEPT !.domain = "0"] \in Env
      BY <3>1 DEF Env
    <3>5. QED
      BY <3>2, <3>3, <3>4
  <2>3. QED
    BY <2>1, <2>2
<1>3. BenchInv'
  BY <1>1, <1>2, BenchStays DEF Inv
<1>4. TypeOK'
  BY <1>1, <1>2, <1>3 DEF Inv, TypeOK, BenchInv, sessionVars, fileVars
<1>5. at' = "off"
  BY <1>1, <1>2, Prompted DEF Inv
<1>6. RunnerInv' /\ CallInv' /\ FileInv'
  BY <1>1, <1>2, <1>5 DEF Inv, RunnerInv, CallInv, FileInv
<1>7. QED
  BY <1>3, <1>4, <1>6 DEF Inv

(* A script that starts has said nothing yet in any of its files.           *)
LEMMA EnterKeeps ==
    ASSUME Inv, NEW b \in BOOLEAN, NEW todo \in Todos(b), NEW e \in Env,
           Enter(e, todo, b),
           todo \notin AfterPing \cup AfterEnv \cup AfterSummary,
           b /\ Head(todo) = "ping" => folder[2] = "cross-host-UDP"
    PROVE  Inv'
<1>1. /\ ~runner.active /\ count' = count + 1 /\ count < RunsOf(detail)
      /\ UNCHANGED <<benchVars, sessionVars, shell, fileVars>>
      /\ runner' = [NoRunner EXCEPT !.active = TRUE, !.env = e, !.todo = todo, !.blocked = b]
  BY DEF Enter, AtPrompt
<1>2. /\ runner' = [env |-> e, todo |-> todo, blocked |-> b, pytest |-> 0, rc |-> 0,
                    active |-> TRUE]
  BY <1>1 DEF NoRunner
<1>3. BenchInv' /\ at' = "off"
  BY <1>1, BenchStays, Prompted DEF Inv
<1>4. TypeOK'
  <2>1. count' \in 0 .. Runs /\ 0 .. count \subseteq 0 .. count'
    BY <1>1 DEF RunsOf, Inv, TypeOK
  <2>2. QED
    BY <1>1, <1>2, <1>3, <2>1 DEF Inv, TypeOK, BenchInv, sessionVars, fileVars
<1>5. RunnerInv'
  <2>1. runner' \in [env : Env, todo : Todos(runner'.blocked), blocked : BOOLEAN,
                     pytest : {0, 1}, rc : 0 .. 2, active : BOOLEAN]
    BY <1>2
  <2>2. runner'.active /\ runner'.env = e /\ runner'.todo = todo /\ runner'.blocked = b
    BY <1>2
  <2>3. QED
    BY <1>1, <2>1, <2>2 DEF RunnerInv, Contract, Script, Doing, sessionVars
<1>6. CallInv'
  BY <1>3 DEF CallInv
<1>7. FileInv'
  <2>1. raw'.run # count' /\ note' # count'
    BY <1>1 DEF Inv, TypeOK, fileVars
  <2>2. runner'.todo = todo
    BY <1>2
  <2>3. QED
    BY <2>1, <2>2 DEF FileInv
<1>8. QED
  BY <1>3, <1>4, <1>5, <1>6, <1>7 DEF Inv

LEMMA RunKeeps ==
    ASSUME Inv,
           \/ RunSingleHost \/ RunMeasure \/ RunWithoutRos \/ RunWithoutTree
           \/ RunWithoutPeer
    PROVE  Inv'
<1> USE DEF Todos, AfterPing, AfterEnv, AfterSummary
<1>1. shell \in Env /\ Contract(shell) \in Env /\ folder \in Folders
  BY ContractTypes DEF Inv, TypeOK
<1>2. CASE RunSingleHost
  <2>1. PICK t : t = <<"ping", "env", "summary", "note">>
    OBVIOUS
  <2>2. t \in Todos(TRUE) /\ t \notin AfterPing \cup AfterEnv \cup AfterSummary
    BY <2>1
  <2>3. Enter(shell, t, TRUE) /\ folder[2] = "cross-host-UDP"
    BY <1>2, <2>1 DEF RunSingleHost, SingleHost
  <2>4. QED
    BY <1>1, <2>2, <2>3, EnterKeeps
<1>3. CASE RunMeasure
  <2>1. PICK t : t = <<"pytest", "ping", "env", "summary">>
    OBVIOUS
  <2>2. t \in Todos(FALSE) /\ t \notin AfterPing \cup AfterEnv \cup AfterSummary
    BY <2>1
  <2>3. Enter(Contract(shell), t, FALSE)
    BY <1>3, <2>1 DEF RunMeasure
  <2>4. QED
    BY <1>1, <2>2, <2>3, EnterKeeps
<1>4. CASE RunWithoutRos
  <2>1. PICK t : t = <<"env", "raw", "summary", "note">>
    OBVIOUS
  <2>2. /\ t \in Todos(TRUE) /\ t \notin AfterPing \cup AfterEnv \cup AfterSummary
        /\ Head(t) # "ping"
    BY <2>1
  <2>3. Enter(Contract(shell), t, TRUE)
    BY <1>4, <2>1 DEF RunWithoutRos
  <2>4. QED
    BY <1>1, <2>2, <2>3, EnterKeeps
<1>5. CASE RunWithoutTree
  <2>1. PICK t : t = <<"env", "raw", "summary">>
    OBVIOUS
  <2>2. /\ t \in Todos(TRUE) /\ t \notin AfterPing \cup AfterEnv \cup AfterSummary
        /\ Head(t) # "ping"
    BY <2>1
  <2>3. Enter(Contract(shell), t, TRUE)
    BY <1>5, <2>1 DEF RunWithoutTree
  <2>4. QED
    BY <1>1, <2>2, <2>3, EnterKeeps
<1>6. CASE RunWithoutPeer
  <2>1. PICK t : t = <<"ping", "env", "summary", "note">>
    OBVIOUS
  <2>2. t \in Todos(TRUE) /\ t \notin AfterPing \cup AfterEnv \cup AfterSummary
    BY <2>1
  <2>3. Enter(Contract(shell), t, TRUE) /\ folder[2] = "cross-host-UDP"
    BY <1>1, <1>6, <2>1 DEF RunWithoutPeer, Folders, Script
  <2>4. QED
    BY <1>1, <2>2, <2>3, EnterKeeps
<1>7. QED
  BY <1>2, <1>3, <1>4, <1>5, <1>6

(* While pingpong.py runs its script waits, and no file changes but, at the *)
(* end, raw.json.                                                           *)
LEMMA PingStepKeeps ==
    ASSUME Inv, PingStep
    PROVE  Inv'
<1>1. /\ Bench /\ raw' = IF at' = "done" THEN RawOf(status', rows') ELSE raw
      /\ UNCHANGED <<folder, detail, shell, count, runner, envMd, summary, note>>
  BY DEF PingStep, scriptVars, sessionVars
<1>2. BenchInv' /\ at # "off" /\ UNCHANGED <<job, remote>>
  BY <1>1, BenchKeeps DEF Inv
<1>3. detail /\ Doing("ping") /\ job = Job /\ Job' = Job
  BY <1>1, <1>2 DEF Inv, CallInv, Job, Peer, Chain, Script
<1>4. ASSUME at' = "done"
      PROVE  /\ raw'.run = count /\ raw'.status \in Statuses
             /\ runner.blocked => raw'.status = "blocked"
  <2>1. PICK r, rs, s, e : r = remote' /\ rs = rows' /\ s = status' /\ e = exit'
    OBVIOUS
  <2>2. ReportAllowed(Job, r, rs, s, e)
    BY <1>2, <1>3, <1>4, <2>1 DEF BenchInv, StatusHonest
  <2>3. raw' = RawOf(s, rs)
    BY <1>1, <1>4, <2>1 DEF RawOf
  <2>4. TypeOK /\ RunnerInv
    BY DEF Inv
  <2>5. QED
    BY <1>3, <2>2, <2>3, <2>4, RawHolds
<1>5. TypeOK'
  <2>1. raw'.run \in 0 .. count /\ raw'.status \in Statuses \cup {"none"}
    BY <1>1, <1>4 DEF Inv, TypeOK
  <2>2. QED
    BY <1>1, <1>2, <2>1 DEF Inv, TypeOK, BenchInv
<1>6. RunnerInv'
  BY <1>1 DEF Inv, RunnerInv, Contract, Script, Doing
<1>7. CallInv'
  BY <1>1, <1>2, <1>3 DEF CallInv, RawOf, Doing
<1>8. FileInv'
  <2>1. runner.todo \notin AfterPing \cup AfterEnv \cup AfterSummary
    BY <1>3, TodoHeads DEF Doing, Inv, RunnerInv
  <2>2. /\ runner.active /\ runner.blocked /\ raw'.run = count => raw'.status = "blocked"
        /\ runner.active /\ note = count => runner.blocked
    BY <1>1, <1>4 DEF Inv, FileInv
  <2>3. QED
    BY <1>1, <2>1, <2>2 DEF FileInv
<1>9. QED
  BY <1>2, <1>5, <1>6, <1>7, <1>8 DEF Inv

LEMMA StartPingKeeps ==
    ASSUME Inv, StartPing
    PROVE  Inv'
<1>1. PICK r \in Remotes : Launch(Job, r)
  BY DEF StartPing
<1>2. /\ Doing("ping") /\ detail /\ at = "off"
      /\ UNCHANGED <<folder, detail, shell, count, runner, raw, envMd, summary, note>>
  BY <1>1 DEF StartPing, Launch, scriptVars, sessionVars, fileVars
<1>3. r \in SUBSET CaseIds /\ Job \in Jobs
  <2>1. Remotes \subseteq SUBSET CaseIds
    BY DEF Remotes
  <2>2. folder[2] \in Topologies /\ Chain \in Chains
    BY DEF Inv, TypeOK, Folders, Chain
  <2>3. Peer \in BOOLEAN
    BY DEF Inv, RunnerInv, Peer
  <2>4. QED
    BY <1>1, <2>1, <2>2, <2>3 DEF Job
<1>4. BenchInv' /\ at' # "done" /\ job' = Job
  BY <1>1, <1>3, LaunchKeeps DEF Inv
<1>5. TypeOK'
  BY <1>2, <1>4 DEF Inv, TypeOK, BenchInv
<1>6. RunnerInv'
  BY <1>2 DEF Inv, RunnerInv, Contract, Script, Doing
<1>7. CallInv'
  BY <1>2, <1>4 DEF CallInv, Doing, Job, Peer, Chain, Script
<1>8. FileInv'
  BY <1>2 DEF Inv, FileInv, HasSamples, ScriptStatus
<1>9. QED
  BY <1>4, <1>5, <1>6, <1>7, <1>8 DEF Inv

(* pingpong.py ends: its exit code is 0 only with a report of samples.      *)
LEMMA PingEndKeeps ==
    ASSUME Inv, Doing("ping"), NEW c \in 0 .. 2,
           runner' = [runner EXCEPT !.todo = Rest, !.rc = c],
           BenchInv', at' = "off",
           UNCHANGED <<folder, detail, shell, count, envMd, summary, note>>,
           raw'.run \in 0 .. count, raw'.status \in Statuses \cup {"none"},
           c = 0 /\ ~runner.blocked =>
                raw'.run = count /\ \E k \in DOMAIN raw'.rows : raw'.rows[k] = "sampled",
           runner.blocked /\ raw'.run = count => raw'.status = "blocked"
    PROVE  Inv'
<1>1. PICK t : t = runner.todo
  OBVIOUS
<1>2. /\ t # <<>> /\ Head(t) = "ping" /\ t \in Todos(runner.blocked)
      /\ runner.blocked \in BOOLEAN /\ runner.pytest \in {0, 1}
  BY <1>1 DEF Doing, Inv, RunnerInv
<1>3. /\ RunnerInv' /\ runner.active /\ runner'.active /\ runner'.todo = Rest /\ runner'.rc = c
      /\ runner'.blocked = runner.blocked /\ runner'.env = runner.env
  <2>1. runner' = [runner EXCEPT !.todo = Rest, !.pytest = runner.pytest, !.rc = c]
    BY DEF Inv, RunnerInv
  <2>2. QED
    BY <1>1, <1>2, <2>1, Advances DEF Inv
<1>4. Rest \notin AfterEnv \cup AfterSummary
  BY <1>1, <1>2, TodoSteps, TodoHeads DEF Rest
<1>5. TypeOK'
  BY <1>3 DEF Inv, TypeOK, BenchInv, RunnerInv
<1>6. FileInv'
  BY <1>3, <1>4 DEF Inv, FileInv, HasSamples
<1>7. QED
  BY <1>3, <1>5, <1>6 DEF Inv, CallInv

LEMMA PingKeeps ==
    ASSUME Inv, Ping
    PROVE  Inv'
<1>1. PICK r \in Remotes, rs \in {<<>>} \cup [CaseIds -> Results], s \in Statuses, e \in 0 .. 2 :
        /\ ReportAllowed(Job, r, rs, s, e)
        /\ raw' = RawOf(s, rs)
        /\ runner' = [runner EXCEPT !.todo = Rest, !.rc = e]
  BY DEF Ping
<1>2. /\ Doing("ping") /\ ~detail
      /\ UNCHANGED <<benchVars, folder, detail, shell, count, envMd, summary, note>>
  BY DEF Ping, sessionVars
<1>3. BenchInv' /\ at' = "off"
  BY <1>2, BenchStays DEF Inv, CallInv
<1>4. /\ raw'.run = count /\ raw'.status = s
      /\ runner.blocked => s = "blocked"
      /\ e = 0 => \E k \in DOMAIN raw'.rows : raw'.rows[k] = "sampled"
  BY <1>1, <1>2, RawHolds DEF Inv
<1>5. raw'.run \in 0 .. count
  BY <1>4 DEF Inv, TypeOK
<1>6. QED
  BY <1>1, <1>2, <1>3, <1>4, <1>5, PingEndKeeps

LEMMA PingExitsKeeps ==
    ASSUME Inv, PingExits
    PROVE  Inv'
<1>1. /\ Doing("ping") /\ at = "done" /\ BenchReset
      /\ runner' = [runner EXCEPT !.todo = Rest, !.rc = exit]
      /\ UNCHANGED <<folder, detail, shell, count, raw, envMd, summary, note>>
  BY DEF PingExits, sessionVars, fileVars
<1>2. BenchInv' /\ at' = "off"
  BY <1>1, ResetKeeps
<1>3. ReportAllowed(job, remote, rows, status, exit) /\ raw = RawOf(status, rows)
  BY <1>1 DEF Inv, BenchInv, StatusHonest, CallInv
<1>4. exit \in 0 .. 2 /\ raw.run = count /\ raw.rows = rows
  BY <1>3 DEF ReportAllowed, RawOf
<1>5. exit = 0 => \E k \in DOMAIN raw.rows : raw.rows[k] = "sampled"
  BY <1>3, <1>4 DEF ReportAllowed
<1>6. runner.blocked => raw.status = "blocked"
  BY <1>1, <1>4, Prompted DEF Inv, FileInv, Doing
<1>7. raw'.run \in 0 .. count /\ raw'.status \in Statuses \cup {"none"}
  BY <1>1 DEF Inv, TypeOK
<1>8. QED
  <2>1. PICK c : c = exit
    OBVIOUS
  <2>2. QED
    BY <1>1, <1>2, <1>4, <1>5, <1>6, <1>7, <2>1, PingEndKeeps

(* It crashes, which leaves the raw.json of an earlier run.                 *)
LEMMA PingCrashesKeeps ==
    ASSUME Inv, PingCrashes
    PROVE  Inv'
<1>1. /\ Doing("ping") /\ BenchReset
      /\ runner' = [runner EXCEPT !.todo = Rest, !.rc = 1]
      /\ UNCHANGED <<folder, detail, shell, count, raw, envMd, summary, note>>
  BY DEF PingCrashes, sessionVars, fileVars
<1>2. BenchInv' /\ at' = "off"
  BY <1>1, ResetKeeps
<1>3. runner.blocked /\ raw.run = count => raw.status = "blocked"
  BY <1>1, Prompted DEF Inv, FileInv, Doing
<1>4. raw'.run \in 0 .. count /\ raw'.status \in Statuses \cup {"none"}
  BY <1>1 DEF Inv, TypeOK
<1>5. QED
  BY <1>1, <1>2, <1>3, <1>4, PingEndKeeps

(* The steps around pingpong.py.                                            *)
LEMMA AroundKeeps ==
    ASSUME Inv, NEW x, x # "ping", Doing(x), NEW p \in {0, 1},
           runner' = [runner EXCEPT !.todo = Rest, !.pytest = p],
           UNCHANGED <<benchVars, folder, detail, shell, count>>
    PROVE  /\ BenchInv' /\ RunnerInv' /\ CallInv'
           /\ runner.active /\ runner'.active /\ runner'.todo = Rest /\ runner'.pytest = p
           /\ runner'.rc = runner.rc /\ runner'.blocked = runner.blocked
           /\ runner'.env = runner.env
<1>1. runner.todo # <<>> /\ Head(runner.todo) # "ping" /\ at' = "off"
  BY DEF Doing, Inv, CallInv
<1>2. PICK c : c = runner.rc
  OBVIOUS
<1>3. c \in 0 .. 2 /\ runner' = [runner EXCEPT !.todo = Rest, !.pytest = p, !.rc = c]
  BY <1>2 DEF Inv, RunnerInv
<1>4. /\ RunnerInv' /\ runner.active /\ runner'.active /\ runner'.todo = Rest
      /\ runner'.pytest = p /\ runner'.rc = c
      /\ runner'.blocked = runner.blocked /\ runner'.env = runner.env
  BY <1>1, <1>3, Advances DEF Inv
<1>5. BenchInv' /\ CallInv'
  BY <1>1, BenchStays DEF Inv, CallInv
<1>6. QED
  BY <1>2, <1>4, <1>5

LEMMA AroundFiles ==
    ASSUME Inv, Pytest \/ CollectEnv \/ WriteBlockedRaw \/ WriteNote
    PROVE  Inv'
<1>1. PICK t, b, u : t = runner.todo /\ b = runner.blocked /\ u = Rest
  OBVIOUS
<1>2. PICK p \in {0, 1}, x \in {"pytest", "env", "raw", "note"} :
        /\ Doing(x) /\ runner' = [runner EXCEPT !.todo = u, !.pytest = p]
        /\ x # "pytest" => p = runner.pytest
        /\ x = "pytest" => UNCHANGED fileVars
        /\ x = "env" => /\ envMd' = [run |-> count, status |-> ScriptStatus,
                                     sourced |-> Script = "run_chain_a" /\ ~runner.blocked,
                                     contract |-> runner.env = ApplyA(runner.env)]
                        /\ UNCHANGED <<raw, summary, note>>
        /\ x = "raw" => raw' = RawOf("blocked", <<>>) /\ UNCHANGED <<envMd, summary, note>>
        /\ x = "note" => note' = count /\ UNCHANGED <<raw, envMd, summary>>
  <2>1. runner.pytest \in {0, 1} /\ \A v : [runner EXCEPT !.todo = v]
                                    = [runner EXCEPT !.todo = v, !.pytest = runner.pytest]
    BY DEF Inv, RunnerInv
  <2>2. CASE Pytest
    BY <1>1, <2>2 DEF Pytest
  <2>3. CASE CollectEnv
    BY <1>1, <2>1, <2>3 DEF CollectEnv
  <2>4. CASE WriteBlockedRaw
    BY <1>1, <2>1, <2>4 DEF WriteBlockedRaw
  <2>5. CASE WriteNote
    BY <1>1, <2>1, <2>5 DEF WriteNote
  <2>6. QED
    BY <2>2, <2>3, <2>4, <2>5
<1>3. UNCHANGED <<benchVars, folder, detail, shell, count>>
  BY DEF Pytest, CollectEnv, WriteBlockedRaw, WriteNote, sessionVars
<1>4. /\ BenchInv' /\ RunnerInv' /\ CallInv'
      /\ runner.active /\ runner'.active /\ runner'.todo = u /\ runner'.pytest = p
      /\ runner'.rc = runner.rc /\ runner'.blocked = b /\ runner'.env = runner.env
  BY <1>1, <1>2, <1>3, AroundKeeps
<1>5. /\ t # <<>> /\ Head(t) = x /\ t \in Todos(b) /\ b \in BOOLEAN /\ u = Tail(t)
  BY <1>1, <1>2 DEF Doing, Inv, RunnerInv, Rest
<1>6. /\ ~b /\ u \in AfterPing => t \in AfterPing
      /\ u \in AfterEnv => t \in AfterEnv \/ x = "env"
      /\ u \in AfterSummary => t \in AfterSummary
      /\ x \in {"raw", "note"} => b
      /\ x # "note" => t \notin AfterSummary
      /\ x = "pytest" => t \notin AfterEnv
  BY <1>5, TodoSteps, TodoHeads
<1>7. TypeOK'
  BY <1>2, <1>3, <1>4 DEF Inv, TypeOK, BenchInv, RunnerInv, fileVars, RawOf, ScriptStatus
<1>8. FileInv'
  <2>1. u \in AfterPing /\ ~b /\ runner.rc = 0 => raw'.run = count /\ HasSamples'
    BY <1>1, <1>2, <1>4, <1>6 DEF Inv, FileInv, HasSamples, fileVars
  <2>2. x # "pytest" => ScriptStatus' = ScriptStatus
    BY <1>1, <1>2, <1>4 DEF ScriptStatus
  <2>3. u \in AfterEnv => envMd'.run = count /\ envMd'.status = ScriptStatus'
    BY <1>1, <1>2, <1>4, <1>6, <2>2 DEF Inv, FileInv, fileVars
  <2>4. u \in AfterSummary =>
            summary'.run = count /\ (raw' # NoRaw => summary'.status = raw'.status)
    BY <1>1, <1>2, <1>4, <1>6 DEF Inv, FileInv
  <2>5. b /\ raw'.run = count => raw'.status = "blocked"
    BY <1>1, <1>2, <1>4 DEF Inv, FileInv, RawOf, fileVars
  <2>6. note' = count => b
    BY <1>1, <1>2, <1>4, <1>6 DEF Inv, FileInv, fileVars
  <2>7. QED
    BY <1>3, <1>4, <2>1, <2>3, <2>4, <2>5, <2>6 DEF FileInv
<1>9. QED
  BY <1>4, <1>7, <1>8 DEF Inv

(* Without a raw.json the summary says blocked and the script ends.         *)
LEMMA WriteSummaryKeeps ==
    ASSUME Inv, WriteSummary
    PROVE  Inv'
<1>1. PICK t, b, u : /\ t = runner.todo /\ b = runner.blocked
                     /\ u = IF raw = NoRaw THEN <<>> ELSE Rest
  OBVIOUS
<1>2. /\ Doing("summary") /\ runner' = [runner EXCEPT !.todo = u]
      /\ summary' = [run |-> count, status |-> IF raw = NoRaw THEN "blocked" ELSE raw.status]
      /\ UNCHANGED <<benchVars, folder, detail, shell, count, raw, envMd, note>>
  BY <1>1 DEF WriteSummary, sessionVars
<1>3. /\ t # <<>> /\ Head(t) = "summary" /\ t \in Todos(b) /\ b \in BOOLEAN
      /\ runner.active /\ at = "off"
  BY <1>1, <1>2, Prompted DEF Doing, Inv, RunnerInv, CallInv
<1>4. /\ t \in AfterEnv /\ (b \/ t \in AfterPing)
      /\ u \in Todos(b) /\ (u # <<>> /\ Head(u) = "ping" => ~b)
  <2>1. t \in AfterEnv /\ (b \/ t \in AfterPing)
    BY <1>3, TodoHeads
  <2>2. <<>> \in Todos(b)
    BY DEF Todos
  <2>3. QED
    BY <1>1, <1>3, <2>1, <2>2, TodoSteps DEF Rest
<1>5. /\ runner'.active /\ runner'.todo = u /\ runner'.pytest = runner.pytest
      /\ runner'.rc = runner.rc /\ runner'.blocked = b /\ runner'.env = runner.env
      /\ runner' \in [env : Env, todo : Todos(b), blocked : BOOLEAN,
                      pytest : {0, 1}, rc : 0 .. 2, active : BOOLEAN]
  BY <1>1, <1>2, <1>3, <1>4 DEF Inv, RunnerInv
<1>6. RunnerInv'
  BY <1>1, <1>2, <1>3, <1>4, <1>5 DEF Inv, RunnerInv, Doing, Contract, Script
<1>7. BenchInv' /\ CallInv'
  BY <1>2, <1>3, BenchStays DEF Inv, CallInv
<1>8. TypeOK'
  BY <1>2, <1>5, <1>7 DEF Inv, TypeOK, BenchInv, RunnerInv
<1>9. FileInv'
  <2>1. ScriptStatus' = ScriptStatus
    BY <1>1, <1>5 DEF ScriptStatus
  <2>2. QED
    BY <1>1, <1>2, <1>3, <1>4, <1>5, <2>1 DEF Inv, FileInv, HasSamples
<1>10. QED
  BY <1>6, <1>7, <1>8, <1>9 DEF Inv

LEMMA EndKeeps ==
    ASSUME Inv, Exit \/ Interrupt
    PROVE  Inv'
<1>1. runner' = NoRunner /\ UNCHANGED <<folder, detail, shell, count, fileVars>>
  BY DEF Exit, Interrupt, sessionVars
<1>2. BenchInv' /\ at' = "off"
  <2>1. CASE Exit
    BY <2>1, BenchStays, Prompted DEF Exit, Inv
  <2>2. CASE Interrupt
    BY <2>2, ResetKeeps DEF Interrupt
  <2>3. QED
    BY <2>1, <2>2
<1>3. ~runner'.active /\ NoRunner.env \in Env /\ NoRunner.blocked \in BOOLEAN
  BY <1>1 DEF NoRunner, Bare, Env
<1>4. RunnerInv'
  <2>1. NoRunner \in [env : Env, todo : Todos(NoRunner.blocked), blocked : BOOLEAN,
                      pytest : {0, 1}, rc : 0 .. 2, active : BOOLEAN]
    BY <1>3 DEF NoRunner, Todos
  <2>2. QED
    BY <1>1, <1>3, <2>1 DEF RunnerInv
<1>5. TypeOK'
  BY <1>1, <1>2, <1>3 DEF Inv, TypeOK, BenchInv, fileVars, NoRunner
<1>6. CallInv' /\ FileInv'
  BY <1>2, <1>3 DEF CallInv, FileInv
<1>7. QED
  BY <1>2, <1>4, <1>5, <1>6 DEF Inv

-----------------------------------------------------------------------------
(* Every state of a session satisfies the invariant.                        *)

LEMMA InitInv == SessionInit => Inv
<1> SUFFICES ASSUME SessionInit
             PROVE  Inv
  OBVIOUS
<1>1. /\ Idle /\ folder \in Folders /\ detail \in BOOLEAN /\ shell = Bare /\ count = 0
      /\ runner = NoRunner /\ raw = NoRaw /\ envMd = NoEnvMd /\ summary = NoText
      /\ note = NoFile
  BY DEF SessionInit
<1>2. BenchInv /\ at = "off"
  BY <1>1, IdleKeeps DEF Idle
<1>3. Bare \in Env
  BY DEF Bare, Env
<1>4. /\ ~runner.active /\ runner.env \in Env
      /\ runner \in [env : Env, todo : Todos(runner.blocked), blocked : BOOLEAN,
                     pytest : {0, 1}, rc : 0 .. 2, active : BOOLEAN]
  BY <1>1, <1>3 DEF NoRunner, Todos
<1>5. RunnerInv /\ CallInv /\ FileInv
  BY <1>1, <1>2, <1>4 DEF RunnerInv, CallInv, FileInv
<1>6. TypeOK
  <2>1. {raw.status, envMd.status, summary.status} \subseteq Statuses \cup {"none"}
    BY <1>1 DEF NoRaw, NoText, NoEnvMd
  <2>2. {raw.run, envMd.run, summary.run, note} \subseteq 0 .. count
    BY <1>1 DEF NoRaw, NoText, NoEnvMd, NoFile
  <2>3. runner.env \in Env /\ {runner.active, runner.blocked} \subseteq BOOLEAN
    BY <1>4
  <2>4. QED
    BY <1>1, <1>2, <1>3, <2>1, <2>2, <2>3 DEF TypeOK, BenchInv
<1>7. QED
  BY <1>2, <1>5, <1>6 DEF Inv

LEMMA InvStep == Inv /\ [Next]_vars => Inv'
<1> SUFFICES ASSUME Inv, [Next]_vars
             PROVE  Inv'
  OBVIOUS
<1>1. CASE PingStep
  BY <1>1, PingStepKeeps
<1>2. CASE ScriptStep
  BY <1>2, AroundFiles, StartPingKeeps, PingExitsKeeps, PingKeeps, WriteSummaryKeeps, EndKeeps
  DEF ScriptStep
<1>3. CASE Operator
  BY <1>3, ShellKeeps, RunKeeps, PingCrashesKeeps, EndKeeps DEF Operator
<1>4. CASE UNCHANGED vars
  <2>1. UNCHANGED benchVars /\ UNCHANGED <<folder, detail, shell, count, runner, raw, envMd,
                                           summary, note>>
    BY <1>4 DEF vars, scriptVars, sessionVars, fileVars
  <2>2. BenchInv'
    BY <2>1, BenchStays DEF Inv
  <2>3. TypeOK' /\ RunnerInv'
    BY <2>1, <2>2 DEF Inv, TypeOK, BenchInv, RunnerInv, Contract, Script, Doing
  <2>4. CallInv'
    BY <2>1 DEF Inv, CallInv, Doing, Job, Peer, Chain, Script, RawOf
  <2>5. FileInv'
    BY <2>1 DEF Inv, FileInv, HasSamples, ScriptStatus
  <2>6. QED
    BY <2>2, <2>3, <2>4, <2>5 DEF Inv
<1>5. QED
  BY <1>1, <1>2, <1>3, <1>4 DEF Next

LEMMA InvAlways == Spec => []Inv
<1>1. QED
  BY InitInv, InvStep, PTL DEF Spec

(* The types of the runner, of its files and of pingpong.py.                *)
THEOREM TypeCorrect == Spec => []TypeOK
<1>1. Inv => TypeOK
  BY DEF Inv
<1>2. QED
  BY <1>1, InvAlways, PTL

(* However a case ends, the next one and the end of the process find a node *)
(* only of a case whose teardown raised, a context only if besides no case  *)
(* since then was without an error, spin threads and responders only if     *)
(* they were told to end, and a bus only of a case that raised.             *)
THEOREM CasesCleanUp == Spec => []CleanStart
<1>1. Inv => CleanStart
  BY CleanEnough DEF Inv
<1>2. QED
  BY <1>1, InvAlways, PTL

(* The status and the exit code of a report are those of its rows, and      *)
(* across hosts only a case the other host serves has samples.              *)
THEOREM ReportsHonest == Spec => []StatusHonest
<1>1. Inv => StatusHonest
  BY DEF Inv, BenchInv
<1>2. QED
  BY <1>1, InvAlways, PTL

(* The files that a script leaves agree with one another and with its run,  *)
(* whichever run wrote them.                                                *)
THEOREM FilesOfARun == Spec => []FilesAgree
<1>1. ASSUME Inv
      PROVE  FilesAgree
  <2>1. SUFFICES ASSUME runner.active, runner.todo = <<>>
                 PROVE  /\ envMd.run = count /\ summary.run = count
                        /\ raw # NoRaw => summary.status = raw.status
                        /\ envMd.status # "blocked" =>
                                raw.run = count /\ \E k \in DOMAIN raw.rows :
                                                        raw.rows[k] = "sampled"
                        /\ note = count => ~(raw.run = count /\ raw.status # "blocked")
    BY DEF FilesAgree
  <2>2. runner.todo \in AfterPing \cap AfterEnv \cap AfterSummary
    BY <2>1 DEF AfterPing, AfterEnv, AfterSummary
  <2>3. QED
    BY <1>1, <2>1, <2>2 DEF Inv, FileInv, HasSamples, ScriptStatus
<1>2. QED
  BY <1>1, InvAlways, PTL
=============================================================================

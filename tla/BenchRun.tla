------------------------------ MODULE BenchRun ------------------------------
(***************************************************************************)
(* One run of scripts/bench/pingpong.py around the ping loop (which is     *)
(* module PingPong): the fixtures each case builds and takes down, the     *)
(* responder process of the two-process cases, the rows and the status of  *)
(* the report, the exit code.                                              *)
(*                                                                         *)
(* A case stands for one qos and one size.  Chain A uses an rclpy context, *)
(* a node and a thread that spins it; chain B a DDS bus.                   *)
(***************************************************************************)
EXTENDS Integers, Sequences, FiniteSets

CONSTANT Cases     \* number of cases of a run

ASSUME CasesAssumption == Cases \in Nat \ {0}

CaseIds    == 1 .. Cases
Chains     == {"A", "B"}
Topologies == {"same-process", "same-host", "cross-host-UDP"}
Results    == {"sampled", "empty", "error"}
Statuses   == {"ok", "partial", "blocked"}

VARIABLES
    at,          \* next statement of main and of the case function it is in
    job,         \* the command line: chain, topology, whether a peer is given
    remote,      \* the cases whose qos the responder of the other host has
    case, result,\* the case under way, and what it will add to the report
    context,     \* rclpy.ok()
    nodes,       \* cases whose node exists
    stopping,    \* spin_stop, for each case
    spinning,    \* cases whose spin thread runs
    unclean,     \* history: cases whose teardown of node or context raised
    buses,       \* cases whose DDS bus is started
    responders,  \* cases whose responder process lives
    killed,      \* cases whose responder was sent SIGKILL
    rows,        \* the results of the cases, in order
    status, exit \* of the report and of the process; "none" and -1 before

rosVars      == <<context, nodes, stopping, spinning, unclean>>
processVars  == <<responders, killed>>
reportVars   == <<rows, status, exit>>
benchVars == <<at, job, remote, case, result, rosVars, buses, processVars, reportVars>>

Jobs == [chain : Chains, topology : Topologies, peer : BOOLEAN]
NoJob == [chain |-> "A", topology |-> "same-process", peer |-> FALSE]

Idle ==
    /\ at = "off" /\ job = NoJob /\ remote = {} /\ case = 1 /\ result = "error"
    /\ context = FALSE /\ nodes = {} /\ stopping = {} /\ spinning = {} /\ unclean = {}
    /\ buses = {} /\ responders = {} /\ killed = {}
    /\ rows = <<>> /\ status = "none" /\ exit = -1

Init == Idle

Step(from, to) == at = from /\ at' = to

(* The process starts: everything but its command line is fresh. *)
Launch(j, r) ==
    /\ at = "off"
    /\ job' = j /\ remote' = r
    /\ at' = IF j.topology = "cross-host-UDP" /\ ~j.peer THEN "refuse" ELSE "case"
    /\ UNCHANGED <<case, result, rosVars, buses, processVars, reportVars>>

(* Cross-host without a peer: a blocked report, nothing is measured. *)
Refuse ==
    /\ Step("refuse", "done")
    /\ status' = "blocked" /\ exit' = 2
    /\ UNCHANGED <<job, remote, case, result, rosVars, buses, processVars, rows>>

-----------------------------------------------------------------------------
(* The responder of a two-process case.                                    *)

Client == IF job.chain = "A" THEN "init" ELSE "bus"

BeginCase ==
    /\ at = "case"
    /\ result' = "error"
    /\ at' = IF job.topology = "same-host" THEN "spawn" ELSE Client
    /\ UNCHANGED <<job, remote, case, rosVars, buses, processVars, reportVars>>

Spawn ==
    /\ Step("spawn", "poll")
    /\ responders' = responders \cup {case}
    /\ UNCHANGED <<job, remote, case, result, rosVars, buses, killed, reportVars>>

(* Popen raises, or the command line lacks the tree chain B needs: there is *)
(* no process yet to take down.                                            *)
SpawnFails ==
    /\ Step("spawn", "row")
    /\ UNCHANGED <<job, remote, case, result, rosVars, buses, processVars, reportVars>>

Poll ==
    /\ at = "poll"
    /\ at' = IF case \in responders THEN Client ELSE "terminate"
    /\ UNCHANGED <<job, remote, case, result, rosVars, buses, processVars, reportVars>>

(* The responder crashes, obeys the signal, or dies of it. *)
ResponderDies(k) ==
    /\ k \in responders
    /\ responders' = responders \ {k}
    /\ UNCHANGED <<at, job, remote, case, result, rosVars, buses, killed, reportVars>>

-----------------------------------------------------------------------------
(* Chain A: context, node and spin thread, taken down in a finally.        *)

Cleanup == IF job.topology = "same-host" THEN "terminate" ELSE "row"

(* rclpy may be missing, or refuse to start: that is outside the try. *)
EnsureInit ==
    /\ at = "init"
    /\ \/ context' = TRUE /\ at' = "node"
       \/ context' = context /\ at' = Cleanup
    /\ UNCHANGED <<job, remote, case, result, nodes, stopping, spinning, unclean, buses,
                   processVars, reportVars>>

(* The node is not made, or one of its publishers and subscriptions is not. *)
CreateNode ==
    /\ at = "node"
    /\ \/ nodes' = nodes \cup {case} /\ at' = "spin"
       \/ nodes' \in {nodes, nodes \cup {case}} /\ at' = "stopspin"
    /\ UNCHANGED <<job, remote, case, result, context, stopping, spinning, unclean, buses,
                   processVars, reportVars>>

StartSpin ==
    /\ Step("spin", "measure")
    /\ spinning' = spinning \cup {case}
    /\ UNCHANGED <<job, remote, case, result, context, nodes, stopping, unclean, buses,
                   processVars, reportVars>>

(* The thread ends when its event is set or the context is down; it may be  *)
(* held up in a callback for any time.                                     *)
SpinEnds(k) ==
    /\ k \in spinning
    /\ k \in stopping \/ ~context
    /\ spinning' = spinning \ {k}
    /\ UNCHANGED <<at, job, remote, case, result, context, nodes, stopping, unclean, buses,
                   processVars, reportVars>>

StopSpin ==
    /\ Step("stopspin", "join")
    /\ stopping' = stopping \cup {case}
    /\ UNCHANGED <<job, remote, case, result, context, nodes, spinning, unclean, buses,
                   processVars, reportVars>>

(* th.join(timeout=1.0) returns whether or not the thread has ended. *)
JoinSpin ==
    /\ Step("join", "destroy")
    /\ UNCHANGED <<job, remote, case, result, rosVars, buses, processVars, reportVars>>

(* A call of the teardown that raises takes the place of the case's result   *)
(* and skips what comes after it.                                          *)
Torn ==
    /\ at' = Cleanup
    /\ result' = "error"
    /\ unclean' = unclean \cup {case}

DestroyNode ==
    /\ at = "destroy"
    /\ \/ at' = "shutdown" /\ nodes' = nodes \ {case} /\ UNCHANGED <<result, unclean>>
       \/ case \in nodes /\ nodes' \in {nodes, nodes \ {case}} /\ Torn
    /\ UNCHANGED <<job, remote, case, context, stopping, spinning, buses, processVars,
                   reportVars>>

(* Mutant: the context is left up for the next case. *)
ShutdownNot ==
    /\ at = "shutdown" /\ at' = Cleanup
    /\ UNCHANGED <<job, remote, case, result, rosVars, buses, processVars, reportVars>>

EnsureShutdown ==
    /\ at = "shutdown"
    /\ \/ at' = Cleanup /\ context' = FALSE /\ UNCHANGED <<result, unclean>>
       \/ context /\ context' \in BOOLEAN /\ Torn
    /\ UNCHANGED <<job, remote, case, nodes, stopping, spinning, buses, processVars,
                   reportVars>>

-----------------------------------------------------------------------------
(* Chain B: a bus, stopped only when the loop ends.                        *)

StartBus ==
    /\ at = "bus"
    /\ \/ buses' = buses \cup {case} /\ at' = "measure"
       \/ buses' = buses /\ at' = Cleanup
    /\ UNCHANGED <<job, remote, case, result, rosVars, processVars, reportVars>>

StopBus ==
    /\ at = "stopbus" /\ at' = Cleanup
    /\ buses' = buses \ {case}
    /\ UNCHANGED <<job, remote, case, result, rosVars, processVars, reportVars>>

-----------------------------------------------------------------------------
(* The ping loop.  Samples need someone who answers: the case itself, its  *)
(* responder, or a responder of the other host that has the same qos.      *)

Answered ==
    CASE job.topology = "same-process"   -> TRUE
      [] job.topology = "same-host"      -> case \in responders
      [] job.topology = "cross-host-UDP" -> case \in remote

AfterLoop == IF job.chain = "A" THEN "stopspin" ELSE "stopbus"

Measure ==
    /\ at = "measure" /\ at' = AfterLoop
    /\ result' \in {"empty"} \cup {r \in {"sampled"} : Answered}
    /\ UNCHANGED <<job, remote, case, rosVars, buses, processVars, reportVars>>

(* A publish or a callback setup raises: chain B leaves its bus behind. *)
MeasureFails ==
    /\ at = "measure"
    /\ at' = IF job.chain = "A" THEN "stopspin" ELSE Cleanup
    /\ UNCHANGED <<job, remote, case, result, rosVars, buses, processVars, reportVars>>

-----------------------------------------------------------------------------
(* The finally of a two-process case.                                      *)

Terminate ==
    /\ Step("terminate", "reap")
    /\ UNCHANGED <<job, remote, case, result, rosVars, buses, processVars, reportVars>>

(* Mutant: wait without a timeout. *)
ReapForever ==
    /\ at = "reap" /\ case \notin responders
    /\ at' = "row"
    /\ UNCHANGED <<job, remote, case, result, rosVars, buses, processVars, reportVars>>

(* wait(timeout=3): the process has ended, or it is killed, which takes     *)
(* effect in its own time and is not waited for.                           *)
Reap ==
    /\ Step("reap", "row")
    /\ killed' = killed \cup ({case} \cap responders)
    /\ UNCHANGED <<job, remote, case, result, rosVars, buses, responders, reportVars>>

-----------------------------------------------------------------------------
(* The report.                                                             *)

EndCase ==
    /\ at = "row"
    /\ rows' = Append(rows, result)
    /\ IF case < Cases THEN case' = case + 1 /\ at' = "case"
                       ELSE case' = case /\ at' = "report"
    /\ UNCHANGED <<job, remote, result, rosVars, buses, processVars, status, exit>>

Has(r) == \E k \in DOMAIN rows : rows[k] = r

(* Mutant: errors alone decide. *)
StatusByErrors == IF Has("error") THEN "partial" ELSE "ok"

Status == IF ~Has("sampled") THEN "blocked" ELSE IF Has("error") THEN "partial" ELSE "ok"

Report ==
    /\ Step("report", "done")
    /\ status' = Status
    /\ exit' = IF Status \in {"ok", "partial"} THEN 0 ELSE 1
    /\ UNCHANGED <<job, remote, case, result, rosVars, buses, processVars, rows>>

-----------------------------------------------------------------------------
Main ==
    \/ Refuse \/ BeginCase \/ Spawn \/ SpawnFails \/ Poll
    \/ EnsureInit \/ CreateNode \/ StartSpin \/ StopSpin \/ JoinSpin \/ DestroyNode
    \/ EnsureShutdown
    \/ StartBus \/ StopBus
    \/ Measure \/ MeasureFails
    \/ Terminate \/ Reap
    \/ EndCase \/ Report

Others == \E k \in CaseIds : ResponderDies(k) \/ SpinEnds(k)

Bench == Main \/ Others

BenchTypeOK ==
    /\ at \in {"off", "refuse", "case", "spawn", "poll", "init", "node", "spin", "bus",
               "measure", "stopbus", "stopspin", "join", "destroy", "shutdown",
               "terminate", "reap", "row", "report", "done"}
    /\ job \in Jobs
    /\ case \in CaseIds /\ result \in Results
    /\ context \in BOOLEAN
    /\ {remote, nodes, stopping, spinning, unclean, buses, responders, killed}
           \subseteq SUBSET CaseIds
    /\ rows \in Seq(Results)
    /\ status \in Statuses \cup {"none"}
    /\ exit \in {-1, 0, 1, 2}

(* What a case leaves to the next and to the end of the process, however it *)
(* ended: a node only if its teardown raised, a context only if, besides,   *)
(* no case without an error came after; a spin thread or a responder only   *)
(* if it was told to end; a bus only if the case raised.                    *)
CleanStart ==
    at \in {"case", "report", "done"} =>
        /\ nodes \subseteq unclean
        /\ context => \E k \in unclean : \A i \in k .. Len(rows) : rows[i] = "error"
        /\ spinning \subseteq stopping
        /\ responders \subseteq killed
        /\ \A k \in buses : rows[k] = "error"

(* What the reader of a report may rely on: exit code 0 if some case has    *)
(* samples, a row for every case, "ok" if none of them failed; across hosts *)
(* only the cases whose qos the other host serves have samples, and the     *)
(* others, without an error, leave the report "ok" (main, 1232-1233).       *)
ReportAllowed(j, r, rs, s, e) ==
    \/ /\ j.topology = "cross-host-UDP" /\ ~j.peer
       /\ rs = <<>> /\ s = "blocked" /\ e = 2
    \/ /\ j.topology = "cross-host-UDP" => j.peer
       /\ rs \in [CaseIds -> Results]
       /\ \A k \in CaseIds : rs[k] = "sampled" /\ j.topology = "cross-host-UDP" => k \in r
       /\ e = 0 <=> \E k \in CaseIds : rs[k] = "sampled"
       /\ IF e = 0 THEN s = IF "error" \in {rs[k] : k \in CaseIds} THEN "partial" ELSE "ok"
                   ELSE e = 1 /\ s = "blocked"

StatusHonest == at = "done" => ReportAllowed(job, remote, rows, status, exit)
=============================================================================

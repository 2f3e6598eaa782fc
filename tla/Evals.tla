-------------------------------- MODULE Evals -------------------------------
(***************************************************************************)
(* scripts/eval/run_evals.py over a tree that is edited: five suites, run    *)
(* in order, whose results decide one exit code: 0 all passed, 1 something  *)
(* failed, 2 nothing failed but something could not be looked at.           *)
(***************************************************************************)
EXTENDS Maps, Integers

CONSTANT Edits     \* bound: edits of the shipped tree

ASSUME EditsAssumption == Edits \in Nat

VARIABLES
    part,      \* what is edited: the documents, the scripts or the maps
    edits,     \* edits so far
    chosen,    \* the suites asked for
    todo,      \* the suites still to run
    failed,    \* a result so far is a fail
    blocked,   \* a result so far is blocked
    exit       \* of the last run over the tree as it is, or -1

evalVars == <<chosen, todo, failed, blocked, exit>>
vars == <<docVars, mapVars, part, edits, evalVars>>

ALL_SUITES == <<"gate", "config", "isolation", "api", "bench">>

(* What only the suites look at. *)
SuitePhrases == [
    chainA |-> {}, chainB |-> {}, topics |-> {"keys", "sections", "apart"},
    load |-> {"no top level write"}, xmlTree |-> {"wellformed", "shm", "sockets"},
    rmwH |-> {"prototypes", "signatures"}, raw |-> {"json"}, history |-> {}]
SuiteDefects == UNION {{f} \X (SuitePhrases[f] \cup {"gone"}) : f \in DOMAIN SuitePhrases}

Init ==
    /\ scripts = AsShipped
    /\ defects = {} /\ said = <<>>
    /\ rows = <<[closed |-> TRUE, cell |-> "hold"]>>
    /\ cites = [source   |-> {Path("shared wait.cpp", 1), Path("notes.md", 0)},
                executor |-> {Path("wait.cpp", 1), Path("shared wait.cpp", 1)}]
    /\ symbols = [f \in SymbolFiles |-> {1}]
    /\ part \in {"documents", "scripts", "maps"} /\ edits = 0
    /\ chosen = <<>> /\ todo = <<>> /\ failed = FALSE /\ blocked = FALSE /\ exit = -1

-----------------------------------------------------------------------------
(* Edits, between runs.  They make the last exit code that of another tree. *)

Resting == todo = <<>> /\ (chosen # <<>> => exit # -1)

Edit(p) ==
    /\ part = p /\ Resting /\ edits < Edits
    /\ edits' = edits + 1
    /\ chosen' = <<>> /\ exit' = -1
    /\ UNCHANGED <<part, todo, failed, blocked>>

(* At the beginning, at the end, or one of them taken away. *)
Inserted(s, x) == {<<x>> \o s, Append(s, x)}
Removed(s)     == {RemoveAt(s, i) : i \in DOMAIN s}

Damage ==
    /\ Edit("documents")
    /\ \E d \in Defects \cup SuiteDefects : defects' = defects \cup {d}
    /\ UNCHANGED <<scripts, said, rows, mapVars>>

Claim ==
    /\ Edit("documents")
    /\ \E c \in Claims : said' \in Inserted(said, c)
    /\ UNCHANGED <<scripts, defects, rows, mapVars>>

EditRows ==
    /\ Edit("documents")
    /\ \E r \in Rows : rows' \in Inserted(rows, r) \cup Removed(rows)
    /\ UNCHANGED <<scripts, defects, said, mapVars>>

EditScript ==
    /\ Edit("scripts")
    /\ \E c \in Chains, l \in Lines :
        \E s \in Inserted(scripts[c], l) \cup Removed(scripts[c]) :
            scripts' = [scripts EXCEPT ![c] = s]
    /\ UNCHANGED <<defects, said, rows, mapVars>>

EditMap ==
    /\ Edit("maps")
    /\ \E m \in Kinds, c \in Cites :
        cites' = [cites EXCEPT ![m] = IF c \in @ THEN @ \ {c} ELSE @ \cup {c}]
    /\ UNCHANGED <<docVars, symbols>>

MoveSource ==
    /\ Edit("maps")
    /\ \/ \E f \in SymbolFiles, ls \in SUBSET LineNos : symbols' = [symbols EXCEPT ![f] = ls]
          /\ UNCHANGED defects
       \/ \E d \in (Files \X {"gone"}) \cup {<<"rcl", "added">>} : defects' = defects \cup {d}
          /\ UNCHANGED symbols
    /\ UNCHANGED <<scripts, said, rows, cites>>

-----------------------------------------------------------------------------
(* The suites.                                                             *)

Gates == {ProveRmw, SourceMap, BenchGates, RiskMatrix, ExecutorMap, RuntimeProvenance,
          UnitreeCycloneSwap, ThreeChainRepro, SinkLayers, DualChainBaseline, DodEvidence,
          CegaBridgeHold}

(* A gate whose script is missing or takes over a minute has failed. *)
GateSuite == FALSE \notin Gates /\ Has("checkSourceMap")

XmlSane == Has("xml") /\ Has("xmlTree") /\ Says("xmlTree", {"wellformed", "shm", "sockets"})
           /\ Says("xml", {"domain 42"})

EnvScriptsSane ==
    /\ Mentions("A", "export", <<"RMW", "fastrtps">>)
    /\ Mentions("A", "export", <<"ID", "42">>)
    /\ Mentions("A", "export", <<"PROFILE", "fastdds">>)
    /\ Mentions("B", "export", <<"RMW", "cyclonedds">>)
    /\ Mentions("B", "export", <<"ID", "0">>)
    /\ Mentions("B", "unset", <<"URI", "none">>)
    /\ ~Touches("A", "URI") /\ ~Touches("B", "PROFILE")

ConfigSuite ==
    /\ Has("chainA") /\ Has("chainB")
    /\ XmlSane /\ Says("topics", {"keys"}) /\ EnvScriptsSane

IsolationSuite ==
    /\ Has("chainA") /\ Has("chainB") /\ Has("xml") /\ Has("topics") /\ Has("load")
    /\ LET id(c) == ExtractExport(c, "ID")
           rmw(c) == ExtractExport(c, "RMW")
       IN /\ "none" \notin {id("A"), id("B"), rmw("A"), rmw("B")}
          /\ id("A") # id("B") /\ rmw("A") # rmw("B")
          /\ Says("xml", {"domain 42"}) /\ id("A") = "42"
    /\ ExtractExport("A", "PROFILE") = "fastdds" /\ ExtractExport("B", "PROFILE") = "none"
    /\ Anchored("B", "unset", "URI") # {}
    /\ Says("topics", {"sections", "apart"}) /\ Says("load", {"no top level write"})

(* Without git there is no signature to compare with. *)
ApiFails(git)  == ~Says("rmwH", {"prototypes"}) \/ (git /\ ~Says("rmwH", {"signatures"}))
ApiBlocks(git) == Has("rmwH") /\ ~git

BenchFails(chain) ==
    \/ Has("raw") /\ ~Says("raw", {"json"})
    \/ ~Has("scoreboard") \/ ~Has("benchReadme")
    \/ chain \in {"b", "both"} /\ ~Has("history")
BenchBlocks(ros) == ~ros \/ ~Has("raw")

(* What a suite may add to the report: whether a result of it failed and     *)
(* whether one is blocked.  An exception in a suite is one failed result.    *)
Outcomes(s) ==
    CASE s = "gate"      -> {<<TRUE, FALSE>>, <<~GateSuite, FALSE>>}
      [] s = "config"    -> {<<~ConfigSuite, FALSE>>}
      [] s = "isolation" -> {<<~IsolationSuite, FALSE>>}
      [] s = "api"       -> {<<ApiFails(git), ApiBlocks(git)>> : git \in BOOLEAN}
      [] s = "bench"     -> {<<BenchFails(chain), BenchBlocks(ros)>> :
                                chain \in {"a", "b", "both"}, ros \in BOOLEAN}

Start ==
    /\ Resting /\ chosen = <<>>
    /\ \E c \in {ALL_SUITES} \cup {<<ALL_SUITES[i]>> : i \in DOMAIN ALL_SUITES} :
        chosen' = c /\ todo' = c
    /\ failed' = FALSE /\ blocked' = FALSE
    /\ UNCHANGED <<docVars, mapVars, part, edits, exit>>

RunSuite ==
    /\ todo # <<>>
    /\ \E r \in Outcomes(Head(todo)) :
        failed' = (failed \/ r[1]) /\ blocked' = (blocked \/ r[2])
    /\ todo' = Tail(todo)
    /\ UNCHANGED <<docVars, mapVars, part, edits, chosen, exit>>

OverallExitCode == IF failed THEN 1 ELSE IF blocked THEN 2 ELSE 0

Report ==
    /\ todo = <<>> /\ chosen # <<>> /\ exit = -1
    /\ exit' = OverallExitCode
    /\ UNCHANGED <<docVars, mapVars, part, edits, chosen, todo, failed, blocked>>

-----------------------------------------------------------------------------
Next ==
    \/ Damage \/ Claim \/ EditRows \/ EditScript \/ EditMap \/ MoveSource
    \/ Start \/ RunSuite \/ Report

Spec == Init /\ [][Next]_vars

-----------------------------------------------------------------------------
(* The report says that nothing of the suite failed. *)
Vouched(s) == exit \in {0, 2} /\ s \in ToSet(chosen)

Searched(c) == c.kind \in (CASE c.doc = "baseline" -> {"percentile"}
                             [] c.doc = "dod"      -> {"status", "verdict", "percentile"}
                             [] OTHER              -> {"status", "verdict"})

(* When the gates vouch for the tree, no document makes a claim they look    *)
(* for outside a prohibition.  Of the verdicts in the three-chain document   *)
(* that is so of the first one; those behind it are VerdictsCaught's.  And   *)
(* the first complete row of the ADR still says Hold.                       *)
ClaimsCaught ==
    Vouched("gate") =>
        /\ \A i \in DOMAIN said :
            Searched(said[i]) /\ ~said[i].warned =>
                /\ said[i].doc = "repro" /\ said[i].kind = "verdict"
                /\ \E j \in 1 .. i - 1 : said[j] = [said[i] EXCEPT !.warned = TRUE]
        /\ \E i \in DOMAIN rows :
            rows[i].closed /\ rows[i].cell = "hold" /\ \A j \in 1 .. i - 1 : ~rows[j].closed

(* "A fabricate claim: FAIL (exit 1)", a prohibition allows only its own     *)
(* line (check_three_chain_repro.py:7, 57-59).  The code violates it: it    *)
(* does not look behind the first verdict.                                  *)
VerdictsCaught ==
    Vouched("gate") =>
        \A i \in Matches("repro", "verdict") : said[i].warned

(* When the gates vouch for the maps, every path they cite is there, with    *)
(* its symbol, and what must be absent is; a line may have moved, but not    *)
(* of a file the report has no warning about: one of its lines is right.    *)
CitesHold ==
    Vouched("gate") =>
        /\ ~Vendored("rcl")
        /\ \A m \in Kinds : \A c \in cites[m] :
            c.form = "path" /\ ~c.fenced /\ c.target \in Files =>
                /\ Has(c.target)
                /\ c.target \in SymbolAllowlist[m] =>
                    /\ symbols[c.target] # {}
                    /\ ~Warned(m) /\ c.line > 0 =>
                        \E d \in cites[m] : /\ d.target \in {c.target, BaseName[c.target]}
                                             /\ d.line \in symbols[c.target]

(* When the gates vouch for the two scripts, a shell that sources one of     *)
(* them ends with each value of its chain, whatever it had before, unless a *)
(* later line of the script says otherwise; no line gives chain B a network *)
(* file of Cyclone, and the isolation suite adds that none gives it the     *)
(* profile of chain A.                                                      *)
ChainValues == {<<"A", "RMW", "fastrtps">>, <<"A", "ID", "42">>, <<"A", "PROFILE", "fastdds">>,
                <<"B", "RMW", "cyclonedds">>, <<"B", "ID", "0">>}

Overridden(chain, n, v) ==
    \E i, j \in About(chain, n) :
        i < j /\ scripts[chain][i].def[2] = v /\ scripts[chain][j].def[2] # v

ChainsApart ==
    \A e \in Envs :
        /\ Vouched("gate") =>
            /\ \A w \in ChainValues : \/ Sourced(w[1], e)[w[2]] = w[3]
                                      \/ Overridden(w[1], w[2], w[3])
            /\ Sourced("B", e)["URI"] = "none"
        /\ Vouched("isolation") => Sourced("B", e)["PROFILE"] \in {e["PROFILE"], "none"}

=============================================================================

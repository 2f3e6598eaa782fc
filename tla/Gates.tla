-------------------------------- MODULE Gates -------------------------------
(***************************************************************************)
(* The document gates, scripts/check_*.py and print_bench_gates.py: each    *)
(* reads files of the tree and exits 0 or 1.                               *)
(*                                                                         *)
(* A file is abstracted to the groups of phrases the gates look for in it, *)
(* and the tree to its defects, of the form <<file, what>>: the file is     *)
(* gone, a phrase of a group is gone, or something was added that must not  *)
(* be there.  Lines that claim something keep their order, and so do the   *)
(* rows of the decision table of the ADR.                                  *)
(***************************************************************************)
EXTENDS EnvScripts, FiniteSets

VARIABLES
    defects,   \* what is wrong with the tree
    said,      \* the claims in the documents, by position
    rows       \* the rows "(4) Cega / Bridge" of the ADR, by position

docVars == <<scripts, defects, said, rows>>

(* A claim of a kind is a match of one pattern of that kind. *)
ClaimDocs == {"repro", "dod", "baseline", "hold", "adr"}
Claims == [doc : ClaimDocs, kind : {"status", "verdict", "percentile"}, warned : BOOLEAN]
Rows == [closed : BOOLEAN, cell : {"hold", "pass", "hold, pass"}]

(* The phrase groups each gate wants in its own document. *)
ReproPhrases == {"markers", "verdict", "blocked", "publish", "history",
                 "wait->callback", "waitset"}
DodPhrases == {"markers", "unmet", "blocked", "five items", "status line"}
BaselinePhrases == {"markers", "paused", "map verdict", "no rewrite", "pointer only"}
HoldPhrases == {"markers", "status line", "status", "no cega", "runtime freeze",
                 "xml freeze", "phases"}
SwapPhrases == {"markers", "quoted", "verdict", "versions"}
SinkPhrases == {"markers", "policy", "layers", "hold", "pointers"}
MatrixPhrases == {"markers", "order"}
ProvenancePhrases == {"markers", "underlay"}
ExecPhrases == {"markers", "urls", "waitset"}

Phrases == [
    repro |-> ReproPhrases, dod |-> DodPhrases, baseline |-> BaselinePhrases,
    hold |-> HoldPhrases, swap |-> SwapPhrases, sink |-> SinkPhrases,
    matrix |-> MatrixPhrases, provenance |-> ProvenancePhrases, exec |-> ExecPhrases,
    adr |-> {"13", "9.4", "6.3", "baseline row", "cega", "layers"},
    map |-> {"chains", "vendor", "not reproduced"}, method |-> {"wiki", "dod"},
    freeze |-> {"hold"}, cigates |-> {"structure"}, manifest |-> {"markers"},
    versions |-> {"rows", "cyclone row"}, dockerfile |-> {"humble pin", "other pin"},
    cmake |-> {"project"}, proveRmw |-> {"identity"}, checkSourceMap |-> {},
    scoreboard |-> {"status", "blocked"}, benchReadme |-> {"markers", "blocked"},
    scriptsReadme |-> {"cross-host"}, crossReadme |-> {"blocked"},
    xml |-> {"domain 42"}, runtime |-> {}]

Absent == {"rcl", "iceoryx"}
Defects == UNION {{f} \X (Phrases[f] \cup {"gone"}) : f \in DOMAIN Phrases}
           \cup (Absent \X {"added"})

Has(f)      == <<f, "gone">> \notin defects
Says(f, ps) == Has(f) /\ \A p \in ps : <<f, p>> \notin defects
Vendored(t) == <<t, "added">> \in defects

-----------------------------------------------------------------------------
(* Claims.  One on the line of a prohibition ("do not write ...") is let    *)
(* pass.                                                                   *)

Matches(doc, kind) == {i \in DOMAIN said : said[i].doc = doc /\ said[i].kind = kind}
FirstOf(hits) == CHOOSE i \in hits : \A j \in hits : i <= j

AnyPlain(doc, kind)   == \E i \in Matches(doc, kind) : ~said[i].warned
FirstPlain(doc, kind) ==
    Matches(doc, kind) # {} /\ ~said[FirstOf(Matches(doc, kind))].warned

(* check_three_chain_repro.py tries every match of its STATUS pattern, but  *)
(* of the other patterns only the first.                                   *)
ReproFabricates == AnyPlain("repro", "status") \/ FirstPlain("repro", "verdict")

(* Mutant: a search in place of finditer. *)
DodFabricatesFirst == FirstPlain("dod", "status") \/ FirstPlain("dod", "verdict")

DodFabricates == AnyPlain("dod", "status") \/ AnyPlain("dod", "verdict")
CegaFabricates(doc)  == AnyPlain(doc, "status") \/ AnyPlain(doc, "verdict")
InventsPercentile(doc) == Matches(doc, "percentile") # {}

(* The first complete row decides; a row with text after its last bar does  *)
(* not count as one.                                                       *)
AdrRowOk(rs) ==
    \E i \in DOMAIN rs :
        /\ rs[i].closed /\ rs[i].cell = "hold"
        /\ \A j \in 1 .. i - 1 : ~rs[j].closed

(* The gate rewrites the first row that says Hold, in memory, and must      *)
(* then refuse it.                                                         *)
Rewritten(rs, cell) ==
    LET holds == {i \in DOMAIN rs : rs[i].cell # "pass"}
    IN IF holds = {} THEN rs ELSE [rs EXCEPT ![FirstOf(holds)].cell = cell]

RowSelfCheck(rs) == \E cell \in {"pass", "hold, pass"} : AdrRowOk(Rewritten(rs, cell))

-----------------------------------------------------------------------------
(* The gates: each is true when its script exits 0.                        *)

HasThreeChains ==
    Says("repro", {"publish", "history"})
    /\ (Says("repro", {"wait->callback"}) \/ Says("repro", {"waitset"}))

ThreeChainRepro ==
    /\ Says("repro", ReproPhrases) /\ HasThreeChains
    /\ Says("map", {"chains"}) /\ Says("exec", {"waitset"}) /\ Says("adr", {"13"})
    /\ Has("xml") /\ Has("scoreboard")
    /\ ~ReproFabricates

DodEvidence ==
    /\ Says("dod", DodPhrases)
    /\ Says("adr", {"6.3"}) /\ Says("provenance", {"underlay"}) /\ Says("map", {"chains"})
    /\ Says("method", {"wiki", "dod"}) /\ Says("swap", {"verdict"})
    /\ Says("proveRmw", {"identity"}) /\ Has("xml") /\ Has("scoreboard")
    /\ ~DodFabricates /\ ~InventsPercentile("dod")

DualChainBaseline ==
    /\ Says("baseline", BaselinePhrases) /\ ~InventsPercentile("baseline")
    /\ Says("adr", {"baseline row"}) /\ Says("freeze", {"hold"})
    /\ Says("map", {"vendor", "not reproduced"}) /\ Says("swap", {"verdict", "versions"})
    /\ Has("xml") /\ Has("scoreboard") /\ Has("chainA") /\ Has("chainB")
    /\ MissingExports("A", {<<"RMW", "fastrtps">>, <<"ID", "42">>,
                            <<"PROFILE", "fastdds">>}) = {}
    /\ MissingExports("B", {<<"RMW", "cyclonedds">>, <<"ID", "0">>}) = {}
    /\ Anchored("B", "export", "URI") = {} /\ Anchored("B", "unset", "URI") # {}

CegaBridgeHold ==
    /\ Says("hold", HoldPhrases) /\ Says("adr", {"13", "cega"})
    /\ Has("xml") /\ Has("scoreboard") /\ Has("runtime")
    /\ AdrRowOk(rows) /\ ~RowSelfCheck(rows)
    /\ ~CegaFabricates("adr") /\ ~CegaFabricates("hold")

SinkLayers ==
    /\ Says("sink", SinkPhrases) /\ Says("adr", {"layers"})
    /\ Says("map", {"not reproduced", "chains"}) /\ Says("exec", {"waitset"})
    /\ Says("swap", {"verdict", "versions"}) /\ Has("xml") /\ Has("scoreboard")
    /\ ~Vendored("rcl") /\ ~Vendored("iceoryx")

RiskMatrix ==
    /\ Says("matrix", MatrixPhrases) /\ Says("adr", {"9.4"}) /\ Says("freeze", {"hold"})
    /\ Says("map", {"vendor"}) /\ Says("method", {"wiki"}) /\ Says("cigates", {"structure"})
    /\ Says("scoreboard", {"status"}) /\ Says("xml", {"domain 42"})

(* One ENV ROS_DISTRO line at least, and none with another value. *)
DockerfilePinsHumble == Says("dockerfile", {"humble pin", "other pin"})

RuntimeProvenance ==
    /\ Says("manifest", {"markers"}) /\ Says("provenance", ProvenancePhrases)
    /\ DockerfilePinsHumble /\ Says("versions", {"rows"}) /\ Has("proveRmw")

UnitreeCycloneSwap ==
    /\ Says("swap", SwapPhrases) /\ Says("versions", {"cyclone row"})
    /\ Says("cmake", {"project"}) /\ Has("xml") /\ Has("scoreboard")

(* The cross-host directory is there while the file in it is. *)
CrossHostHits == {f \in {"scoreboard", "benchReadme", "crossReadme"} : Says(f, {"blocked"})}

BenchGates ==
    /\ Says("scoreboard", {"status"}) /\ Says("benchReadme", {"markers"})
    /\ Says("scriptsReadme", {"cross-host"}) /\ Says("method", {"wiki"})
    /\ Has("crossReadme") /\ CrossHostHits # {}

(* prove_rmw.py reports what it finds and exits 0 whatever it is. *)
ProveRmw == Has("proveRmw")
=============================================================================

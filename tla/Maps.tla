-------------------------------- MODULE Maps --------------------------------
(***************************************************************************)
(* The two maps of the sources, docs/architecture/ros2-source-map.md and    *)
(* feishu-executor-waitset.md, and the gates that hold them to the tree,    *)
(* check_source_map.py and check_executor_map.py.                          *)
(*                                                                         *)
(* A map is the set of its citations: a link or a path in backticks, with   *)
(* a line or without (0), or a bare file name with a line.  One inside a    *)
(* code fence does not count.                                              *)
(***************************************************************************)
EXTENDS Gates

VARIABLES
    cites,     \* the citations of each map
    symbols    \* the lines on which a file has the symbol it is cited for

mapVars == <<cites, symbols>>

Files == {"wait.cpp", "shared wait.cpp", "notes.md"}
Kinds == {"source", "executor"}

(* The files whose symbols a gate looks up. *)
SymbolAllowlist ==
    [source |-> {"shared wait.cpp"}, executor |-> {"wait.cpp", "shared wait.cpp"}]

SymbolFiles == {"wait.cpp", "shared wait.cpp"}
LineNos == 1 .. 2
BaseName == [f \in Files |-> IF f = "shared wait.cpp" THEN "wait.cpp" ELSE f]

(* rcl: a path into vendor/rcl; abroad: a URL or a path out of the tree. *)
Cites == [form : {"path"}, target : Files \cup {"rcl", "abroad"}, line : {0} \cup LineNos,
          fenced : {FALSE}]
         \cup [form : {"path"}, target : Files, line : {1}, fenced : {TRUE}]
         \cup [form : {"name"}, target : {"wait.cpp", "notes.md", "ghost.c"}, line : LineNos,
               fenced : {FALSE}]

Path(f, n) == [form |-> "path", target |-> f, line |-> n, fenced |-> FALSE]

-----------------------------------------------------------------------------
(* Parsing a map.                                                          *)

(* A target outside the tree is no path; and the executor map may cite the  *)
(* trees that must be absent.                                              *)
ToRepoRel(m, target) ==
    IF target = "abroad" \/ (m = "executor" /\ target = "rcl") THEN {} ELSE {target}

Body(m)       == {c \in cites[m] : ~c.fenced}
PathCites(m)  == {c \in Body(m) : c.form = "path"}

(* Mutant: a citation whose line is stale is dropped with its path. *)
CitedPathsFresh(m) ==
    UNION {ToRepoRel(m, c.target) :
            c \in {d \in PathCites(m) : d.target \in SymbolFiles /\ d.line > 0 =>
                                            d.line \in symbols[d.target]}}

CitedPaths(m) == UNION {ToRepoRel(m, c.target) : c \in PathCites(m)}

(* A bare name stands for the one cited path that ends in it, if there is   *)
(* just one.                                                               *)
Meant(m, c)   == {f \in CitedPaths(m) \cap Files : BaseName[f] = c.target}
Ambiguous(m)  == {c \in Body(m) : c.form = "name" /\ Cardinality(Meant(m, c)) > 1}
CitedLines(m, f) ==
    {c.line : c \in {d \in PathCites(m) : d.target = f /\ d.line > 0}}
    \cup {c.line : c \in {d \in Body(m) : d.form = "name" /\ Meant(m, d) = {f}}}

-----------------------------------------------------------------------------
(* The gates.                                                              *)

OnDisk(f)    == IF f = "rcl" THEN Vendored("rcl") ELSE Has(f)
Missing(m)   == {f \in CitedPaths(m) : ~OnDisk(f)}
LookedUp(m)  == {f \in CitedPaths(m) \cap SymbolAllowlist[m] : OnDisk(f)}
Gone(m)      == {f \in LookedUp(m) : symbols[f] = {}}

(* A warning, never a failure: no cited line of the file has the symbol. *)
Stale(m) == {f \in LookedUp(m) \ Gone(m) :
                CitedLines(m, f) # {} /\ CitedLines(m, f) \cap symbols[f] = {}}

Warned(m) == Ambiguous(m) # {} \/ Stale(m) # {}

SourceMap ==
    /\ Has("map") /\ CitedPaths("source") # {}
    /\ Missing("source") = {} /\ Gone("source") = {}

ExecutorMap ==
    /\ {f \in {"exec", "map", "adr", "method", "matrix", "proveRmw", "checkSourceMap"} :
            ~Has(f)} = {}
    /\ ~Vendored("rcl")
    /\ Says("exec", {"markers", "urls"})
    /\ CitedPaths("executor") # {} /\ Missing("executor") = {} /\ Gone("executor") = {}
    /\ SymbolAllowlist["executor"] \subseteq CitedPaths("executor")
=============================================================================

----------------------------- MODULE EvalsProofs ----------------------------
(***************************************************************************)
(* Proofs, for any number of edits of the tree, that what run_evals.py     *)
(* vouches for is so: no forbidden claim hides, the cited sources are      *)
(* there, and the two scripts set their chains.                            *)
(***************************************************************************)
EXTENDS Evals, SequenceTheorems, WellFoundedInduction, TLAPS

(* A tree, whatever was edited in it.                                      *)
TreeOK ==
    /\ scripts \in [Chains -> Seq(Lines)]
    /\ said \in Seq(Claims)
    /\ rows \in Seq(Rows)
    /\ cites \in [Kinds -> SUBSET Cites]
    /\ symbols \in [SymbolFiles -> SUBSET LineNos]

(* What the gates found when they passed: in the documents, in the maps and *)
(* in the scripts.                                                          *)
Hidden(i) ==
    /\ said[i].doc = "repro" /\ said[i].kind = "verdict"
    /\ \E j \in 1 .. i - 1 : said[j] = [said[i] EXCEPT !.warned = TRUE]

ClaimsFine ==
    /\ \A i \in DOMAIN said : Searched(said[i]) /\ ~said[i].warned => Hidden(i)
    /\ \E i \in DOMAIN rows :
          rows[i].closed /\ rows[i].cell = "hold" /\ \A j \in 1 .. i - 1 : ~rows[j].closed

PathsFine ==
    /\ <<"rcl", "added">> \notin defects
    /\ \A m \in Kinds : \A c \in cites[m] :
          c.form = "path" /\ ~c.fenced /\ c.target \in Files =>
              /\ <<c.target, "gone">> \notin defects
              /\ c.target \in SymbolAllowlist[m] => symbols[c.target] # {}

HasLine(chain, verb, def) ==
    \E i \in DOMAIN scripts[chain] : /\ ~scripts[chain][i].off
                                     /\ scripts[chain][i].verb = verb
                                     /\ scripts[chain][i].def = def

NeverExports(n) ==
    \A i \in DOMAIN scripts["B"] :
        ~scripts["B"][i].off /\ scripts["B"][i].verb = "export" => scripts["B"][i].def[1] # n

ScriptsFine ==
    /\ HasLine("A", "export", <<"RMW", "fastrtps">>) /\ HasLine("A", "export", <<"ID", "42">>)
    /\ HasLine("A", "export", <<"PROFILE", "fastdds">>)
    /\ HasLine("B", "export", <<"RMW", "cyclonedds">>) /\ HasLine("B", "export", <<"ID", "0">>)
    /\ HasLine("B", "unset", <<"URI", "none">>) /\ NeverExports("URI")

GatesSay == ClaimsFine /\ PathsFine /\ ScriptsFine

(* What the isolation suite adds.                                           *)
IsolationSays == NeverExports("PROFILE")

(* A suite that ran on the tree as it is, without a failure so far.         *)
Ran(s) == s \in ToSet(chosen) /\ s \notin ToSet(todo)

Suites == {"gate", "config", "isolation", "api", "bench"}

RunInv ==
    /\ chosen \in Seq(Suites) /\ todo \in Seq(Suites)
    /\ failed \in BOOLEAN /\ blocked \in BOOLEAN
    /\ exit \in -1 .. 2 /\ (chosen = <<>> => exit = -1)
    /\ exit # -1 => todo = <<>> /\ (exit \in {0, 2} => ~failed)
    /\ ~failed /\ Ran("gate") => GatesSay
    /\ ~failed /\ Ran("isolation") => IsolationSays

Inv == TreeOK /\ RunInv

-----------------------------------------------------------------------------
(* A gate that passed.                                                      *)

(* A set of numbers that is not empty has a least one.                       *)
LEMMA Least ==
    ASSUME NEW S \in SUBSET Nat, S # {}
    PROVE  \E x \in S : \A y \in S : x <= y
<1>1. PICK x \in S : \A y \in S : ~(<<y, x>> \in OpToRel(<, Nat))
  BY NatLessThanWellFounded, WFMin, Zenon
<1>2. \A y \in S : ~(y < x)
  BY <1>1 DEF OpToRel
<1>3. QED
  BY <1>2

(* FirstOf picks it.                                                         *)
LEMMA FirstOfIs ==
    ASSUME NEW S \in SUBSET Nat, S # {}
    PROVE  FirstOf(S) \in S /\ \A j \in S : FirstOf(S) <= j
BY Least, Zenon DEF FirstOf

(* Each gate of a suite that passed has passed.                             *)
LEMMA GatesPassed ==
    ASSUME GateSuite
    PROVE  /\ SourceMap /\ ExecutorMap /\ ThreeChainRepro /\ DualChainBaseline
           /\ DodEvidence /\ CegaBridgeHold
<1>1. FALSE \notin Gates
  BY DEF GateSuite
<1>2. /\ SourceMap \in BOOLEAN /\ ExecutorMap \in BOOLEAN /\ ThreeChainRepro \in BOOLEAN
      /\ DualChainBaseline \in BOOLEAN /\ DodEvidence \in BOOLEAN /\ CegaBridgeHold \in BOOLEAN
  BY DEF SourceMap, ExecutorMap, ThreeChainRepro, DualChainBaseline, DodEvidence, CegaBridgeHold
<1>3. QED
  BY <1>1, <1>2 DEF Gates

(* A search for the first match lets a plain claim pass only behind one     *)
(* that a prohibition covers.                                               *)
LEMMA PlainBehindFirst ==
    ASSUME TreeOK, NEW doc, NEW kind, ~FirstPlain(doc, kind),
           NEW i \in Matches(doc, kind), ~said[i].warned
    PROVE  \E j \in 1 .. i - 1 : said[j] = [said[i] EXCEPT !.warned = TRUE]
<1> DEFINE S == Matches(doc, kind)
<1>1. S \in SUBSET Nat /\ S # {}
  BY DEF Matches, TreeOK
<1>2. FirstOf(S) \in S /\ \A j \in S : FirstOf(S) <= j
  BY <1>1, FirstOfIs
<1>3. said[FirstOf(S)].warned
  BY <1>1 DEF FirstPlain
<1>4. FirstOf(S) \in 1 .. i - 1
  <2>1. FirstOf(S) <= i /\ FirstOf(S) # i
    BY <1>2, <1>3
  <2>2. FirstOf(S) \in 1 .. Len(said) /\ i \in 1 .. Len(said)
    BY <1>2 DEF Matches, TreeOK
  <2>3. QED
    BY <2>1, <2>2
<1>5. said[i] \in Claims /\ said[FirstOf(S)] \in Claims
  BY <1>2 DEF Matches, TreeOK
<1>6. said[FirstOf(S)].doc = said[i].doc /\ said[FirstOf(S)].kind = said[i].kind
  BY <1>2 DEF Matches
<1>7. said[FirstOf(S)] = [said[i] EXCEPT !.warned = TRUE]
  BY <1>3, <1>5, <1>6 DEF Claims
<1>8. QED
  BY <1>4, <1>7

(* The document gates together.                                             *)
LEMMA ClaimsPassed ==
    ASSUME TreeOK, GateSuite
    PROVE  ClaimsFine
<1>1. /\ ~ReproFabricates /\ ~DodFabricates /\ ~InventsPercentile("dod")
      /\ ~InventsPercentile("baseline") /\ ~CegaFabricates("adr") /\ ~CegaFabricates("hold")
      /\ AdrRowOk(rows)
  BY GatesPassed DEF ThreeChainRepro, DodEvidence, DualChainBaseline, CegaBridgeHold
<1>2. ASSUME NEW i \in DOMAIN said, Searched(said[i]), ~said[i].warned
      PROVE  Hidden(i)
  <2>1. said[i] \in Claims /\ i \in Matches(said[i].doc, said[i].kind)
    BY DEF TreeOK, Matches
  <2>2. said[i].doc \in ClaimDocs
    BY <2>1 DEF Claims
  <2>3. CASE said[i].doc = "baseline"
    <3>1. said[i].kind = "percentile"
      BY <1>2, <2>3 DEF Searched
    <3>2. QED
      BY <1>1, <2>1, <2>3, <3>1 DEF InventsPercentile
  <2>4. CASE said[i].doc = "dod"
    <3>1. said[i].kind \in {"status", "verdict", "percentile"}
      BY <1>2, <2>4 DEF Searched
    <3>2. QED
      BY <1>1, <1>2, <2>1, <2>4, <3>1 DEF InventsPercentile, DodFabricates, AnyPlain
  <2>5. CASE said[i].doc \in {"adr", "hold"}
    <3>1. said[i].kind \in {"status", "verdict"}
      BY <1>2, <2>5 DEF Searched
    <3>2. QED
      BY <1>1, <1>2, <2>1, <2>5, <3>1 DEF CegaFabricates, AnyPlain
  <2>6. CASE said[i].doc = "repro"
    <3>1. said[i].kind \in {"status", "verdict"}
      BY <1>2, <2>6 DEF Searched
    <3>2. said[i].kind # "status"
      BY <1>1, <1>2, <2>1, <2>6 DEF ReproFabricates, AnyPlain
    <3>3. ~FirstPlain("repro", "verdict") /\ i \in Matches("repro", "verdict")
      BY <1>1, <2>1, <2>6, <3>1, <3>2 DEF ReproFabricates
    <3>4. \E j \in 1 .. i - 1 : said[j] = [said[i] EXCEPT !.warned = TRUE]
      BY <1>2, <3>3, PlainBehindFirst
    <3>5. QED
      BY <2>6, <3>1, <3>2, <3>4 DEF Hidden
  <2>7. QED
    BY <2>2, <2>3, <2>4, <2>5, <2>6 DEF ClaimDocs
<1>3. QED
  BY <1>1, <1>2 DEF ClaimsFine, AdrRowOk

(* The two gates of the maps.                                               *)
LEMMA PathsPassed ==
    ASSUME TreeOK, GateSuite
    PROVE  PathsFine
<1>1. /\ ~Vendored("rcl")
      /\ \A m \in Kinds : Missing(m) = {} /\ Gone(m) = {}
  BY GatesPassed DEF SourceMap, ExecutorMap, Kinds
<1>2. ASSUME NEW m \in Kinds, NEW c \in cites[m],
             c.form = "path", ~c.fenced, c.target \in Files
      PROVE  /\ <<c.target, "gone">> \notin defects
             /\ c.target \in SymbolAllowlist[m] => symbols[c.target] # {}
  <2>1. c.target \in CitedPaths(m)
    <3>1. c \in PathCites(m)
      BY <1>2 DEF PathCites, Body
    <3>2. c.target \in ToRepoRel(m, c.target)
      BY <1>2 DEF ToRepoRel, Files
    <3>3. QED
      BY <3>1, <3>2 DEF CitedPaths
  <2>2. OnDisk(c.target)
    BY <1>1, <2>1 DEF Missing
  <2>3. Has(c.target)
    BY <1>2, <2>2 DEF OnDisk, Files
  <2>4. c.target \in SymbolAllowlist[m] => symbols[c.target] # {}
    BY <1>1, <2>1, <2>2 DEF LookedUp, Gone
  <2>5. QED
    BY <2>3, <2>4 DEF Has
<1>3. QED
  BY <1>1, <1>2 DEF PathsFine, Vendored

(* The gate of the two scripts, and the isolation suite.                    *)
LEMMA ScriptsPassed ==
    ASSUME TreeOK, GateSuite
    PROVE  ScriptsFine
<1>1. /\ MissingExports("A", {<<"RMW", "fastrtps">>, <<"ID", "42">>,
                              <<"PROFILE", "fastdds">>}) = {}
      /\ MissingExports("B", {<<"RMW", "cyclonedds">>, <<"ID", "0">>}) = {}
      /\ Anchored("B", "export", "URI") = {} /\ Anchored("B", "unset", "URI") # {}
  BY GatesPassed DEF DualChainBaseline
<1>2. ASSUME NEW chain \in Chains, NEW wanted, NEW d \in wanted, MissingExports(chain, wanted) = {}
      PROVE  HasLine(chain, "export", d)
  BY <1>2 DEF MissingExports, Anchored, About, HasLine
<1>3. HasLine("B", "unset", <<"URI", "none">>)
  <2>1. PICK i \in DOMAIN scripts["B"] : /\ ~scripts["B"][i].off
                                        /\ scripts["B"][i].verb = "unset"
                                        /\ scripts["B"][i].def[1] = "URI"
    BY <1>1 DEF Anchored, About
  <2>2. scripts["B"][i] \in Lines
    BY DEF TreeOK, Chains
  <2>3. scripts["B"][i].def = <<"URI", "none">>
    BY <2>1, <2>2 DEF Lines
  <2>4. QED
    BY <2>1, <2>3 DEF HasLine
<1>4. NeverExports("URI")
  BY <1>1 DEF Anchored, About, NeverExports
<1>5. QED
  BY <1>1, <1>2, <1>3, <1>4 DEF ScriptsFine, Chains

(* The isolation suite reads the first export of the profile of chain B.     *)
LEMMA IsolationPassed ==
    ASSUME TreeOK, IsolationSuite
    PROVE  IsolationSays
<1>1. ExtractExport("B", "PROFILE") = "none"
  BY DEF IsolationSuite
<1> DEFINE S == Anchored("B", "export", "PROFILE")
<1>2. S = {}
  <2> SUFFICES ASSUME S # {} PROVE FALSE
    OBVIOUS
  <2>1. S \in SUBSET Nat
    BY DEF Anchored, About, TreeOK, Chains
  <2>2. FirstOf(S) \in S
    BY <2>1, FirstOfIs
  <2>3. ExtractExport("B", "PROFILE") = scripts["B"][FirstOf(S)].def[2]
    BY DEF ExtractExport, FirstOf
  <2>4. /\ scripts["B"][FirstOf(S)] \in Lines
        /\ scripts["B"][FirstOf(S)].verb = "export"
    <3>1. scripts["B"] \in Seq(Lines)
      BY DEF TreeOK, Chains
    <3>2. FirstOf(S) \in DOMAIN scripts["B"] /\ scripts["B"][FirstOf(S)].verb = "export"
      BY <2>2 DEF Anchored, About
    <3>3. QED
      BY <3>1, <3>2
  <2>5. scripts["B"][FirstOf(S)].def \in Exports
    BY <2>4 DEF Lines
  <2>6. \A d \in Exports : d[2] # "none"
    BY DEF Exports
  <2>7. QED
    BY <1>1, <2>3, <2>5, <2>6
<1>3. QED
  BY <1>2 DEF IsolationSays, NeverExports, Anchored, About

-----------------------------------------------------------------------------
(* Edits.                                                                   *)

(* A document or script with a line more or less is still one.               *)
LEMMA InsertedSeq ==
    ASSUME NEW T, NEW s \in Seq(T), NEW x \in T, NEW r \in Inserted(s, x)
    PROVE  r \in Seq(T)
<1>1. <<x>> \o s \in Seq(T)
  BY ConcatProperties
<1>2. Append(s, x) \in Seq(T)
  BY AppendProperties
<1>3. QED
  BY <1>1, <1>2 DEF Inserted

LEMMA RemovedSeq ==
    ASSUME NEW T, NEW s \in Seq(T), NEW r \in Removed(s)
    PROVE  r \in Seq(T)
<1>1. PICK i \in DOMAIN s : r = RemoveAt(s, i)
  BY DEF Removed
<1>2. SubSeq(s, 1, i - 1) \in Seq(T) /\ SubSeq(s, i + 1, Len(s)) \in Seq(T)
  BY SubSeqProperties
<1>3. QED
  BY <1>1, <1>2, ConcatProperties DEF RemoveAt

(* Any edit leaves a tree of documents, rows, scripts and maps.              *)
LEMMA TreeStep ==
    ASSUME TreeOK, [Next]_vars
    PROVE  TreeOK'
<1> USE DEF TreeOK
<1>1. CASE Damage
  BY <1>1 DEF Damage, mapVars
<1>2. CASE Claim
  <2>1. said' \in Seq(Claims)
    BY <1>2, InsertedSeq DEF Claim
  <2>2. QED
    BY <1>2, <2>1 DEF Claim, mapVars
<1>3. CASE EditRows
  <2>1. rows' \in Seq(Rows)
    BY <1>3, InsertedSeq, RemovedSeq DEF EditRows
  <2>2. QED
    BY <1>3, <2>1 DEF EditRows, mapVars
<1>4. CASE EditScript
  <2>1. PICK c \in Chains, l \in Lines :
           \E s \in Inserted(scripts[c], l) \cup Removed(scripts[c]) :
               scripts' = [scripts EXCEPT ![c] = s]
    BY <1>4 DEF EditScript
  <2> PICK s \in Inserted(scripts[c], l) \cup Removed(scripts[c]) :
         scripts' = [scripts EXCEPT ![c] = s]
    BY <2>1
  <2>2. s \in Seq(Lines)
    BY <2>1, InsertedSeq, RemovedSeq
  <2>3. QED
    BY <1>4, <2>1, <2>2 DEF EditScript, mapVars
<1>5. CASE EditMap
  BY <1>5 DEF EditMap, docVars
<1>6. CASE MoveSource
  BY <1>6 DEF MoveSource
<1>7. CASE Start \/ RunSuite \/ Report \/ UNCHANGED vars
  BY <1>7 DEF Start, RunSuite, Report, vars, docVars, mapVars
<1>8. QED
  BY <1>1, <1>2, <1>3, <1>4, <1>5, <1>6, <1>7 DEF Next

-----------------------------------------------------------------------------
(* Runs.                                                                    *)

(* Between edits the tree is what it was when the gates passed.             *)
LEMMA SameTree ==
    ASSUME UNCHANGED <<docVars, mapVars>>
    PROVE  (GatesSay => GatesSay') /\ (IsolationSays => IsolationSays')
<1> USE DEF docVars, mapVars
<1>1. ClaimsFine => ClaimsFine'
  BY DEF ClaimsFine, Hidden, Searched
<1>2. PathsFine => PathsFine'
  BY DEF PathsFine
<1>3. \A chain, verb, def : HasLine(chain, verb, def) <=> HasLine(chain, verb, def)'
  BY DEF HasLine
<1>4. \A n : NeverExports(n) <=> NeverExports(n)'
  BY DEF NeverExports
<1>5. QED
  BY <1>1, <1>2, <1>3, <1>4 DEF GatesSay, ScriptsFine, IsolationSays

(* An edit ends what the last report vouched for.                            *)
LEMMA EditRun ==
    ASSUME RunInv, NEW p, Edit(p)
    PROVE  RunInv'
<1>1. ~Ran("gate")' /\ ~Ran("isolation")'
  BY DEF Edit, Ran, ToSet
<1>2. QED
  BY <1>1 DEF RunInv, Edit, Resting

(* A new run has run no suite yet.                                           *)
LEMMA StartRun ==
    ASSUME RunInv, Start
    PROVE  RunInv'
<1>1. PICK c \in {ALL_SUITES} \cup {<<ALL_SUITES[i]>> : i \in DOMAIN ALL_SUITES} :
         chosen' = c /\ todo' = c
  BY DEF Start
<1> c \in Seq(Suites)
  <2>1. ALL_SUITES \in Seq(Suites)
    BY DEF ALL_SUITES, Suites
  <2>2. \A i \in DOMAIN ALL_SUITES : ALL_SUITES[i] \in Suites
    BY <2>1
  <2>3. \A x \in Suites : <<x>> \in Seq(Suites)
    OBVIOUS
  <2>4. QED
    BY <1>1, <2>1, <2>2, <2>3, Zenon
<1>2. ~Ran("gate")' /\ ~Ran("isolation")'
  BY <1>1 DEF Ran
<1>3. exit' = -1
  BY DEF Start, RunInv
<1>4. QED
  BY <1>1, <1>2, <1>3 DEF RunInv, Start

(* The first of a pair, for the outcomes of a suite.                         *)
LEMMA PairFirst ==
    ASSUME NEW a, NEW b
    PROVE  <<a, b>>[1] = a
OBVIOUS

(* A suite that passes adds what its gates say; one that fails spoils the    *)
(* run.                                                                      *)
LEMMA SuiteRun ==
    ASSUME TreeOK, RunInv, RunSuite
    PROVE  RunInv'
<1>1. PICK r \in Outcomes(Head(todo)) :
         failed' = (failed \/ r[1]) /\ blocked' = (blocked \/ r[2])
  BY DEF RunSuite
<1>2. /\ todo # <<>> /\ todo' = Tail(todo) /\ UNCHANGED <<docVars, mapVars, chosen, exit>>
  BY DEF RunSuite
<1>3. Head(todo) \in Suites /\ todo' \in Seq(Suites)
  BY <1>2 DEF RunInv
<1>4. failed' \in BOOLEAN /\ blocked' \in BOOLEAN
  BY <1>1, Zenon
<1>5. exit' = -1
  BY <1>2 DEF RunInv
<1>6. \A s : Ran(s)' => Ran(s) \/ s = Head(todo)
  <2>1. ToSet(todo) \subseteq {Head(todo)} \cup ToSet(Tail(todo))
    <3>1. \A i \in DOMAIN todo :
             i # 1 => todo[i] = Tail(todo)[i - 1] /\ i - 1 \in DOMAIN Tail(todo)
      BY <1>2 DEF RunInv
    <3>2. Head(todo) = todo[1]
      BY <1>2 DEF RunInv
    <3>3. QED
      BY <3>1, <3>2 DEF ToSet
  <2>2. QED
    BY <1>2, <2>1 DEF Ran
<1>7. ~failed' => ~failed /\ ~r[1]
  BY <1>1, Zenon
<1>8. ASSUME ~failed', Head(todo) = "gate"
      PROVE  GatesSay
  <2>1. Outcomes("gate") = {<<TRUE, FALSE>>, <<~GateSuite, FALSE>>}
    BY DEF Outcomes
  <2>2. GateSuite
    BY <1>1, <1>7, <1>8, <2>1, PairFirst, Zenon
  <2>3. QED
    BY <2>2, ClaimsPassed, PathsPassed, ScriptsPassed DEF GatesSay
<1>9. ASSUME ~failed', Head(todo) = "isolation"
      PROVE  IsolationSays
  <2>1. Outcomes("isolation") = {<<~IsolationSuite, FALSE>>}
    BY DEF Outcomes
  <2>2. IsolationSuite
    BY <1>1, <1>7, <1>9, <2>1, PairFirst, Zenon
  <2>3. QED
    BY <2>2, IsolationPassed
<1>10. ~failed' /\ Ran("gate")' => GatesSay'
  BY <1>2, <1>6, <1>7, <1>8, SameTree DEF RunInv
<1>11. ~failed' /\ Ran("isolation")' => IsolationSays'
  BY <1>2, <1>6, <1>7, <1>9, SameTree DEF RunInv
<1>12. QED
  BY <1>2, <1>3, <1>4, <1>5, <1>10, <1>11 DEF RunInv

(* The report, or nothing at all, leaves the tree and the suites as they are. *)
LEMMA ReportRun ==
    ASSUME RunInv, Report \/ UNCHANGED vars
    PROVE  RunInv'
<1>1. UNCHANGED <<docVars, mapVars, chosen, todo, failed, blocked>>
  BY DEF Report, vars, evalVars
<1>2. \A s : Ran(s)' <=> Ran(s)
  BY <1>1 DEF Ran
<1>3. exit' \in -1 .. 2 /\ (chosen' = <<>> => exit' = -1)
  BY DEF Report, OverallExitCode, vars, evalVars, RunInv
<1>4. exit' # -1 => todo' = <<>> /\ (exit' \in {0, 2} => ~failed')
  BY DEF Report, OverallExitCode, vars, evalVars, RunInv
<1>5. ~failed /\ Ran("gate") => GatesSay'
  BY <1>1, SameTree DEF RunInv
<1>6. ~failed /\ Ran("isolation") => IsolationSays'
  BY <1>1, SameTree DEF RunInv
<1>7. QED
  BY <1>1, <1>2, <1>3, <1>4, <1>5, <1>6 DEF RunInv

(* The tree as shipped, before any run.                                      *)
LEMMA InvInit == Init => Inv
<1> SUFFICES ASSUME Init PROVE Inv
  OBVIOUS
<1>1. scripts \in [Chains -> Seq(Lines)]
  <2>1. AsShipped.A \in Seq(Lines) /\ AsShipped.B \in Seq(Lines)
    BY DEF AsShipped, Export, Unset, Lines, Exports, Names
  <2>2. QED
    BY <2>1 DEF Init, Chains, AsShipped
<1>2. cites \in [Kinds -> SUBSET Cites]
  <2>1. Path("shared wait.cpp", 1) \in Cites /\ Path("notes.md", 0) \in Cites
    BY DEF Path, Cites, Files, LineNos
  <2>2. Path("wait.cpp", 1) \in Cites
    BY DEF Path, Cites, Files, LineNos
  <2>3. cites = [source   |-> {Path("shared wait.cpp", 1), Path("notes.md", 0)},
                 executor |-> {Path("wait.cpp", 1), Path("shared wait.cpp", 1)}]
    BY DEF Init
  <2>4. /\ {Path("shared wait.cpp", 1), Path("notes.md", 0)} \in SUBSET Cites
        /\ {Path("wait.cpp", 1), Path("shared wait.cpp", 1)} \in SUBSET Cites
    BY <2>1, <2>2
  <2>5. ASSUME NEW a \in SUBSET Cites, NEW b \in SUBSET Cites
        PROVE  [source |-> a, executor |-> b] \in [Kinds -> SUBSET Cites]
    BY DEF Kinds
  <2>6. QED
    BY <2>3, <2>4, <2>5, Zenon
<1>3. TreeOK
  <2>1. said = <<>> /\ rows = <<[closed |-> TRUE, cell |-> "hold"]>>
    BY DEF Init
  <2>2. <<[closed |-> TRUE, cell |-> "hold"]>> \in Seq(Rows)
    BY DEF Rows
  <2>3. [f \in SymbolFiles |-> {1}] \in [SymbolFiles -> SUBSET LineNos]
    BY DEF LineNos
  <2>4. symbols = [f \in SymbolFiles |-> {1}]
    BY DEF Init
  <2>5. QED
    BY <1>1, <1>2, <2>1, <2>2, <2>3, <2>4 DEF TreeOK
<1>4. ~Ran("gate") /\ ~Ran("isolation")
  BY DEF Init, Ran, ToSet
<1>5. chosen = <<>> /\ todo = <<>> /\ failed = FALSE /\ blocked = FALSE /\ exit = -1
  BY DEF Init
<1>6. RunInv
  <2>1. <<>> \in Seq(Suites) /\ -1 \in -1 .. 2
    OBVIOUS
  <2>2. QED
    BY <1>4, <1>5, <2>1, Zenon DEF RunInv
<1>7. QED
  BY <1>3, <1>6 DEF Inv

(* After any edits and runs, a run without a failed suite whose gates have   *)
(* run has a tree of which what the gates look for holds; likewise the       *)
(* isolation suite.                                                          *)
THEOREM EvalsInvariant == Spec => []Inv
<1>1. Inv /\ [Next]_vars => Inv'
  <2> SUFFICES ASSUME Inv, [Next]_vars PROVE Inv'
    OBVIOUS
  <2>1. TreeOK'
    BY TreeStep DEF Inv
  <2>2. CASE Damage \/ Claim \/ EditRows
    BY <2>1, <2>2, EditRun DEF Damage, Claim, EditRows, Inv
  <2>3. CASE EditScript \/ EditMap \/ MoveSource
    BY <2>1, <2>3, EditRun DEF EditScript, EditMap, MoveSource, Inv
  <2>4. CASE Start
    BY <2>1, <2>4, StartRun DEF Inv
  <2>5. CASE RunSuite
    BY <2>1, <2>5, SuiteRun DEF Inv
  <2>6. CASE Report \/ UNCHANGED vars
    BY <2>1, <2>6, ReportRun DEF Inv
  <2>7. QED
    BY <2>2, <2>3, <2>4, <2>5, <2>6 DEF Next
<1>2. QED
  BY InvInit, <1>1, PTL DEF Spec

(* A report that vouches for a suite has run it, and no suite failed.        *)
LEMMA VouchedFor ==
    ASSUME Inv
    PROVE  /\ Vouched("gate") => GatesSay
           /\ Vouched("isolation") => IsolationSays
<1>1. ASSUME NEW s, Vouched(s)
      PROVE  Ran(s) /\ ~failed
  BY <1>1 DEF Vouched, Inv, RunInv, Ran, ToSet
<1>2. QED
  BY <1>1 DEF Inv, RunInv

-----------------------------------------------------------------------------
(* When the gates vouch for the tree, no document makes a claim they look    *)
(* for outside a prohibition, where of the verdicts in the three-chain       *)
(* document only the first is looked at; and the first complete row of the   *)
(* ADR says Hold.                                                            *)
THEOREM NoClaimHides == Spec => []ClaimsCaught
<1>1. Inv => ClaimsCaught
  BY VouchedFor DEF GatesSay, ClaimsFine, Hidden, ClaimsCaught
<1>2. QED
  BY <1>1, EvalsInvariant, PTL

(* When the gates vouch for the maps, what they cite is there, with its      *)
(* symbol, and without a warning one of its cited lines has it.              *)
THEOREM CitedIsThere == Spec => []CitesHold
<1>1. ASSUME Inv, Vouched("gate")
      PROVE  CitesHold
  <2>1. PathsFine
    BY <1>1, VouchedFor DEF GatesSay
  <2>2. ASSUME NEW m \in Kinds, NEW c \in cites[m], c.form = "path", ~c.fenced,
               c.target \in Files, c.target \in SymbolAllowlist[m], ~Warned(m), c.line > 0
        PROVE  \E d \in cites[m] : /\ d.target \in {c.target, BaseName[c.target]}
                                   /\ d.line \in symbols[c.target]
    <3> DEFINE f == c.target
    <3>1. f \in CitedPaths(m)
      BY <2>2 DEF CitedPaths, PathCites, Body, ToRepoRel, Files
    <3>2. f \in LookedUp(m) \ Gone(m)
      BY <2>1, <2>2, <3>1 DEF PathsFine, LookedUp, Gone, OnDisk, Has, Files
    <3>3. CitedLines(m, f) # {}
      BY <2>2 DEF CitedLines, PathCites, Body
    <3>4. CitedLines(m, f) \cap symbols[f] # {}
      BY <2>2, <3>2, <3>3 DEF Warned, Stale
    <3>5. PICK n \in symbols[f] : n \in CitedLines(m, f)
      BY <3>4
    <3>6. CASE \E d \in PathCites(m) : d.target = f /\ d.line = n
      BY <3>5, <3>6 DEF PathCites, Body
    <3>7. CASE \E d \in Body(m) : Meant(m, d) = {f} /\ d.line = n
      <4>1. PICK d \in Body(m) : Meant(m, d) = {f} /\ d.line = n
        BY <3>7
      <4>2. BaseName[f] = d.target
        BY <4>1 DEF Meant
      <4>3. QED
        BY <3>5, <4>1, <4>2 DEF Body
    <3>8. QED
      BY <3>5, <3>6, <3>7 DEF CitedLines
  <2>3. QED
    BY <2>1, <2>2 DEF CitesHold, PathsFine, Has, Vendored
<1>2. Inv => CitesHold
  BY <1>1 DEF CitesHold
<1>3. QED
  BY <1>2, EvalsInvariant, PTL

(* The last line about a variable is one of them.                            *)
LEMMA LastOfIs ==
    ASSUME TreeOK, NEW chain \in Chains, NEW n, About(chain, n) # {}
    PROVE  /\ LastOf(About(chain, n)) \in About(chain, n)
           /\ \A j \in About(chain, n) : j <= LastOf(About(chain, n))
<1> DEFINE S == About(chain, n)
           T == {Len(scripts[chain]) - x : x \in S}
<1>1. S \subseteq 1 .. Len(scripts[chain]) /\ Len(scripts[chain]) \in Nat
  BY DEF About, TreeOK
<1>2. T \in SUBSET Nat /\ T # {}
  BY <1>1
<1>3. PICK t \in T : \A u \in T : t <= u
  BY <1>2, Least
<1>4. PICK x \in S : t = Len(scripts[chain]) - x
  OBVIOUS
<1>5. \A j \in S : j <= x
  <2> TAKE j \in S
  <2>1. Len(scripts[chain]) - x <= Len(scripts[chain]) - j
    BY <1>3, <1>4
  <2>2. QED
    BY <1>1, <2>1
<1>6. QED
  BY <1>5, Zenon DEF LastOf

(* A shell ends with what a line says unless a later one says otherwise.     *)
LEMMA LineOrLater ==
    ASSUME TreeOK, NEW chain \in Chains, NEW n \in Names, NEW v,
           HasLine(chain, "export", <<n, v>>), NEW e
    PROVE  Sourced(chain, e)[n] = v \/ Overridden(chain, n, v)
<1>1. PICK i \in DOMAIN scripts[chain] : /\ ~scripts[chain][i].off
                                        /\ scripts[chain][i].def = <<n, v>>
  BY DEF HasLine
<1>2. i \in About(chain, n) /\ scripts[chain][i].def[2] = v
  BY <1>1 DEF About
<1> DEFINE l == LastOf(About(chain, n))
<1>3. l \in About(chain, n) /\ i <= l
  BY <1>2, LastOfIs
<1>4. Sourced(chain, e)[n] = scripts[chain][l].def[2]
  BY <1>2 DEF Sourced
<1>5. CASE scripts[chain][l].def[2] = v
  BY <1>4, <1>5
<1>6. CASE scripts[chain][l].def[2] # v
  <2>1. i < l
    <3>1. scripts[chain] \in Seq(Lines) /\ About(chain, n) \subseteq DOMAIN scripts[chain]
      BY DEF About, TreeOK
    <3>2. i \in Nat /\ l \in Nat
      BY <1>2, <1>3, <3>1
    <3>3. i # l
      BY <1>2, <1>6
    <3>4. QED
      BY <1>3, <3>2, <3>3
  <2>2. QED
    BY <1>2, <1>3, <1>6, <2>1 DEF Overridden
<1>7. QED
  BY <1>5, <1>6

(* A variable that chain B never exports keeps its value or is unset, and is *)
(* unset if any line is about it.                                            *)
LEMMA KeptOrUnset ==
    ASSUME TreeOK, NEW n \in Names, NeverExports(n), NEW e
    PROVE  /\ Sourced("B", e)[n] \in {e[n], "none"}
           /\ About("B", n) # {} => Sourced("B", e)[n] = "none"
<1>1. CASE About("B", n) = {}
  BY <1>1 DEF Sourced
<1>2. CASE About("B", n) # {}
  <2> DEFINE l == LastOf(About("B", n))
  <2>1. l \in About("B", n)
    BY <1>2, LastOfIs DEF Chains
  <2>2. /\ l \in DOMAIN scripts["B"] /\ scripts["B"][l] \in Lines
        /\ ~scripts["B"][l].off /\ scripts["B"][l].def[1] = n
    <3>1. scripts["B"] \in Seq(Lines)
      BY DEF TreeOK, Chains
    <3>2. /\ l \in DOMAIN scripts["B"]
          /\ ~scripts["B"][l].off /\ scripts["B"][l].def[1] = n
      BY <2>1 DEF About
    <3>3. QED
      BY <3>1, <3>2
  <2>3. scripts["B"][l].verb # "export"
    BY <2>2 DEF NeverExports
  <2>4. scripts["B"][l].def \in Names \X {"none"}
    BY <2>2, <2>3 DEF Lines
  <2>5. scripts["B"][l].def[2] = "none"
    BY <2>4
  <2>6. QED
    BY <1>2, <2>5 DEF Sourced
<1>3. QED
  BY <1>1, <1>2

(* When the gates vouch for the two scripts, a shell that sources one ends    *)
(* with each value of its chain unless a later line says otherwise, whatever  *)
(* it had before; chain B ends without a network file of Cyclone, and with    *)
(* the isolation suite never brings in the profile of chain A.                *)
THEOREM ChainsStayApart == Spec => []ChainsApart
<1>1. ASSUME Inv, NEW e \in Envs, Vouched("gate")
      PROVE  /\ \A w \in ChainValues : \/ Sourced(w[1], e)[w[2]] = w[3]
                                       \/ Overridden(w[1], w[2], w[3])
             /\ Sourced("B", e)["URI"] = "none"
  <2>1. TreeOK /\ ScriptsFine
    BY <1>1, VouchedFor DEF Inv, GatesSay
  <2>2. ASSUME NEW chain \in Chains, NEW n \in Names, NEW v,
               HasLine(chain, "export", <<n, v>>)
        PROVE  Sourced(chain, e)[n] = v \/ Overridden(chain, n, v)
    BY <2>1, <2>2, LineOrLater
  <2>3. ASSUME NEW w \in ChainValues
        PROVE  Sourced(w[1], e)[w[2]] = w[3] \/ Overridden(w[1], w[2], w[3])
    <3>1. /\ w[1] \in Chains /\ w[2] \in Names
          /\ HasLine(w[1], "export", <<w[2], w[3]>>)
      BY <2>1 DEF ChainValues, Chains, Names, ScriptsFine
    <3>2. QED
      BY <2>2, <3>1
  <2>4. Sourced("B", e)["URI"] = "none"
    <3>1. PICK i \in DOMAIN scripts["B"] : /\ ~scripts["B"][i].off
                                          /\ scripts["B"][i].def = <<"URI", "none">>
      BY <2>1 DEF ScriptsFine, HasLine
    <3>2. About("B", "URI") # {} /\ "URI" \in Names
      BY <3>1 DEF About, Names
    <3>3. QED
      BY <2>1, <3>2, KeptOrUnset DEF ScriptsFine
  <2>5. QED
    BY <2>3, <2>4
<1>2. ASSUME Inv, NEW e \in Envs, Vouched("isolation")
      PROVE  Sourced("B", e)["PROFILE"] \in {e["PROFILE"], "none"}
  <2>1. TreeOK /\ NeverExports("PROFILE") /\ "PROFILE" \in Names
    BY <1>2, VouchedFor DEF Inv, IsolationSays, Names
  <2>2. QED
    BY <2>1, KeptOrUnset
<1>3. Inv => ChainsApart
  BY <1>1, <1>2 DEF ChainsApart
<1>4. QED
  BY <1>3, EvalsInvariant, PTL
=============================================================================

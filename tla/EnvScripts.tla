----------------------------- MODULE EnvScripts -----------------------------
(***************************************************************************)
(* config/env/chain_a.sh and chain_b.sh as texts: what the checks of the   *)
(* repository find in them, and what a shell that sources them ends with.  *)
(* A line is commented out (off) or not; it exports or unsets a variable.  *)
(***************************************************************************)
EXTENDS Naturals, Sequences, SequencesExt

VARIABLE scripts   \* the lines of each chain's script

Chains == {"A", "B"}
Names == {"RMW", "ID", "PROFILE", "URI"}
Exports == {<<"RMW", "fastrtps">>, <<"RMW", "cyclonedds">>, <<"ID", "42">>,
            <<"ID", "0">>, <<"PROFILE", "fastdds">>, <<"URI", "xml">>}
Lines == [off : BOOLEAN, verb : {"export"}, def : Exports]
           \cup [off : BOOLEAN, verb : {"unset"}, def : Names \X {"none"}]

Export(n, v) == [off |-> FALSE, verb |-> "export", def |-> <<n, v>>]
Unset(n)     == [off |-> FALSE, verb |-> "unset", def |-> <<n, "none">>]

AsShipped == [A |-> <<Export("RMW", "fastrtps"), Export("ID", "42"),
                      Export("PROFILE", "fastdds")>>,
              B |-> <<Export("RMW", "cyclonedds"), Export("ID", "0"), Unset("URI")>>]

-----------------------------------------------------------------------------
(* What a shell does with them: the last line about a variable wins.       *)

(* The lines about a variable that are not commented out. *)
About(chain, n) ==
    {i \in DOMAIN scripts[chain] : ~scripts[chain][i].off /\ scripts[chain][i].def[1] = n}

LastOf(hits) == CHOOSE i \in hits : \A j \in hits : j <= i

Sourced(chain, env) ==
    [n \in Names |-> IF About(chain, n) = {} THEN env[n]
                     ELSE scripts[chain][LastOf(About(chain, n))].def[2]]

Envs == [RMW : {"none", "fastrtps", "cyclonedds"}, ID : {"none", "42", "0"},
         PROFILE : {"none", "fastdds"}, URI : {"none", "xml"}]

-----------------------------------------------------------------------------
(* What the checks see.  The regular expressions are anchored to the        *)
(* beginning of a line; the needles of test_config.py are not.             *)

Anchored(chain, verb, n) ==
    {i \in About(chain, n) : scripts[chain][i].verb = verb}

Mentions(chain, verb, def) ==
    \E l \in ToSet(scripts[chain]) : l.verb = verb /\ l.def = def

(* Any line that names the variable. *)
Touches(chain, n) == \E l \in ToSet(scripts[chain]) : l.def[1] = n

(* re.search: the first match, "none" when there is none. *)
ExtractExport(chain, n) ==
    LET hits == Anchored(chain, "export", n)
    IN IF hits = {} THEN "none"
       ELSE scripts[chain][CHOOSE i \in hits : \A j \in hits : i <= j].def[2]

(* Mutant: an expression without its anchor takes a comment for an export. *)
MissingExportsLoosely(chain, wanted) == {d \in wanted : ~Mentions(chain, "export", d)}

(* check_dual_chain_baseline.py looks for one line of each wanted export. *)
MissingExports(chain, wanted) ==
    {d \in wanted : \A i \in Anchored(chain, "export", d[1]) : scripts[chain][i].def # d}
=============================================================================

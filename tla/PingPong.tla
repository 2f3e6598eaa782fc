------------------------------ MODULE PingPong ------------------------------
(***************************************************************************)
(* The round-trip benchmark (scripts/bench/pingpong.py): the client's loop *)
(* over the cases of a run, the listener that matches pongs to pings, and  *)
(* the responder that echoes.  The four case functions share one loop;     *)
(* they differ in the bus and in who answers.                              *)
(*                                                                         *)
(* Pings are numbered from 1 in every case (the code's seq + 1), and 0     *)
(* stands for expect_seq = -1.  Of a time stamp the model keeps the ping   *)
(* it answers.  A wait may run out at any time: the network decides how    *)
(* late a pong is.                                                         *)
(***************************************************************************)
EXTENDS Naturals, Sequences, FiniteSets

CONSTANTS Cases,       \* cases of a run: a qos and a size each
          Total,       \* pings of a case, warmup + samples
          Warmup,      \* pings that are not measured
          SharedTopic  \* cross-host: every case uses the same two topics

ASSUME PingPongAssumption ==
    /\ Cases \in Nat \ {0}
    /\ Total \in Nat \ {0}
    /\ Warmup \in 0 .. Total
    /\ SharedTopic \in BOOLEAN

CaseIds  == 1 .. Cases
Seqs     == 1 .. Total
Measured == Warmup + 1 .. Total

VARIABLES
    pc,        \* next statement of the client's loop
    case, i,   \* the case it is in and its loop index
    expected,  \* expect_seq
    event,     \* ev
    got,       \* got: for each seq the ping that was answered, or None
    pings,     \* pings under way, each with its case
    pongs,     \* pongs under way
    hand,      \* the pong on_pong has stamped and not yet matched
    rtt,       \* rtt_ns of each case: seq and the ping that was answered
    pubs,      \* pub_ns of each case
    timeouts,  \* timeouts of each case
    failed,    \* cases that ended with an exception
    ranOut,    \* history: waits that ran out, by case and seq
    cutShort   \* history: waits that ended with neither the pong nor a timeout

loopVars     == <<pc, case, i>>
matchVars    == <<expected, event, got>>
networkVars  == <<pings, pongs, hand>>
resultVars   == <<rtt, pubs, timeouts, failed>>
historyVars  == <<ranOut, cutShort>>
vars == <<loopVars, matchVars, networkVars, resultVars, historyVars>>

Pings  == [case : CaseIds, seq : Seqs]
None   == [case |-> 0, seq |-> 0]
NoPong == [ping |-> None, listener |-> 0]
This   == [case |-> case, seq |-> i]

Init ==
    /\ pc = "setup" /\ case = 1 /\ i = 1
    /\ expected = 0 /\ event = FALSE /\ got = [s \in Seqs |-> None]
    /\ pings = <<>> /\ pongs = <<>> /\ hand = NoPong
    /\ rtt = [k \in CaseIds |-> {}]
    /\ pubs = [k \in CaseIds |-> {}]
    /\ timeouts = [k \in CaseIds |-> 0]
    /\ failed = {}
    /\ ranOut = {} /\ cutShort = {}

Goto(from, to) == pc = from /\ pc' = to

-----------------------------------------------------------------------------
(* One case: fresh locals, a subscribed listener, Total pings, stop.       *)

StartCase ==
    /\ Goto("setup", "clear")
    /\ i' = 1
    /\ expected' = 0 /\ event' = FALSE /\ got' = [s \in Seqs |-> None]
    /\ UNCHANGED <<case, networkVars, resultVars, historyVars>>

Leave ==
    IF case < Cases THEN case' = case + 1 /\ pc' = "setup"
                    ELSE case' = case /\ pc' = "finished"

(* Whatever a case raises is recorded, and the next case is run; the        *)
(* responder that exited early, a publisher that raises.                   *)
FailCase ==
    /\ pc \in {"setup", "publish"}
    /\ Leave
    /\ failed' = failed \cup {case}
    /\ rtt' = [rtt EXCEPT ![case] = {}]
    /\ pubs' = [pubs EXCEPT ![case] = {}]
    /\ timeouts' = [timeouts EXCEPT ![case] = 0]
    /\ UNCHANGED <<i, matchVars, networkVars, historyVars>>

StopCase ==
    /\ pc = "stop"
    /\ Leave
    /\ UNCHANGED <<i, matchVars, networkVars, resultVars, historyVars>>

-----------------------------------------------------------------------------
(* One ping.                                                               *)

(* Mutant: the event of the previous ping stays set. *)
ClearEventForgotten ==
    /\ Goto("clear", "expect")
    /\ UNCHANGED <<case, i, matchVars, networkVars, resultVars, historyVars>>

ClearEvent ==
    /\ Goto("clear", "expect")
    /\ event' = FALSE
    /\ UNCHANGED <<case, i, expected, got, networkVars, resultVars, historyVars>>

Expect ==
    /\ Goto("expect", "publish")
    /\ expected' = i
    /\ got' = [got EXCEPT ![i] = None]
    /\ UNCHANGED <<case, i, event, networkVars, resultVars, historyVars>>

PublishPing ==
    /\ Goto("publish", "wait")
    /\ pings' = Append(pings, This)
    /\ UNCHANGED <<case, i, matchVars, pongs, hand, resultVars, historyVars>>

NextPing ==
    /\ IF i < Total THEN i' = i + 1 /\ pc' = "clear"
                    ELSE i' = i /\ pc' = "stop"
    /\ pubs' = [pubs EXCEPT ![case] = @ \cup ({i} \cap Measured)]

(* Mutants: a wait without a timeout; a timeout that is not counted. *)
WaitForever ==
    /\ FALSE
    /\ UNCHANGED vars

TimeOutUncounted ==
    /\ pc = "wait" /\ ~event
    /\ NextPing
    /\ ranOut' = ranOut \cup {This}
    /\ UNCHANGED <<case, matchVars, networkVars, rtt, timeouts, failed, cutShort>>

TimeOut ==
    /\ pc = "wait" /\ ~event
    /\ NextPing
    /\ timeouts' = [timeouts EXCEPT ![case] = @ + 1]
    /\ ranOut' = ranOut \cup {This}
    /\ UNCHANGED <<case, matchVars, networkVars, rtt, failed, cutShort>>

Wake ==
    /\ Goto("wait", "collect")
    /\ event
    /\ UNCHANGED <<case, i, matchVars, networkVars, resultVars, historyVars>>

(* The event was set for this ping, or left set by the one before: then no *)
(* stamp is found and the ping counts as a timeout.                        *)
Collect ==
    /\ pc = "collect"
    /\ NextPing
    /\ \/ /\ got[i] # None
          /\ rtt' = [rtt EXCEPT ![case] =
                        @ \cup {r \in {[seq |-> i, ping |-> got[i]]} : i \in Measured}]
          /\ UNCHANGED <<timeouts, cutShort>>
       \/ /\ got[i] = None
          /\ timeouts' = [timeouts EXCEPT ![case] = @ + 1]
          /\ cutShort' = cutShort \cup {This}
          /\ UNCHANGED rtt
    /\ UNCHANGED <<case, matchVars, networkVars, failed, ranOut>>

-----------------------------------------------------------------------------
(* The responder echoes; the network delays and, with best effort, loses.  *)

Echo ==
    /\ pings # <<>>
    /\ pings' = Tail(pings)
    /\ pongs' = Append(pongs, Head(pings))
    /\ UNCHANGED <<loopVars, matchVars, hand, resultVars, historyVars>>

LosePing ==
    /\ pings # <<>>
    /\ pings' = Tail(pings)
    /\ UNCHANGED <<loopVars, matchVars, pongs, hand, resultVars, historyVars>>

LosePong ==
    /\ pongs # <<>>
    /\ pongs' = Tail(pongs)
    /\ UNCHANGED <<loopVars, matchVars, pings, hand, resultVars, historyVars>>

(* on_pong stamps the time, then takes the lock.  The listener of a case    *)
(* has the locals of that case.                                            *)
Subscribed == pc \notin {"setup", "finished"}

StampPong ==
    /\ hand = NoPong /\ pongs # <<>>
    /\ Subscribed
    /\ SharedTopic \/ Head(pongs).case = case
    /\ pongs' = Tail(pongs)
    /\ hand' = [ping |-> Head(pongs), listener |-> case]
    /\ UNCHANGED <<loopVars, matchVars, pings, resultVars, historyVars>>

(* Mutant: any pong of the topic is taken for the one expected. *)
MatchAnyPong ==
    /\ hand # NoPong
    /\ hand' = NoPong
    /\ IF hand.listener = case /\ Subscribed /\ expected # 0
       THEN event' = TRUE /\ got' = [got EXCEPT ![expected] = hand.ping]
       ELSE UNCHANGED <<event, got>>
    /\ UNCHANGED <<loopVars, expected, pings, pongs, resultVars, historyVars>>

MatchPong ==
    /\ hand # NoPong
    /\ hand' = NoPong
    /\ IF hand.listener = case /\ Subscribed /\ hand.ping.seq = expected
       THEN event' = TRUE /\ got' = [got EXCEPT ![expected] = hand.ping]
       ELSE UNCHANGED <<event, got>>
    /\ UNCHANGED <<loopVars, expected, pings, pongs, resultVars, historyVars>>

-----------------------------------------------------------------------------
Client ==
    \/ StartCase \/ FailCase \/ StopCase
    \/ ClearEvent \/ Expect \/ PublishPing \/ TimeOut \/ Wake \/ Collect

Network == Echo \/ LosePing \/ LosePong \/ StampPong \/ MatchPong

Next == Client \/ Network

(* The client's thread runs, and its wait runs out. *)
Spec == Init /\ [][Next]_vars /\ WF_vars(Client)

-----------------------------------------------------------------------------
TypeOK ==
    /\ pc \in {"setup", "clear", "expect", "publish", "wait", "collect", "stop",
              "finished"}
    /\ case \in CaseIds /\ i \in Seqs
    /\ expected \in 0 .. Total /\ event \in BOOLEAN
    /\ got \in [Seqs -> Pings \cup {None}]
    /\ pings \in Seq(Pings)
    /\ pongs \in Seq(Pings)
    /\ hand \in [ping : Pings, listener : CaseIds] \cup {NoPong}
    /\ rtt \in [CaseIds -> SUBSET [seq : Measured, ping : Pings]]
    /\ pubs \in [CaseIds -> SUBSET Measured]
    /\ timeouts \in [CaseIds -> 0 .. Total]
    /\ failed \subseteq CaseIds
    /\ {ranOut, cutShort} \subseteq SUBSET Pings
    /\ pc \in {"publish", "wait", "collect"} => expected = i

GivenUp == ranOut \cup cutShort

(* A recorded round trip is that of its own ping.  When the cases share     *)
(* their topics it can be mistaken for one of an earlier case; but that     *)
(* takes a ping of the same number that its case or an earlier one gave up  *)
(* on, whose late pong displaced the pongs of the cases after it.           *)
OwnRoundTrip ==
    \A k \in CaseIds : \A r \in rtt[k] :
        /\ r.ping.seq = r.seq
        /\ \/ r.ping.case = k
           \/ /\ SharedTopic /\ r.ping.case < k
              /\ \E w \in GivenUp : w.seq = r.seq /\ w.case <= r.ping.case

(* A case that ends reports every measured ping once: with one round trip,  *)
(* or among its timeouts, which count each wait that was given up.          *)
Accounting ==
    \A k \in CaseIds \ failed : k < case \/ pc = "finished" =>
        /\ pubs[k] = Measured
        /\ Cardinality(rtt[k]) = Cardinality({r.seq : r \in rtt[k]})
        /\ timeouts[k] = Cardinality({w \in GivenUp : w.case = k})
        /\ {r.seq : r \in rtt[k]} = Measured \ {w.seq : w \in {v \in GivenUp : v.case = k}}

(* The loop is closed until a pong is late: a wait is cut short only when   *)
(* some earlier wait of the case (of the run, when topics are shared) ran   *)
(* out.                                                                     *)
ClosedUntilLate ==
    \A w \in cutShort : \E v \in ranOut :
        \/ v.case = w.case /\ v.seq < w.seq
        \/ SharedTopic /\ v.case < w.case

(* The benchmark ends, whatever the network loses. *)
RunEnds == <>(pc = "finished")
=============================================================================

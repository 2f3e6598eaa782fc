---------------------------- MODULE PingPongProofs ----------------------------
(***************************************************************************)
(* Proofs, for any number of cases and of pings, measured or not, on       *)
(* topics of their own or shared, that the round trips PingPong reports    *)
(* belong to their pings, that its counts add up and that its loop stays   *)
(* closed until a wait runs out.                                           *)
(***************************************************************************)
EXTENDS PingPong, FiniteSetTheorems, SequenceTheorems, TLAPS

(* The messages under way; each is in one place only.                      *)
Elems(q)    == {q[m] : m \in 1 .. Len(q)}
Distinct(q) == \A m, n \in 1 .. Len(q) : q[m] = q[n] => m = n

Held     == {hand.ping} \ {None}
UnderWay == Elems(pings) \cup Elems(pongs) \cup Held

Single ==
    /\ Distinct(pings) /\ Distinct(pongs)
    /\ Elems(pings) \cap Elems(pongs) = {}
    /\ Held \cap (Elems(pings) \cup Elems(pongs)) = {}

(* None is ahead of the loop.                                              *)
Sent ==
    \A p \in UnderWay :
        /\ p.case <= case
        /\ pc = "setup" => p.case < case
        /\ p.case = case => \/ p.seq < i
                            \/ p.seq = i /\ pc \in {"wait", "collect", "stop", "finished"}

(* A message whose wait is over is late: that wait was given up, or, on     *)
(* shared topics, one of an earlier case for a ping of this number, whose   *)
(* pong was then taken for another's.                                       *)
Late(p) ==
    \E w \in GivenUp : /\ w.seq = p.seq
                       /\ w.case = p.case \/ (SharedTopic /\ w.case < p.case)

LateInv == \A p \in UnderWay : Late(p) \/ (pc \in {"wait", "collect"} /\ p = This)

(* A listener of its own topic hears its own case.                          *)
HandInv == hand # NoPong /\ ~SharedTopic => hand.ping.case = hand.listener

(* What the current wait found.                                             *)
GotInv ==
    pc \in {"publish", "wait", "collect"} /\ got[i] # None =>
        /\ got[i].seq = i
        /\ \/ got[i] = This /\ pc # "publish" /\ This \notin UnderWay
           \/ SharedTopic /\ got[i].case < case /\ Late(got[i])

(* The event is set too early for a wait only after an earlier one ran out. *)
Forced(w) ==
    \E v \in ranOut : \/ v.case = w.case /\ v.seq < w.seq
                      \/ SharedTopic /\ v.case < w.case

EventInv ==
    /\ pc \in {"clear", "expect"} => expected = i - 1
    /\ pc = "expect" /\ event => Forced(This)
    /\ pc \in {"publish", "wait", "collect"} /\ event /\ got[i] = None => Forced(This)
    /\ pc = "collect" => event

(* The counts of a case after the pings it has passed.                      *)
Passed(k) ==
    IF k < case \/ (k = case /\ pc \in {"stop", "finished"}) THEN Total
    ELSE IF k = case /\ pc # "setup" THEN i - 1 ELSE 0

Done(k)      == 1 .. Passed(k)
GivenUpOf(k) == {w \in GivenUp : w.case = k}

Counted(k) ==
    /\ pubs[k] = Measured \cap Done(k)
    /\ \A r, q \in rtt[k] : r.seq = q.seq => r = q
    /\ {w.seq : w \in GivenUpOf(k)} \subseteq Done(k)
    /\ IsFiniteSet(GivenUpOf(k)) /\ timeouts[k] = Cardinality(GivenUpOf(k))
    /\ {r.seq : r \in rtt[k]} = (Measured \cap Done(k)) \ {w.seq : w \in GivenUpOf(k)}

CountInv ==
    /\ pc = "finished" => case = Cases
    /\ \A k \in CaseIds : timeouts[k] <= Passed(k)
    /\ \A k \in failed : k < case \/ pc = "finished"
    /\ \A k \in CaseIds \ failed : Counted(k)

WayInv == Single /\ Sent /\ LateInv /\ HandInv
LoopInv == GotInv /\ EventInv /\ OwnRoundTrip /\ ClosedUntilLate

Inv == TypeOK /\ WayInv /\ LoopInv /\ CountInv


USE PingPongAssumption DEF CaseIds, Seqs, Measured, Pings, This, GivenUp,
                       matchVars, networkVars, resultVars, historyVars, loopVars

-----------------------------------------------------------------------------
(* Sequences without repetition.                                            *)

LEMMA AppendElems ==
    ASSUME NEW S, NEW q \in Seq(S), NEW e \in S
    PROVE  /\ Append(q, e) \in Seq(S)
           /\ Elems(Append(q, e)) = Elems(q) \cup {e}
           /\ Distinct(q) /\ e \notin Elems(q) => Distinct(Append(q, e))
<1>1. /\ Append(q, e) \in Seq(S) /\ Len(Append(q, e)) = Len(q) + 1 /\ Len(q) \in Nat
      /\ \A m \in 1 .. Len(q) : Append(q, e)[m] = q[m]
      /\ Append(q, e)[Len(q) + 1] = e
  OBVIOUS
<1>2. 1 .. Len(q) + 1 = (1 .. Len(q)) \cup {Len(q) + 1}
  BY <1>1
<1>3. Elems(Append(q, e)) = Elems(q) \cup {e}
  BY <1>1, <1>2 DEF Elems
<1>4. ASSUME Distinct(q), e \notin Elems(q)
      PROVE  Distinct(Append(q, e))
  BY <1>1, <1>2, <1>4 DEF Distinct, Elems
<1>5. QED
  BY <1>1, <1>3, <1>4

LEMMA TailElems ==
    ASSUME NEW S, NEW q \in Seq(S), q # <<>>
    PROVE  /\ Head(q) \in S /\ Tail(q) \in Seq(S)
           /\ Head(q) \in Elems(q)
           /\ Elems(Tail(q)) \subseteq Elems(q)
           /\ Distinct(q) => Distinct(Tail(q)) /\ Head(q) \notin Elems(Tail(q))
<1>1. /\ Head(q) \in S /\ Tail(q) \in Seq(S) /\ Len(Tail(q)) = Len(q) - 1
      /\ \A m \in 1 .. Len(Tail(q)) : Tail(q)[m] = q[m + 1]
  BY HeadTailProperties
<1>2. Len(q) \in Nat \ {0} /\ Head(q) = q[1]
  BY EmptySeq
<1>3. \A m \in 1 .. Len(Tail(q)) : m + 1 \in 1 .. Len(q) /\ m + 1 # 1
  BY <1>1, <1>2
<1>4. Head(q) \in Elems(q) /\ Elems(Tail(q)) \subseteq Elems(q)
  BY <1>1, <1>2, <1>3 DEF Elems
<1>5. ASSUME Distinct(q)
      PROVE  Distinct(Tail(q)) /\ Head(q) \notin Elems(Tail(q))
  <2>1. Distinct(Tail(q))
    BY <1>1, <1>3, <1>5 DEF Distinct
  <2>2. Head(q) \notin Elems(Tail(q))
    BY <1>1, <1>2, <1>3, <1>5 DEF Distinct, Elems
  <2>3. QED
    BY <2>1, <2>2
<1>6. QED
  BY <1>1, <1>4, <1>5

LEMMA UnderWayPings == TypeOK => UnderWay \subseteq Pings /\ None \notin UnderWay
<1>1. ASSUME NEW q \in Seq(Pings)
      PROVE  Elems(q) \subseteq Pings
  <2>1. \A m \in 1 .. Len(q) : q[m] \in Pings
    BY ElementOfSeq
  <2>2. QED
    BY <2>1 DEF Elems
<1>2. ASSUME TypeOK
      PROVE  Elems(pings) \subseteq Pings /\ Elems(pongs) \subseteq Pings
  BY <1>1, <1>2 DEF TypeOK
<1>3. ASSUME TypeOK
      PROVE  Held \subseteq Pings
  BY <1>3 DEF TypeOK, Held, NoPong, None
<1>4. None \notin Pings
  BY DEF None
<1>5. QED
  BY <1>2, <1>3, <1>4 DEF UnderWay

-----------------------------------------------------------------------------
(* The types are kept.                                                      *)

LEMMA ClientTypes ==
    ASSUME TypeOK, CountInv, Client
    PROVE  TypeOK'
<1> USE DEF TypeOK, Goto
<1>1. CASE StartCase
  <2>1. 1 \in Seqs /\ got' \in [Seqs -> Pings \cup {None}]
    <3>1. got' = [s \in Seqs |-> None]
      BY <1>1 DEF StartCase
    <3>2. QED
      BY <3>1
  <2>2. /\ pc' = "clear" /\ i' = 1 /\ expected' = 0 /\ event' = FALSE
        /\ UNCHANGED <<case, networkVars, resultVars, historyVars>>
    BY <1>1 DEF StartCase
  <2>3. expected' \in 0 .. Total
    BY <2>2
  <2>4. event' \in BOOLEAN
    BY <2>2
  <2>5. /\ hand' \in [ping : Pings, listener : CaseIds] \cup {NoPong}
        /\ pings' \in Seq(Pings) /\ pongs' \in Seq(Pings)
    BY <2>2
  <2>6. /\ rtt' \in [CaseIds -> SUBSET [seq : Measured, ping : Pings]]
        /\ pubs' \in [CaseIds -> SUBSET Measured]
        /\ timeouts' \in [CaseIds -> 0 .. Total]
        /\ failed' \subseteq CaseIds
    BY <2>2
  <2>7. {ranOut', cutShort'} \subseteq SUBSET Pings
    BY <2>2
  <2>8. QED
    BY <2>1, <2>2, <2>3, <2>4, <2>5, <2>6, <2>7
<1>2. CASE FailCase \/ StopCase
  <2>1. case' \in CaseIds /\ pc' \in {"setup", "finished"}
    BY <1>2 DEF FailCase, StopCase, Leave
  <2>2. UNCHANGED <<i, matchVars, networkVars, historyVars>>
    BY <1>2 DEF FailCase, StopCase
  <2>3. rtt' \in [CaseIds -> SUBSET [seq : Measured, ping : Pings]]
    BY <1>2 DEF FailCase, StopCase
  <2>4. pubs' \in [CaseIds -> SUBSET Measured]
    BY <1>2 DEF FailCase, StopCase
  <2>5. timeouts' \in [CaseIds -> 0 .. Total]
    <3>1. timeouts \in [CaseIds -> 0 .. Total] /\ 0 \in 0 .. Total
      OBVIOUS
    <3>2. timeouts' = timeouts \/ timeouts' = [timeouts EXCEPT ![case] = 0]
      BY <1>2 DEF FailCase, StopCase
    <3>3. QED
      BY <3>1, <3>2
  <2>6. failed' \subseteq CaseIds
    BY <1>2 DEF FailCase, StopCase
  <2>7. QED
    BY <2>1, <2>2, <2>3, <2>4, <2>5, <2>6
<1>3. CASE ClearEvent
  BY <1>3 DEF ClearEvent
<1>4. CASE Expect
  BY <1>4 DEF Expect
<1>5. CASE PublishPing
  <2>1. pings' \in Seq(Pings)
    BY <1>5 DEF PublishPing
  <2>2. QED
    BY <1>5, <2>1 DEF PublishPing
<1>6. ASSUME pc \in {"wait", "collect"}, NextPing
      PROVE  /\ i' \in Seqs /\ pc' \in {"clear", "stop"}
             /\ pubs' \in [CaseIds -> SUBSET Measured]
             /\ timeouts[case] + 1 \in 0 .. Total
  <2>1. timeouts[case] <= i - 1
    BY <1>6 DEF CountInv, Passed
  <2>2. i' \in Seqs /\ pc' \in {"clear", "stop"} /\ timeouts[case] + 1 \in 0 .. Total
    BY <1>6, <2>1 DEF NextPing
  <2>3. pubs' \in [CaseIds -> SUBSET Measured]
    BY <1>6 DEF NextPing
  <2>4. QED
    BY <2>2, <2>3
<1>7. CASE TimeOut
  <2>1. ranOut' \subseteq Pings /\ timeouts' \in [CaseIds -> 0 .. Total]
    BY <1>6, <1>7 DEF TimeOut
  <2>2. QED
    BY <1>6, <1>7, <2>1 DEF TimeOut
<1>8. CASE Wake
  BY <1>8 DEF Wake
<1>9. CASE Collect
  <2>0. /\ pc = "collect" /\ NextPing
        /\ UNCHANGED <<case, matchVars, networkVars, failed, ranOut>>
    BY <1>9 DEF Collect
  <2>1. CASE got[i] # None
    <3>1. got[i] \in Pings /\ [seq |-> i, ping |-> got[i]].seq = i
      BY <2>1
    <3>2. PICK X : X = {r \in {[seq |-> i, ping |-> got[i]]} : i \in Measured}
      OBVIOUS
    <3>3. X \subseteq [seq : Measured, ping : Pings]
      BY <3>1, <3>2
    <3>4. rtt' = [rtt EXCEPT ![case] = rtt[case] \cup X] /\ UNCHANGED <<timeouts, cutShort>>
      BY <1>9, <2>1, <3>2 DEF Collect
    <3>5. rtt' \in [CaseIds -> SUBSET [seq : Measured, ping : Pings]]
      BY <3>3, <3>4
    <3>6. QED
      BY <1>6, <2>0, <3>4, <3>5
  <2>2. CASE got[i] = None
    <3>1. /\ timeouts' = [timeouts EXCEPT ![case] = timeouts[case] + 1]
          /\ cutShort' = cutShort \cup {This} /\ UNCHANGED rtt
      BY <1>9, <2>2 DEF Collect
    <3>2. cutShort' \subseteq Pings /\ timeouts' \in [CaseIds -> 0 .. Total]
      <4>1. timeouts[case] + 1 \in 0 .. Total
        BY <1>6, <2>0
      <4>2. QED
        BY <3>1, <4>1
    <3>3. QED
      BY <1>6, <2>0, <3>1, <3>2
  <2>3. QED
    BY <2>1, <2>2
<1>10. QED
  BY <1>1, <1>2, <1>3, <1>4, <1>5, <1>7, <1>8, <1>9 DEF Client

LEMMA NetworkTypes ==
    ASSUME TypeOK, Network
    PROVE  TypeOK'
<1> USE DEF TypeOK
<1>1. pings # <<>> => Head(pings) \in Pings /\ Tail(pings) \in Seq(Pings)
  BY TailElems
<1>2. pongs # <<>> => Head(pongs) \in Pings /\ Tail(pongs) \in Seq(Pings)
  BY TailElems
<1>3. CASE Echo
  <2>1. pongs' \in Seq(Pings)
    BY <1>1, <1>3, AppendElems DEF Echo
  <2>2. QED
    BY <1>1, <1>3, <2>1 DEF Echo
<1>4. CASE LosePing
  BY <1>1, <1>4 DEF LosePing
<1>5. CASE LosePong
  BY <1>2, <1>5 DEF LosePong
<1>6. CASE StampPong
  BY <1>2, <1>6 DEF StampPong
<1>7. CASE MatchPong
  <2>1. hand.ping \in Pings
    BY <1>7 DEF MatchPong
  <2>2. got' \in [Seqs -> Pings \cup {None}] /\ event' \in BOOLEAN
    BY <1>7, <2>1 DEF MatchPong
  <2>3. QED
    BY <1>7, <2>2 DEF MatchPong
<1>8. QED
  BY <1>3, <1>4, <1>5, <1>6, <1>7 DEF Network

-----------------------------------------------------------------------------
(* Messages are late once their wait is over.                               *)

LEMMA LateStays ==
    ASSUME NEW p, Late(p), ranOut \subseteq ranOut', cutShort \subseteq cutShort'
    PROVE  Late(p)'
BY DEF Late

(* A wait that ends answered was answered by its own ping, which is not     *)
(* under way any more, or by a late one, which makes its own ping late.     *)
LEMMA AnsweredIsLate ==
    ASSUME TypeOK, GotInv, pc = "collect", got[i] # None, This \in UnderWay
    PROVE  Late(This)
<1>1. /\ got[i] \in Pings /\ got[i].seq = i /\ SharedTopic /\ got[i].case < case
      /\ Late(got[i])
  BY DEF GotInv, TypeOK
<1>2. PICK w \in GivenUp : /\ w.seq = got[i].seq
                           /\ w.case = got[i].case \/ (SharedTopic /\ w.case < got[i].case)
  BY <1>1 DEF Late
<1>3. w.case < case
  BY <1>1, <1>2 DEF TypeOK
<1>4. QED
  BY <1>1, <1>2, <1>3 DEF Late

LEMMA ClientWay ==
    ASSUME TypeOK, WayInv, GotInv, Client
    PROVE  WayInv'
<1> USE DEF Goto
<1>1. TypeOK /\ Single /\ Sent /\ LateInv /\ HandInv
  BY DEF WayInv
<1>2. UnderWay \subseteq Pings
  BY UnderWayPings
<1>3. ASSUME UNCHANGED networkVars
      PROVE  UnderWay' = UnderWay /\ Single' /\ HandInv'
  <2>1. Single' /\ Held' = Held
    BY <1>1, <1>3 DEF Single, Held, Distinct, Elems
  <2>2. QED
    BY <1>1, <1>3, <2>1 DEF UnderWay, HandInv, Elems
<1>4. CASE StartCase
  <2>1. /\ pc = "setup" /\ pc' = "clear" /\ case' = case
        /\ UNCHANGED <<networkVars, historyVars>>
    BY <1>4 DEF StartCase
  <2>2. \A p \in UnderWay : p.case < case
    BY <1>1, <2>1 DEF Sent
  <2>3. Sent' /\ LateInv'
    BY <1>1, <1>2, <1>3, <2>1, <2>2, LateStays DEF Sent, LateInv, TypeOK
  <2>4. QED
    BY <1>3, <2>1, <2>3 DEF WayInv
<1>5. CASE FailCase \/ StopCase
  <2>1. /\ pc \in {"setup", "publish", "stop"} /\ i' = i /\ UNCHANGED <<networkVars, historyVars>>
        /\ \/ case' = case + 1 /\ pc' = "setup"
           \/ case' = case /\ pc' = "finished"
    BY <1>5 DEF FailCase, StopCase, Leave
  <2>2. \A p \in UnderWay : Late(p)'
    BY <1>1, <2>1, LateStays DEF LateInv
  <2>3. LateInv'
    BY <1>3, <2>1, <2>2 DEF LateInv
  <2>4. Sent'
    BY <1>1, <1>2, <1>3, <2>1 DEF Sent, TypeOK
  <2>5. QED
    BY <1>3, <2>1, <2>3, <2>4 DEF WayInv
<1>6. CASE ClearEvent \/ Expect
  <2>1. /\ UNCHANGED <<case, i, networkVars, historyVars>>
        /\ pc \in {"clear", "expect"} /\ pc' \in {"expect", "publish"}
    BY <1>6 DEF ClearEvent, Expect
  <2>2. Sent' /\ LateInv'
    BY <1>1, <1>3, <2>1, LateStays DEF Sent, LateInv
  <2>3. QED
    BY <1>3, <2>1, <2>2 DEF WayInv
<1>7. CASE PublishPing
  <2>1. /\ pc = "publish" /\ pc' = "wait" /\ pings' = Append(pings, This)
        /\ UNCHANGED <<case, i, pongs, hand, historyVars>>
    BY <1>7 DEF PublishPing
  <2>2. This \notin UnderWay /\ This \in Pings
    BY <1>1, <2>1 DEF Sent, TypeOK
  <2>3. /\ Elems(pings') = Elems(pings) \cup {This} /\ Distinct(pings')
        /\ Distinct(pongs') /\ Elems(pongs') = Elems(pongs) /\ Held' = Held
    <3>1. pings \in Seq(Pings) /\ This \notin Elems(pings) /\ Distinct(pings)
      BY <1>1, <2>2 DEF TypeOK, UnderWay, Single
    <3>2. Elems(pings') = Elems(pings) \cup {This} /\ Distinct(pings')
      <4>1. PICK S, p : S = Pings /\ p = This
        OBVIOUS
      <4>2. p \in S /\ pings \in Seq(S) /\ pings' = Append(pings, p) /\ p \notin Elems(pings)
        BY <2>1, <2>2, <3>1, <4>1
      <4>3. Elems(pings') = Elems(pings) \cup {p} /\ Distinct(pings')
        BY <3>1, <4>2, AppendElems
      <4>4. QED
        BY <4>1, <4>3
    <3>3. Distinct(pongs') /\ Elems(pongs') = Elems(pongs) /\ Held' = Held
      BY <1>1, <2>1 DEF Single, Elems, Distinct, Held
    <3>4. QED
      BY <3>2, <3>3
  <2>4. Single' /\ UnderWay' = UnderWay \cup {This} /\ HandInv'
    BY <1>1, <2>1, <2>2, <2>3 DEF Single, UnderWay, HandInv
  <2>5. Sent'
    BY <1>1, <2>1, <2>4 DEF Sent, TypeOK
  <2>6. LateInv'
    BY <1>1, <2>1, <2>4, LateStays DEF LateInv
  <2>7. QED
    BY <2>4, <2>5, <2>6 DEF WayInv
<1>8. CASE Wake
  <2>1. pc = "wait" /\ pc' = "collect" /\ UNCHANGED <<case, i, networkVars, historyVars>>
    BY <1>8 DEF Wake
  <2>2. Sent' /\ LateInv'
    BY <1>1, <1>3, <2>1, LateStays DEF Sent, LateInv
  <2>3. QED
    BY <1>3, <2>1, <2>2 DEF WayInv
<1>9. CASE TimeOut \/ Collect
  <2>1. /\ pc \in {"wait", "collect"} /\ UNCHANGED <<case, networkVars>>
        /\ \/ i' = i + 1 /\ pc' = "clear"
           \/ i' = i /\ pc' = "stop"
    BY <1>9 DEF TimeOut, Collect, NextPing
  <2>2. ranOut \subseteq ranOut' /\ cutShort \subseteq cutShort'
    BY <1>9 DEF TimeOut, Collect
  <2>3. ASSUME NEW p \in UnderWay
        PROVE  Late(p)'
    <3>1. CASE Late(p)
      BY <2>2, <3>1, LateStays
    <3>2. CASE p = This /\ p \in ranOut' \cup cutShort'
      BY <3>2 DEF Late
    <3>3. CASE p = This /\ pc = "collect" /\ got[i] # None
      <4>1. Late(p)
        BY <1>1, <3>3, AnsweredIsLate
      <4>2. QED
        BY <2>2, <4>1, LateStays
    <3>4. QED
      BY <1>1, <1>9, <3>1, <3>2, <3>3 DEF TimeOut, Collect, LateInv
  <2>4. \A p \in UnderWay : Late(p)'
    BY <2>3
  <2>5. LateInv'
    BY <1>3, <2>1, <2>4 DEF LateInv
  <2>6. Sent'
    BY <1>1, <1>2, <1>3, <2>1 DEF Sent, TypeOK
  <2>7. QED
    BY <1>3, <2>1, <2>5, <2>6 DEF WayInv
<1>10. QED
  BY <1>4, <1>5, <1>6, <1>7, <1>8, <1>9 DEF Client

(* The network moves and loses messages and makes none.                     *)
LEMMA NetworkWay ==
    ASSUME TypeOK, WayInv, Network
    PROVE  WayInv' /\ UnderWay' \subseteq UnderWay
<1>1. Single /\ Sent /\ LateInv /\ HandInv
  BY DEF WayInv
<1>0. ASSUME NEW q \in Seq(Pings), q # <<>>, Distinct(q)
      PROVE  /\ Head(q) \in Elems(q) /\ Elems(Tail(q)) \subseteq Elems(q)
             /\ Distinct(Tail(q)) /\ Head(q) \notin Elems(Tail(q))
             /\ Head(q) \in Pings
  BY <1>0, TailElems
<1>2. pings # <<>> =>
         /\ Head(pings) \in Elems(pings) /\ Elems(Tail(pings)) \subseteq Elems(pings)
         /\ Distinct(Tail(pings)) /\ Head(pings) \notin Elems(Tail(pings))
         /\ Head(pings) \in Pings
  <2>1. pings \in Seq(Pings) /\ Distinct(pings)
    BY <1>1 DEF Single, TypeOK
  <2>2. QED
    BY <1>0, <2>1
<1>3. pongs # <<>> =>
         /\ Head(pongs) \in Elems(pongs) /\ Elems(Tail(pongs)) \subseteq Elems(pongs)
         /\ Distinct(Tail(pongs)) /\ Head(pongs) \notin Elems(Tail(pongs))
         /\ Head(pongs) \in Pings
  <2>1. pongs \in Seq(Pings) /\ Distinct(pongs)
    BY <1>1 DEF Single, TypeOK
  <2>2. QED
    BY <1>0, <2>1
<1>4. ASSUME UnderWay' \subseteq UnderWay, Single', HandInv',
             UNCHANGED <<loopVars, historyVars>>
      PROVE  WayInv' /\ UnderWay' \subseteq UnderWay
  <2>1. Sent' /\ LateInv'
    BY <1>1, <1>4, LateStays DEF Sent, LateInv
  <2>2. QED
    BY <1>4, <2>1 DEF WayInv
<1>5. CASE Echo
  <2>1. /\ pings # <<>> /\ pings' = Tail(pings) /\ pongs' = Append(pongs, Head(pings))
        /\ UNCHANGED <<loopVars, hand, historyVars>>
    BY <1>5 DEF Echo
  <2>2. Head(pings) \notin Elems(pongs)
    BY <1>1, <1>2, <2>1 DEF Single
  <2>3. Elems(pongs') = Elems(pongs) \cup {Head(pings)} /\ Distinct(pongs')
    <3>1. PICK p : p = Head(pings)
      OBVIOUS
    <3>2. p \in Pings /\ pongs \in Seq(Pings) /\ Distinct(pongs) /\ p \notin Elems(pongs)
      BY <1>1, <1>2, <2>1, <2>2, <3>1 DEF TypeOK, Single
    <3>3. PICK S : S = Pings
      OBVIOUS
    <3>4. p \in S /\ pongs \in Seq(S)
      BY <3>2, <3>3
    <3>5. Elems(Append(pongs, p)) = Elems(pongs) \cup {p} /\ Distinct(Append(pongs, p))
      BY <3>2, <3>4, AppendElems
    <3>6. QED
      BY <2>1, <3>1, <3>5
  <2>4. Single' /\ UnderWay' \subseteq UnderWay /\ HandInv'
    BY <1>1, <1>2, <2>1, <2>3 DEF Single, UnderWay, Held, HandInv
  <2>5. QED
    BY <1>4, <2>1, <2>4
<1>6. CASE LosePing
  <2>1. /\ pings # <<>> /\ pings' = Tail(pings)
        /\ UNCHANGED <<loopVars, pongs, hand, historyVars>>
    BY <1>6 DEF LosePing
  <2>2. Single' /\ UnderWay' \subseteq UnderWay /\ HandInv'
    BY <1>1, <1>2, <2>1 DEF Single, UnderWay, Held, HandInv
  <2>3. QED
    BY <1>4, <2>1, <2>2
<1>7. CASE LosePong
  <2>1. /\ pongs # <<>> /\ pongs' = Tail(pongs)
        /\ UNCHANGED <<loopVars, pings, hand, historyVars>>
    BY <1>7 DEF LosePong
  <2>2. Single' /\ UnderWay' \subseteq UnderWay /\ HandInv'
    BY <1>1, <1>3, <2>1 DEF Single, UnderWay, Held, HandInv
  <2>3. QED
    BY <1>4, <2>1, <2>2
<1>8. CASE StampPong
  <2>1. /\ pongs # <<>> /\ pongs' = Tail(pongs)
        /\ hand' = [ping |-> Head(pongs), listener |-> case]
        /\ SharedTopic \/ Head(pongs).case = case
        /\ UNCHANGED <<loopVars, pings, historyVars>>
    BY <1>8 DEF StampPong
  <2>2. Held' \subseteq {Head(pongs)} /\ HandInv'
    BY <2>1 DEF Held, HandInv
  <2>3. Single' /\ UnderWay' \subseteq UnderWay
    BY <1>1, <1>3, <2>1, <2>2 DEF Single, UnderWay
  <2>4. QED
    BY <1>4, <2>1, <2>2, <2>3
<1>9. CASE MatchPong
  <2>1. hand' = NoPong /\ UNCHANGED <<loopVars, pings, pongs, historyVars>>
    BY <1>9 DEF MatchPong
  <2>2. Held' = {} /\ HandInv'
    BY <2>1 DEF Held, HandInv, NoPong
  <2>3. Single' /\ UnderWay' \subseteq UnderWay
    BY <1>1, <2>1, <2>2 DEF Single, UnderWay
  <2>4. QED
    BY <1>4, <2>1, <2>2, <2>3
<1>10. QED
  BY <1>5, <1>6, <1>7, <1>8, <1>9 DEF Network

-----------------------------------------------------------------------------
(* What the loop finds.                                                     *)

(* A late pong of an earlier ping comes of a wait that ran out.             *)
LEMMA LateForces ==
    ASSUME TypeOK, ClosedUntilLate, NEW p \in Pings, Late(p),
           p.case <= case, p.seq < i, SharedTopic \/ p.case = case
    PROVE  Forced(This)
<1>1. PICK w \in GivenUp : /\ w.seq = p.seq
                           /\ w.case = p.case \/ (SharedTopic /\ w.case < p.case)
  BY DEF Late
<1>2. w \in Pings /\ case \in Nat /\ i \in Nat /\ ranOut \subseteq Pings
  BY DEF TypeOK
<1>3. /\ w.seq < i
      /\ w.case = case \/ (SharedTopic /\ w.case < case)
  BY <1>1, <1>2
<1>4. CASE w \in ranOut
  BY <1>3, <1>4 DEF Forced
<1>5. CASE w \in cutShort
  <2>1. PICK v \in ranOut : \/ v.case = w.case /\ v.seq < w.seq
                            \/ SharedTopic /\ v.case < w.case
    BY <1>5 DEF ClosedUntilLate
  <2>2. v \in Pings
    BY <1>2
  <2>3. \/ v.case = case /\ v.seq < i
        \/ SharedTopic /\ v.case < case
    BY <1>2, <1>3, <2>1, <2>2
  <2>4. QED
    BY <2>3 DEF Forced
<1>6. QED
  BY <1>1, <1>4, <1>5

(* What is recorded stays true, while nothing is recorded.                  *)
LEMMA RecordsStay ==
    ASSUME TypeOK, OwnRoundTrip, ClosedUntilLate, ranOut \subseteq ranOut',
           \A k \in CaseIds : rtt'[k] \subseteq rtt[k], cutShort' = cutShort
    PROVE  OwnRoundTrip' /\ ClosedUntilLate'
<1>1. OwnRoundTrip'
  BY DEF OwnRoundTrip
<1>2. ClosedUntilLate'
  BY DEF ClosedUntilLate
<1>3. QED
  BY <1>1, <1>2

LEMMA ClientLoop ==
    ASSUME TypeOK, WayInv, LoopInv, Client
    PROVE  LoopInv'
<1> USE DEF Goto
<1>1. TypeOK /\ GotInv /\ EventInv /\ OwnRoundTrip /\ ClosedUntilLate
  BY DEF LoopInv
<1>2. CASE StartCase
  <2>1. pc' = "clear" /\ i' = 1 /\ expected' = 0 /\ UNCHANGED <<rtt, historyVars>>
    BY <1>2 DEF StartCase
  <2>2. GotInv' /\ EventInv'
    BY <2>1 DEF GotInv, EventInv
  <2>3. QED
    BY <1>1, <2>1, <2>2, RecordsStay DEF LoopInv
<1>3. CASE FailCase \/ StopCase
  <2>1. pc' \in {"setup", "finished"} /\ UNCHANGED historyVars
    BY <1>3 DEF FailCase, StopCase, Leave
  <2>2. \A k \in CaseIds : rtt'[k] \subseteq rtt[k]
    BY <1>1, <1>3 DEF FailCase, StopCase, TypeOK
  <2>3. GotInv' /\ EventInv'
    BY <2>1 DEF GotInv, EventInv
  <2>4. QED
    BY <1>1, <2>1, <2>2, <2>3, RecordsStay DEF LoopInv
<1>4. CASE ClearEvent \/ Expect
  <2>1. UNCHANGED <<case, i, rtt, historyVars>>
    BY <1>4 DEF ClearEvent, Expect
  <2>2. GotInv' /\ EventInv'
    <3>1. CASE ClearEvent
      BY <1>1, <3>1 DEF ClearEvent, GotInv, EventInv
    <3>2. CASE Expect
      <4>1. /\ pc = "expect" /\ pc' = "publish" /\ event' = event
            /\ got'[i] = None
        BY <1>1, <3>2 DEF Expect, TypeOK
      <4>2. Forced(This)' <=> Forced(This)
        BY <2>1 DEF Forced
      <4>3. QED
        BY <1>1, <2>1, <4>1, <4>2 DEF GotInv, EventInv
    <3>3. QED
      BY <1>4, <3>1, <3>2
  <2>3. QED
    BY <1>1, <2>1, <2>2, RecordsStay DEF LoopInv
<1>5. CASE PublishPing \/ Wake
  <2>1. /\ UNCHANGED <<case, i, matchVars, rtt, historyVars>>
        /\ \/ pc = "publish" /\ pc' = "wait"
           \/ pc = "wait" /\ pc' = "collect" /\ event /\ UNCHANGED networkVars
    BY <1>5 DEF PublishPing, Wake
  <2>2. Forced(This)' <=> Forced(This)
    BY <2>1 DEF Forced
  <2>3. EventInv'
    BY <1>1, <2>1, <2>2 DEF EventInv
  <2>4. UNCHANGED networkVars => UnderWay' = UnderWay
    BY DEF UnderWay, Held, Elems
  <2>5. ASSUME NEW p, Late(p)
        PROVE  Late(p)'
    BY <2>1, <2>5, LateStays
  <2>6. GotInv'
    BY <1>1, <2>1, <2>4, <2>5 DEF GotInv
  <2>7. QED
    BY <1>1, <2>1, <2>3, <2>6, RecordsStay DEF LoopInv
<1>6. ASSUME pc \in {"wait", "collect"}, NextPing, UNCHANGED matchVars
      PROVE  GotInv' /\ EventInv'
  <2>1. pc' \in {"clear", "stop"} /\ (pc' = "clear" => i' = i + 1) /\ expected' = i
    BY <1>1, <1>6 DEF NextPing, TypeOK
  <2>2. QED
    BY <1>1, <2>1 DEF GotInv, EventInv, TypeOK
<1>7. CASE TimeOut
  <2>1. GotInv' /\ EventInv'
    BY <1>6, <1>7 DEF TimeOut
  <2>2. rtt' = rtt /\ cutShort' = cutShort /\ ranOut \subseteq ranOut'
    BY <1>7 DEF TimeOut
  <2>3. QED
    BY <1>1, <2>1, <2>2, RecordsStay DEF LoopInv
<1>8. CASE Collect
  <2>1. pc = "collect" /\ GotInv' /\ EventInv' /\ ranOut' = ranOut
    BY <1>6, <1>8 DEF Collect
  <2>2. CASE got[i] # None
    <3>1. PICK X : X = {r \in {[seq |-> i, ping |-> got[i]]} : i \in Measured}
      OBVIOUS
    <3>2. rtt' = [rtt EXCEPT ![case] = rtt[case] \cup X] /\ cutShort' = cutShort
      BY <1>8, <2>2, <3>1 DEF Collect
    <3>3. \A r \in X : r.seq = i /\ r.ping = got[i]
      BY <3>1
    <3>4. /\ got[i] \in Pings /\ got[i].seq = i
          /\ got[i].case = case \/ (SharedTopic /\ got[i].case < case /\ Late(got[i]))
      BY <1>1, <2>1, <2>2 DEF GotInv, TypeOK
    <3>5. Late(got[i]) => \E w \in GivenUp : w.seq = i /\ w.case <= got[i].case
      BY <1>1, <3>4 DEF Late, TypeOK
    <3>6. OwnRoundTrip'
      <4>1. SUFFICES ASSUME NEW k \in CaseIds, NEW r \in rtt'[k]
                     PROVE  /\ r.ping.seq = r.seq
                            /\ \/ r.ping.case = k
                               \/ /\ SharedTopic /\ r.ping.case < k
                                  /\ \E w \in GivenUp : w.seq = r.seq /\ w.case <= r.ping.case
        BY <2>1, <3>2 DEF OwnRoundTrip
      <4>2. CASE r \in rtt[k]
        BY <1>1, <4>2 DEF OwnRoundTrip
      <4>3. CASE k = case /\ r \in X
        BY <3>3, <3>4, <3>5, <4>3
      <4>4. QED
        BY <1>1, <3>2, <4>1, <4>2, <4>3 DEF TypeOK
    <3>7. ClosedUntilLate'
      BY <1>1, <2>1, <3>2 DEF ClosedUntilLate
    <3>8. QED
      BY <2>1, <3>6, <3>7 DEF LoopInv
  <2>3. CASE got[i] = None
    <3>1. rtt' = rtt /\ cutShort' = cutShort \cup {This}
      BY <1>8, <2>3 DEF Collect
    <3>2. Forced(This)
      BY <1>1, <2>1, <2>3 DEF EventInv
    <3>3. ClosedUntilLate'
      BY <1>1, <2>1, <3>1, <3>2 DEF ClosedUntilLate, Forced
    <3>4. OwnRoundTrip'
      BY <1>1, <2>1, <3>1 DEF OwnRoundTrip
    <3>5. QED
      BY <2>1, <3>3, <3>4 DEF LoopInv
  <2>4. QED
    BY <2>2, <2>3
<1>9. QED
  BY <1>2, <1>3, <1>4, <1>5, <1>7, <1>8 DEF Client

LEMMA NetworkLoop ==
    ASSUME TypeOK, WayInv, LoopInv, Network
    PROVE  LoopInv'
<1>1. TypeOK /\ GotInv /\ EventInv /\ OwnRoundTrip /\ ClosedUntilLate
  BY DEF LoopInv
<1>2. UnderWay' \subseteq UnderWay /\ UNCHANGED <<loopVars, expected, rtt, historyVars>>
  BY NetworkWay DEF Network, Echo, LosePing, LosePong, StampPong, MatchPong
<1>3. OwnRoundTrip' /\ ClosedUntilLate'
  BY <1>1, <1>2, RecordsStay
<1>4. Forced(This)' <=> Forced(This)
  BY <1>2 DEF Forced
<1>5. ASSUME NEW p, Late(p)
      PROVE  Late(p)'
  BY <1>2, <1>5, LateStays
<1>6. CASE UNCHANGED matchVars
  <2>1. GotInv' /\ EventInv'
    BY <1>1, <1>2, <1>4, <1>5, <1>6 DEF GotInv, EventInv
  <2>2. QED
    BY <1>3, <2>1 DEF LoopInv
<1>7. ASSUME MatchPong, hand.listener = case, Subscribed, hand.ping.seq = expected
      PROVE  LoopInv'
  <2>1. PICK p : p = hand.ping
    OBVIOUS
  <2>2. /\ hand # NoPong /\ p \in Pings /\ p.seq = expected /\ expected \in Seqs
        /\ event' = TRUE /\ got' = [got EXCEPT ![expected] = p] /\ hand' = NoPong
    BY <1>1, <1>7, <2>1 DEF MatchPong, TypeOK
  <2>3. p \in UnderWay /\ p \notin UnderWay'
    <3>1. p \in Held /\ None \notin Pings
      BY <2>1, <2>2 DEF Held, None
    <3>2. Held' = {} /\ UNCHANGED <<pings, pongs>>
      BY <1>7 DEF MatchPong, Held, NoPong
    <3>3. p \notin Elems(pings) \cup Elems(pongs)
      BY <3>1 DEF WayInv, Single
    <3>4. QED
      BY <3>1, <3>2, <3>3 DEF UnderWay
  <2>4. SharedTopic \/ p.case = case
    BY <1>7, <2>1, <2>2 DEF WayInv, HandInv
  <2>5. /\ p.case <= case
        /\ p.case = case => \/ p.seq < i
                            \/ p.seq = i /\ pc \in {"wait", "collect", "stop", "finished"}
        /\ Late(p) \/ (pc \in {"wait", "collect"} /\ p = This)
    BY <2>3 DEF WayInv, Sent, LateInv
  <2>6. pc = "expect" => Forced(This)
    <3>1. pc = "expect" => Late(p) /\ p.seq < i
      BY <1>1, <2>2, <2>5 DEF EventInv, TypeOK
    <3>2. QED
      BY <1>1, <2>2, <2>4, <2>5, <3>1, LateForces
  <2>7. pc \in {"publish", "wait", "collect"} =>
            /\ got'[i] = p /\ p.seq = i /\ p # None
            /\ \/ p = This /\ pc # "publish" /\ p \notin UnderWay'
               \/ SharedTopic /\ p.case < case /\ Late(p)
    <3>1. SUFFICES ASSUME pc \in {"publish", "wait", "collect"}
                   PROVE  /\ got'[i] = p /\ p.seq = i /\ p # None
                          /\ \/ p = This /\ pc # "publish" /\ p \notin UnderWay'
                             \/ SharedTopic /\ p.case < case /\ Late(p)
      OBVIOUS
    <3>2. got'[i] = p /\ p.seq = i /\ p # None
      BY <1>1, <2>2, <3>1 DEF TypeOK, None
    <3>3. CASE p.case = case
      <4>1. p = This
        BY <2>2, <3>2, <3>3
      <4>2. pc # "publish"
        BY <1>1, <2>5, <3>2, <3>3 DEF TypeOK
      <4>3. QED
        BY <2>3, <3>2, <4>1, <4>2
    <3>4. CASE p.case < case
      <4>1. p # This
        BY <1>1, <3>4 DEF TypeOK
      <4>2. QED
        BY <1>1, <2>2, <2>4, <2>5, <3>2, <3>4, <4>1 DEF TypeOK
    <3>5. QED
      BY <1>1, <2>2, <2>5, <3>3, <3>4 DEF TypeOK
  <2>8. GotInv'
    BY <1>2, <1>5, <2>7 DEF GotInv
  <2>9. EventInv'
    BY <1>1, <1>2, <1>4, <2>2, <2>6, <2>7 DEF EventInv
  <2>10. QED
    BY <1>3, <2>8, <2>9 DEF LoopInv
<1>8. QED
  BY <1>2, <1>6, <1>7 DEF Network, Echo, LosePing, LosePong, StampPong, MatchPong

-----------------------------------------------------------------------------
(* The counts follow the loop.                                              *)

LEMMA CountStays ==
    ASSUME NEW k \in CaseIds, Counted(k), Passed(k)' = Passed(k),
           rtt'[k] = rtt[k], pubs'[k] = pubs[k], timeouts'[k] = timeouts[k],
           GivenUpOf(k)' = GivenUpOf(k)
    PROVE  Counted(k)'
BY DEF Counted, Done

LEMMA ClientCounts ==
    ASSUME TypeOK, CountInv, Client
    PROVE  CountInv'
<1> USE DEF Goto
<1>0. pc' = "finished" => case' = Cases
  BY DEF Client, StartCase, StopCase, FailCase, ClearEvent, Expect, PublishPing, TimeOut,
         Wake, Collect, NextPing, Leave, TypeOK
<1>1. CASE StartCase \/ StopCase \/ ClearEvent \/ Expect \/ PublishPing \/ Wake
  <2>1. UNCHANGED <<resultVars, historyVars>>
    BY <1>1 DEF StartCase, StopCase, ClearEvent, Expect, PublishPing, Wake
  <2>2. /\ \A k \in CaseIds : Passed(k)' = Passed(k)
        /\ \A k \in CaseIds : k < case \/ pc = "finished" => k < case' \/ pc' = "finished"
    <3>1. CASE StartCase
      BY <3>1 DEF TypeOK, StartCase, Passed
    <3>2. CASE StopCase
      <4>1. /\ pc = "stop" /\ i' = i /\ case \in CaseIds
            /\ \/ case' = case + 1 /\ pc' = "setup"
               \/ case' = case /\ pc' = "finished" /\ case = Cases
        BY <3>2 DEF TypeOK, StopCase, Leave
      <4>2. SUFFICES ASSUME NEW k \in CaseIds
                     PROVE  /\ Passed(k)' = Passed(k)
                            /\ k < case => k < case' \/ pc' = "finished"
        BY <4>1
      <4>3. QED
        BY <4>1 DEF Passed
    <3>3. CASE ClearEvent \/ Expect \/ PublishPing \/ Wake
      <4>1. /\ UNCHANGED <<case, i>> /\ pc \in {"clear", "expect", "publish", "wait"}
            /\ pc' \in {"expect", "publish", "wait", "collect"}
        BY <3>3 DEF ClearEvent, Expect, PublishPing, Wake
      <4>2. QED
        BY <4>1 DEF Passed
    <3>4. QED
      BY <1>1, <3>1, <3>2, <3>3
  <2>3. \A k \in CaseIds : GivenUpOf(k)' = GivenUpOf(k)
    BY <2>1 DEF GivenUpOf
  <2>4. \A k \in CaseIds \ failed' : Counted(k)'
    BY <2>1, <2>2, <2>3, CountStays DEF CountInv
  <2>5. /\ \A k \in CaseIds : timeouts'[k] <= Passed(k)'
        /\ \A k \in failed' : k < case' \/ pc' = "finished"
    BY <2>1, <2>2 DEF CountInv, TypeOK
  <2>6. QED
    BY <1>0, <2>4, <2>5 DEF CountInv
<1>2. CASE FailCase
  <2>1. /\ pc \in {"setup", "publish"} /\ failed' = failed \cup {case}
        /\ \A k \in CaseIds \ {case} :
              rtt'[k] = rtt[k] /\ pubs'[k] = pubs[k] /\ timeouts'[k] = timeouts[k]
        /\ timeouts'[case] = 0 /\ UNCHANGED <<i, historyVars>>
    BY <1>2 DEF FailCase, TypeOK
  <2>2. /\ \A k \in CaseIds \ {case} : Passed(k)' = Passed(k)
        /\ Passed(case)' \in Nat
        /\ \A k \in CaseIds : k < case \/ k = case => k < case' \/ pc' = "finished"
    BY <1>2 DEF TypeOK, FailCase, Leave, Passed
  <2>3. \A k \in CaseIds : GivenUpOf(k)' = GivenUpOf(k)
    BY <2>1 DEF GivenUpOf
  <2>4. \A k \in CaseIds \ failed' : Counted(k)'
    BY <2>1, <2>2, <2>3, CountStays DEF CountInv
  <2>5. \A k \in CaseIds : timeouts'[k] <= Passed(k)'
    <3>1. timeouts'[case] <= Passed(case)'
      BY <2>1, <2>2
    <3>2. \A k \in CaseIds \ {case} : timeouts'[k] <= Passed(k)'
      BY <2>1, <2>2 DEF CountInv
    <3>3. SUFFICES ASSUME NEW k \in CaseIds
                   PROVE  timeouts'[k] <= Passed(k)'
      OBVIOUS
    <3>4. CASE k = case
      BY <2>1, <2>2, <3>4 DEF Passed
    <3>5. QED
      BY <3>2, <3>4
  <2>6. \A k \in failed' : k < case' \/ pc' = "finished"
    BY <2>1, <2>2 DEF CountInv, TypeOK
  <2>7. QED
    BY <1>0, <2>4, <2>5, <2>6 DEF CountInv
<1>3. CASE TimeOut \/ Collect
  <2>1. /\ pc \in {"wait", "collect"} /\ case \in CaseIds /\ i \in Seqs
        /\ UNCHANGED <<case, failed>>
        /\ pubs' = [pubs EXCEPT ![case] = pubs[case] \cup ({i} \cap Measured)]
        /\ \/ i' = i + 1 /\ pc' = "clear"
           \/ i' = i /\ pc' = "stop" /\ i = Total
    BY <1>3 DEF TimeOut, Collect, NextPing, TypeOK
  <2>2. /\ ranOut' \cup cutShort' \subseteq GivenUp \cup {This}
        /\ GivenUp \subseteq ranOut' \cup cutShort'
        /\ \A k \in CaseIds \ {case} : rtt'[k] = rtt[k] /\ timeouts'[k] = timeouts[k]
    BY <1>3 DEF TimeOut, Collect, TypeOK
  <2>3. PICK c, s, this : c = case /\ s = i /\ this = This
    OBVIOUS
  <2>4. /\ c \in CaseIds /\ s \in Seqs /\ this.case = c /\ this.seq = s
        /\ case' = c /\ this \in Pings
    BY <2>1, <2>3
  <2>5. /\ Passed(c) = s - 1 /\ Passed(c)' = s
        /\ \A k \in CaseIds \ {c} : Passed(k)' = Passed(k)
    BY <2>1, <2>3, <2>4 DEF Passed
  <2>6. \A k \in CaseIds \ {c} : GivenUpOf(k)' = GivenUpOf(k)
    BY <2>2, <2>3, <2>4 DEF GivenUpOf
  <2>7. \A k \in failed' : k < case' \/ pc' = "finished"
    BY <2>1 DEF CountInv
  <2>8. c \notin failed
    BY <2>1, <2>3 DEF CountInv
  <2>9. \A k \in CaseIds \ {c} : pubs'[k] = pubs[k]
    BY <2>1, <2>3 DEF TypeOK
  <2>10. \A k \in (CaseIds \ failed') \ {c} : Counted(k)'
    BY <2>1, <2>2, <2>3, <2>5, <2>6, <2>9, CountStays DEF CountInv
  <2>11. \A k \in CaseIds : timeouts'[k] <= Passed(k)'
    <3>1. timeouts[c] \in Nat /\ timeouts[c] <= s - 1
      BY <2>4, <2>5 DEF CountInv, TypeOK
    <3>2. timeouts'[c] \in {timeouts[c], timeouts[c] + 1}
      BY <1>3, <2>3, <2>4 DEF TimeOut, Collect, TypeOK
    <3>3. SUFFICES ASSUME NEW k \in CaseIds
                   PROVE  timeouts'[k] <= Passed(k)'
      OBVIOUS
    <3>4. CASE k = c
      BY <2>4, <2>5, <3>1, <3>2, <3>4 DEF Passed
    <3>5. CASE k # c
      BY <2>2, <2>3, <2>5, <3>5 DEF CountInv
    <3>6. QED
      BY <3>4, <3>5
  <2>12. PICK G, D : G = GivenUpOf(c) /\ D = {w.seq : w \in G}
    OBVIOUS
  <2>13. /\ pubs[c] = Measured \cap (1 .. s - 1)
         /\ \A r, q \in rtt[c] : r.seq = q.seq => r = q
         /\ D \subseteq 1 .. s - 1
         /\ IsFiniteSet(G) /\ timeouts[c] = Cardinality(G)
         /\ {r.seq : r \in rtt[c]} = (Measured \cap (1 .. s - 1)) \ D
    BY <2>4, <2>5, <2>8, <2>12 DEF CountInv, Counted, Done
  <2>14. s \notin 1 .. s - 1 /\ 1 .. s = (1 .. s - 1) \cup {s}
    BY <2>4
  <2>15. pubs'[c] = Measured \cap (1 .. s)
    BY <2>1, <2>3, <2>13, <2>14 DEF TypeOK
  <2>16. ASSUME NEW R, NEW H, NEW E,
                R = rtt'[c], H = GivenUpOf(c)', E = {w.seq : w \in H},
                \A r, q \in R : r.seq = q.seq => r = q,
                E \subseteq 1 .. s, IsFiniteSet(H), timeouts'[c] = Cardinality(H),
                {r.seq : r \in R} = (Measured \cap (1 .. s)) \ E
         PROVE  Counted(c)'
    BY <2>5, <2>15, <2>16 DEF Counted, Done
  <2>17. ASSUME timeouts' = [timeouts EXCEPT ![case] = timeouts[case] + 1],
                rtt' = rtt, this \in ranOut' \cup cutShort'
         PROVE  Counted(c)'
    <3>1. GivenUpOf(c)' = G \cup {this}
      BY <2>2, <2>3, <2>4, <2>12, <2>17 DEF GivenUpOf
    <3>2. this \notin G
      BY <2>4, <2>12, <2>13, <2>14
    <3>3. IsFiniteSet(G \cup {this}) /\ Cardinality(G \cup {this}) = Cardinality(G) + 1
      BY <2>13, <3>2, FS_AddElement
    <3>4. PICK E : E = {w.seq : w \in G \cup {this}}
      OBVIOUS
    <3>5. E = D \cup {s}
      BY <2>4, <2>12, <3>4
    <3>6. {r.seq : r \in rtt[c]} = (Measured \cap (1 .. s)) \ E
      BY <2>13, <2>14, <3>5
    <3>7. E \subseteq 1 .. s
      BY <2>13, <2>14, <3>5
    <3>8. timeouts'[c] = Cardinality(G \cup {this})
      BY <2>3, <2>13, <2>17, <3>3 DEF TypeOK
    <3>9. QED
      BY <2>13, <2>16, <2>17, <3>1, <3>3, <3>4, <3>6, <3>7, <3>8
  <2>18. ASSUME TimeOut \/ (Collect /\ got[i] = None)
         PROVE  Counted(c)'
    <3>1. /\ timeouts' = [timeouts EXCEPT ![case] = timeouts[case] + 1] /\ rtt' = rtt
          /\ \/ ranOut' = ranOut \cup {This}
             \/ cutShort' = cutShort \cup {This}
      BY <2>18 DEF TimeOut, Collect
    <3>2. this \in ranOut' \cup cutShort'
      BY <2>3, <3>1
    <3>3. QED
      BY <2>17, <3>1, <3>2
  <2>19. ASSUME Collect, got[i] # None
         PROVE  Counted(c)'
    <3>1. PICK r : r = [seq |-> i, ping |-> got[i]]
      OBVIOUS
    <3>2. r.seq = s
      BY <2>3, <3>1
    <3>3. PICK X : X = {x \in {r} : i \in Measured}
      OBVIOUS
    <3>4. rtt' = [rtt EXCEPT ![case] = rtt[case] \cup X]
          /\ UNCHANGED <<timeouts, cutShort, ranOut>>
      BY <2>19, <3>1, <3>3 DEF Collect
    <3>5. rtt'[c] = rtt[c] \cup X /\ timeouts'[c] = timeouts[c] /\ GivenUpOf(c)' = G
      BY <2>3, <2>4, <2>12, <3>4 DEF TypeOK, GivenUpOf
    <3>6. PICK R : R = rtt[c] \cup X
      OBVIOUS
    <3>7. {x.seq : x \in R} = {x.seq : x \in rtt[c]} \cup {x.seq : x \in X}
      BY <3>6
    <3>8. {x.seq : x \in X} = Measured \cap {s}
      BY <2>3, <3>2, <3>3
    <3>9. s \notin D /\ D \subseteq 1 .. s
      BY <2>13, <2>14
    <3>10. {x.seq : x \in R} = (Measured \cap (1 .. s)) \ D
      BY <2>13, <2>14, <3>7, <3>8, <3>9
    <3>11. \A x, q \in R : x.seq = q.seq => x = q
      <4>1. \A x \in rtt[c] : x.seq # s
        BY <2>13, <2>14
      <4>2. \A x \in X : x = r
        BY <3>3
      <4>3. SUFFICES ASSUME NEW x \in R, NEW q \in R, x.seq = q.seq
                     PROVE  x = q
        OBVIOUS
      <4>4. CASE x \in rtt[c] /\ q \in rtt[c]
        BY <2>13, <4>3, <4>4
      <4>5. CASE x \in X /\ q \in X
        BY <4>2, <4>5
      <4>6. QED
        BY <3>2, <3>6, <4>1, <4>2, <4>3, <4>4, <4>5
    <3>12. R = rtt'[c] /\ timeouts'[c] = Cardinality(G) /\ IsFiniteSet(G)
      BY <2>13, <3>5, <3>6
    <3>13. QED
      BY <2>12, <2>16, <3>5, <3>9, <3>10, <3>11, <3>12
  <2>20. Counted(c)'
    BY <1>3, <2>18, <2>19
  <2>21. QED
    <3>1. \A k \in CaseIds \ failed' : Counted(k)'
      <4>1. SUFFICES ASSUME NEW k \in CaseIds \ failed'
                     PROVE  Counted(k)'
        OBVIOUS
      <4>2. CASE k = c
        BY <2>20, <4>2 DEF Counted, Passed, Done, GivenUpOf
      <4>3. QED
        BY <2>10, <4>2
    <3>2. QED
      BY <1>0, <2>7, <2>11, <3>1 DEF CountInv
<1>4. QED
  BY <1>1, <1>2, <1>3 DEF Client

LEMMA NetworkCounts ==
    ASSUME TypeOK, CountInv, UNCHANGED <<loopVars, resultVars, historyVars>>
    PROVE  CountInv'
<1>1. \A k \in CaseIds : Passed(k)' = Passed(k) /\ GivenUpOf(k)' = GivenUpOf(k)
  BY DEF Passed, GivenUpOf
<1>2. \A k \in CaseIds \ failed' : Counted(k)'
  BY <1>1, CountStays DEF CountInv
<1>3. /\ pc' = "finished" => case' = Cases
      /\ \A k \in CaseIds : timeouts'[k] <= Passed(k)'
      /\ \A k \in failed' : k < case' \/ pc' = "finished"
  BY <1>1 DEF CountInv
<1>4. QED
  BY <1>2, <1>3 DEF CountInv

-----------------------------------------------------------------------------
(* Every state of a run satisfies the invariant.                            *)

LEMMA InitInv == Init => Inv
<1> SUFFICES ASSUME Init
             PROVE  Inv
  OBVIOUS
<1>1. /\ pc = "setup" /\ case = 1 /\ i = 1 /\ expected = 0 /\ event = FALSE
      /\ got = [s \in Seqs |-> None] /\ pings = <<>> /\ pongs = <<>> /\ hand = NoPong
      /\ rtt = [k \in CaseIds |-> {}] /\ pubs = [k \in CaseIds |-> {}]
      /\ timeouts = [k \in CaseIds |-> 0] /\ failed = {} /\ ranOut = {} /\ cutShort = {}
  BY DEF Init
<1>2. /\ pings \in Seq(Pings) /\ pongs \in Seq(Pings)
      /\ Elems(pings) = {} /\ Elems(pongs) = {} /\ Held = {}
      /\ Distinct(pings) /\ Distinct(pongs)
  BY <1>1 DEF Elems, Held, NoPong, Distinct
<1>3. TypeOK
  <2>1. case \in CaseIds /\ i \in Seqs /\ expected \in 0 .. Total
    BY <1>1
  <2>2. event \in BOOLEAN
    BY <1>1
  <2>3. got \in [Seqs -> Pings \cup {None}]
    BY <1>1
  <2>4. rtt \in [CaseIds -> SUBSET [seq : Measured, ping : Pings]]
    BY <1>1
  <2>5. pubs \in [CaseIds -> SUBSET Measured]
    BY <1>1
  <2>6. timeouts \in [CaseIds -> 0 .. Total]
    BY <1>1
  <2>7. hand \in {NoPong} /\ failed \subseteq CaseIds /\ {ranOut, cutShort} \subseteq SUBSET Pings
    BY <1>1
  <2>8. QED
    BY <1>1, <1>2, <2>1, <2>3, <2>4, <2>5, <2>6, <2>7, <2>2 DEF TypeOK
<1>4. UnderWay = {} /\ WayInv
  BY <1>1, <1>2 DEF UnderWay, WayInv, Single, Sent, LateInv, HandInv
<1>5. LoopInv
  BY <1>1 DEF LoopInv, GotInv, EventInv, OwnRoundTrip, ClosedUntilLate
<1>6. CountInv
  <2>1. ASSUME NEW k \in CaseIds
        PROVE  timeouts[k] <= Passed(k) /\ Counted(k)
    <3>1. Passed(k) = 0 /\ Done(k) = {} /\ GivenUpOf(k) = {}
      BY <1>1 DEF Passed, Done, GivenUpOf
    <3>2. rtt[k] = {} /\ pubs[k] = {} /\ timeouts[k] = 0
      BY <1>1
    <3>3. {r.seq : r \in rtt[k]} = {} /\ {w.seq : w \in GivenUpOf(k)} = {}
      BY <3>1, <3>2
    <3>4. QED
      BY <3>1, <3>2, <3>3, FS_EmptySet DEF Counted
  <2>2. QED
    BY <1>1, <2>1 DEF CountInv
<1>7. QED
  BY <1>3, <1>4, <1>5, <1>6 DEF Inv

LEMMA InvStep == Inv /\ [Next]_vars => Inv'
<1> SUFFICES ASSUME Inv, [Next]_vars
             PROVE  Inv'
  OBVIOUS
<1>1. TypeOK /\ WayInv /\ LoopInv /\ CountInv /\ GotInv
  BY DEF Inv, LoopInv
<1>2. CASE Client
  BY <1>1, <1>2, ClientTypes, ClientWay, ClientLoop, ClientCounts DEF Inv
<1>3. CASE Network
  <2>1. UNCHANGED <<loopVars, resultVars, historyVars>>
    BY <1>3 DEF Network, Echo, LosePing, LosePong, StampPong, MatchPong
  <2>2. QED
    BY <1>1, <1>3, <2>1, NetworkTypes, NetworkWay, NetworkLoop, NetworkCounts DEF Inv
<1>4. CASE UNCHANGED vars
  <2>1. UNCHANGED <<loopVars, matchVars, networkVars, resultVars, historyVars>>
    BY <1>4 DEF vars
  <2>2. TypeOK'
    BY <1>1, <2>1 DEF TypeOK
  <2>3. WayInv'
    BY <1>1, <2>1 DEF WayInv, Single, Sent, LateInv, HandInv, Late, UnderWay, Held,
                      Elems, Distinct
  <2>4. LoopInv'
    BY <1>1, <2>1 DEF LoopInv, GotInv, EventInv, OwnRoundTrip, ClosedUntilLate, Late,
                      Forced, UnderWay, Held, Elems
  <2>5. CountInv'
    BY <1>1, <2>1, NetworkCounts
  <2>6. QED
    BY <2>2, <2>3, <2>4, <2>5 DEF Inv
<1>5. QED
  BY <1>2, <1>3, <1>4 DEF Next

LEMMA InvAlways == Spec => []Inv
<1>1. QED
  BY InitInv, InvStep, PTL DEF Spec

(* The types of the loop, the network and the results hold in every state.  *)
THEOREM TypeCorrect == Spec => []TypeOK
<1>1. Inv => TypeOK
  BY DEF Inv
<1>2. QED
  BY <1>1, InvAlways, PTL

(* A recorded round trip is that of its own ping; only on shared topics it  *)
(* can be that of an earlier case, and then some case up to that one gave a *)
(* ping of the same number up: seq alone matches pongs to pings.            *)
THEOREM OwnRoundTrips == Spec => []OwnRoundTrip
<1>1. Inv => OwnRoundTrip
  BY DEF Inv, LoopInv
<1>2. QED
  BY <1>1, InvAlways, PTL

(* A wait ends with neither a pong nor a timeout only after an earlier wait *)
(* has run out: the event a late pong sets too early.                       *)
THEOREM LoopClosed == Spec => []ClosedUntilLate
<1>1. Inv => ClosedUntilLate
  BY DEF Inv, LoopInv
<1>2. QED
  BY <1>1, InvAlways, PTL

LEMMA OneEach ==
    ASSUME NEW R, NEW N \in Nat, {r.seq : r \in R} \subseteq 1 .. N,
           \A r, q \in R : r.seq = q.seq => r = q
    PROVE  Cardinality(R) = Cardinality({r.seq : r \in R})
<1>1. PICK T : T = {r.seq : r \in R}
  OBVIOUS
<1>2. IsFiniteSet(T)
  <2>1. T \in SUBSET (1 .. N) /\ 1 \in Int /\ N \in Int
    BY <1>1
  <2>2. IsFiniteSet(1 .. N)
    BY <2>1, FS_Interval
  <2>3. QED
    BY <2>1, <2>2, FS_Subset
<1>3. PICK f : f = [r \in R |-> r.seq]
  OBVIOUS
<1>4. f \in [R -> T] /\ \A r \in R : f[r] = r.seq
  BY <1>1, <1>3
<1>5. f \in Injection(R, T)
  BY <1>4 DEF Injection, IsInjective
<1>6. f \in Surjection(R, T)
  BY <1>1, <1>4 DEF Surjection
<1>7. QED
  BY <1>1, <1>2, <1>5, <1>6, FS_Injection

(* A case that ended without an exception reports a publish time for every  *)
(* measured ping, and for each of them one round trip or one timeout.       *)
THEOREM CountsAddUp == Spec => []Accounting
<1>1. ASSUME Inv
      PROVE  Accounting
  <2>1. SUFFICES ASSUME NEW k \in CaseIds \ failed, k < case \/ pc = "finished"
                 PROVE  /\ pubs[k] = Measured
                        /\ Cardinality(rtt[k]) = Cardinality({r.seq : r \in rtt[k]})
                        /\ timeouts[k] = Cardinality({w \in GivenUp : w.case = k})
                        /\ {r.seq : r \in rtt[k]}
                             = Measured \ {w.seq : w \in {v \in GivenUp : v.case = k}}
    BY DEF Accounting
  <2>2. Counted(k) /\ case \in CaseIds /\ pubs[k] \subseteq Measured
    BY <1>1 DEF Inv, CountInv, TypeOK
  <2>3. Passed(k) = Total
    BY <1>1, <2>1, <2>2 DEF Inv, CountInv, Passed
  <2>4. Measured \cap Done(k) = Measured
    BY <2>3 DEF Done
  <2>5. Cardinality(rtt[k]) = Cardinality({r.seq : r \in rtt[k]})
    <3>1. {r.seq : r \in rtt[k]} \subseteq 1 .. Total
      BY <2>2, <2>4 DEF Counted
    <3>2. QED
      BY <2>2, <3>1, OneEach DEF Counted
  <2>6. QED
    BY <2>2, <2>4, <2>5 DEF Counted, GivenUpOf
<1>2. QED
  BY <1>1, InvAlways, PTL
=============================================================================

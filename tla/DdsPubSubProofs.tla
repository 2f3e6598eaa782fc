-------------------------- MODULE DdsPubSubProofs ---------------------------
(***************************************************************************)
(* Proofs, for any clients and any number of subscriptions, listeners and  *)
(* samples, that DdsPubSub serves its subscriptions, keeps its             *)
(* unsubscribes and implements PubSubContract.                             *)
(***************************************************************************)
EXTENDS DdsPubSub, TLAPS

Numbers ==
    /\ pc \in [Clients -> {"idle", "add", "remove", "stopWriters"}]
    /\ sub \in [Clients -> Subs \cup {None}]
    /\ found \in [Clients -> Listeners \cup {None}]
    /\ listener \in Listeners \cup {None}
    /\ registered \in [Listeners -> SUBSET Subs]
    /\ batch \in [Listeners -> 0 .. MaxBatch]
    /\ calling \in [Listeners -> SUBSET Subs]
    /\ issued \in 0 .. MaxSubs
    /\ open \subseteq 1 .. issued /\ closed \subseteq open /\ cut \subseteq 1 .. issued
    /\ \A c \in Clients : pc[c] \in {"add", "remove"} => None \notin {sub[c], found[c]}

(* A subscribe under way has a number of its own that is not in any table,  *)
(* and a stop() cut it just when its listener is no longer the topic's.     *)
AddInv ==
    \A c \in Clients : pc[c] = "add" =>
        /\ sub[c] \in 1 .. issued /\ sub[c] \notin open
        /\ sub[c] \in cut <=> found[c] # listener
        /\ \A d \in Clients : pc[d] = "add" /\ sub[d] = sub[c] => d = c

(* An unsubscribe under way works on the one listener that may have it.     *)
RemoveInv ==
    \A c \in Clients : pc[c] = "remove" =>
        /\ sub[c] \in open
        /\ listener # None /\ found[c] # listener => sub[c] \notin registered[listener]

(* The callbacks of a discarded listener are those a stop() cut; none of    *)
(* the topic's own was unsubscribed.                                        *)
TableInv ==
    /\ \A l \in Listeners : registered[l] \subseteq open
    /\ \A l \in Listeners : \A s \in registered[l] : s \in cut <=> l # listener
    /\ listener # None => registered[listener] \cap closed = {}

Inv == Numbers /\ AddInv /\ RemoveInv /\ TableInv /\ ActiveDelivers

USE DdsAssumption DEF None, Subs, Listeners, clientVars, tableVars, sampleVars, historyVars

-----------------------------------------------------------------------------
(* Numbers and tables stay in their ranges.                                 *)

LEMMA ClientNumbers ==
    ASSUME NEW c \in Clients, Numbers, AddInv, RemoveInv, TableInv, ClientStep(c)
    PROVE  Numbers'
<1> USE DEF Numbers, At, Forget, WorkOn
<1>1. CASE StartService(c)
  BY <1>1 DEF StartService
<1>2. CASE GetWriter(c)
  BY <1>2 DEF GetWriter
<1>3. CASE GetListener(c)
  <2>1. PICK l \in Listeners : listener' = l /\ WorkOn(c, issued + 1, l)
    BY <1>3 DEF GetListener
  <2>2. /\ issued + 1 \in Subs /\ issued' = issued + 1
        /\ pc[c] = "idle" /\ pc' = [pc EXCEPT ![c] = "add"]
        /\ UNCHANGED <<registered, batch, calling, open, closed, cut>>
    BY <1>3 DEF GetListener
  <2>3. /\ open' \subseteq 1 .. issued' /\ cut' \subseteq 1 .. issued'
        /\ issued' \in 0 .. MaxSubs
    BY <2>2
  <2>4. sub' \in [Clients -> Subs \cup {None}] /\ found' \in [Clients -> Listeners \cup {None}]
    BY <2>1, <2>2
  <2>5. \A d \in Clients : pc'[d] \in {"add", "remove"} => None \notin {sub'[d], found'[d]}
    BY <2>1, <2>2
  <2>6. QED
    BY <2>1, <2>2, <2>3, <2>4, <2>5
<1>4. CASE AddCallback(c)
  <2>1. sub[c] \in 1 .. issued /\ found[c] \in Listeners
    BY <1>4 DEF AddCallback, AddInv
  <2>2. registered' \in [Listeners -> SUBSET Subs] /\ open' \subseteq 1 .. issued
    BY <1>4, <2>1 DEF AddCallback
  <2>3. QED
    BY <1>4, <2>2 DEF AddCallback
<1>5. ASSUME NEW s \in Subs, LookupListener(c, s)
      PROVE  Numbers'
  <2>1. s \in open
    BY <1>5 DEF LookupListener
  <2>2. CASE listener = None
    BY <1>5, <2>1, <2>2 DEF LookupListener
  <2>3. CASE listener # None
    <3>1. /\ pc' = [pc EXCEPT ![c] = "remove"]
          /\ sub' = [sub EXCEPT ![c] = s] /\ found' = [found EXCEPT ![c] = listener]
          /\ UNCHANGED <<tableVars, registered, sampleVars, issued, open, closed, cut>>
      BY <1>5, <2>3 DEF LookupListener
    <3>2. s # None /\ listener \in Listeners
      BY <2>3
    <3>3. \A d \in Clients : pc'[d] \in {"add", "remove"} => None \notin {sub'[d], found'[d]}
      BY <3>1, <3>2
    <3>4. QED
      BY <3>1, <3>2, <3>3
  <2>4. QED
    BY <2>2, <2>3
<1>6. CASE RemoveCallback(c)
  <2>1. sub[c] \in open /\ found[c] \in Listeners
    BY <1>6 DEF RemoveCallback, RemoveInv
  <2>2. registered' \in [Listeners -> SUBSET Subs]
    BY <1>6, <2>1 DEF RemoveCallback
  <2>3. QED
    BY <1>6, <2>1, <2>2 DEF RemoveCallback
<1>7. CASE StopReaders(c)
  <2>1. (IF listener = None THEN {} ELSE registered[listener]) \subseteq 1 .. issued
    BY DEF TableInv
  <2>2. {sub[d] : d \in {e \in Clients : pc[e] = "add" /\ found[e] = listener}} \subseteq 1 .. issued
    BY DEF AddInv
  <2>3. cut' \subseteq 1 .. issued
    BY <1>7, <2>1, <2>2 DEF StopReaders
  <2>4. pc' \in [Clients -> {"idle", "add", "remove", "stopWriters"}]
        /\ \A d \in Clients : pc'[d] \in {"add", "remove"} => pc'[d] = pc[d]
    BY <1>7 DEF StopReaders
  <2>5. QED
    BY <1>7, <2>3, <2>4 DEF StopReaders
<1>8. CASE StopWriters(c)
  BY <1>8 DEF StopWriters
<1>9. QED
  BY <1>1, <1>2, <1>3, <1>4, <1>5, <1>6, <1>7, <1>8 DEF ClientStep

LEMMA ReaderNumbers ==
    ASSUME NEW l \in Listeners, Numbers,
           Take(l) \/ NextSample(l) \/ \E s \in Subs : CallCallback(l, s)
    PROVE  Numbers'
<1> USE DEF Numbers
<1>1. CASE Take(l)
  BY <1>1 DEF Take
<1>2. CASE NextSample(l)
  BY <1>2 DEF NextSample
<1>3. ASSUME NEW s \in Subs, CallCallback(l, s)
      PROVE  Numbers'
  BY <1>3 DEF CallCallback
<1>4. QED
  BY <1>1, <1>2, <1>3

-----------------------------------------------------------------------------
(* The other parts, by the steps that touch the tables.                     *)

LEMMA QuietStep ==
    ASSUME Inv, UNCHANGED <<listener, registered, issued, open, cut>>,
           \A d \in Clients : pc'[d] \in {"add", "remove"} =>
               pc'[d] = pc[d] /\ sub'[d] = sub[d] /\ found'[d] = found[d],
           closed' = closed
    PROVE  AddInv' /\ RemoveInv' /\ TableInv' /\ ActiveDelivers'
<1>1. AddInv'
  BY DEF Inv, AddInv
<1>2. RemoveInv'
  BY DEF Inv, RemoveInv
<1>3. TableInv' /\ ActiveDelivers'
  BY DEF Inv, TableInv, ActiveDelivers
<1>4. QED
  BY <1>1, <1>2, <1>3

LEMMA GetListenerStep ==
    ASSUME NEW c \in Clients, Inv, GetListener(c)
    PROVE  AddInv' /\ RemoveInv' /\ TableInv' /\ ActiveDelivers'
<1>1. PICK l \in Listeners : /\ IF listener = None THEN ~Made(l) ELSE l = listener
                             /\ listener' = l
                             /\ WorkOn(c, issued + 1, l)
  BY DEF GetListener
<1>2. /\ issued' = issued + 1 /\ pc' = [pc EXCEPT ![c] = "add"] /\ pc[c] = "idle"
      /\ UNCHANGED <<registered, open, closed, cut>>
  BY DEF GetListener, At
<1>3. Numbers /\ AddInv /\ RemoveInv /\ TableInv /\ ActiveDelivers
  BY DEF Inv
<1>4. /\ pc'[c] = "add" /\ sub'[c] = issued + 1 /\ found'[c] = l
      /\ \A d \in Clients \ {c} : pc'[d] = pc[d] /\ sub'[d] = sub[d] /\ found'[d] = found[d]
  BY <1>1, <1>2, <1>3 DEF Numbers, WorkOn
<1>5. /\ issued + 1 \notin 1 .. issued /\ 1 .. issued \subseteq 1 .. issued'
      /\ issued + 1 \in 1 .. issued'
      /\ open \subseteq 1 .. issued /\ cut \subseteq 1 .. issued
  BY <1>2, <1>3 DEF Numbers
<1>6. listener # l => listener = None /\ registered[l] = {} /\ \A d \in Clients : found[d] # l
  BY <1>1 DEF Made
<1>7. AddInv'
  <2>1. ASSUME NEW d \in Clients, pc'[d] = "add"
        PROVE  /\ sub'[d] \in 1 .. issued' /\ sub'[d] \notin open'
               /\ sub'[d] \in cut' <=> found'[d] # listener'
               /\ \A e \in Clients : pc'[e] = "add" /\ sub'[e] = sub'[d] => e = d
    <3>1. CASE d = c
      <4>1. \A e \in Clients : pc'[e] = "add" /\ sub'[e] = issued + 1 => e = c
        BY <1>3, <1>4, <1>5 DEF AddInv
      <4>2. QED
        BY <1>1, <1>2, <1>4, <1>5, <3>1, <4>1
    <3>2. CASE d # c
      <4>1. /\ pc[d] = "add" /\ sub'[d] = sub[d] /\ found'[d] = found[d]
            /\ sub[d] \in 1 .. issued /\ sub[d] \notin open
            /\ sub[d] \in cut <=> found[d] # listener
        BY <1>3, <1>4, <2>1, <3>2 DEF AddInv
      <4>2. found[d] # None
        BY <1>3, <4>1 DEF Numbers
      <4>3. found[d] # listener <=> found[d] # l
        BY <1>6, <4>2
      <4>4. \A e \in Clients : pc'[e] = "add" /\ sub'[e] = sub'[d] => e = d
        BY <1>3, <1>4, <1>5, <4>1 DEF AddInv
      <4>5. QED
        BY <1>1, <1>2, <1>5, <4>1, <4>3, <4>4
    <3>3. QED
      BY <3>1, <3>2
  <2>2. QED
    BY <2>1 DEF AddInv
<1>8. RemoveInv'
  BY <1>1, <1>2, <1>3, <1>4, <1>6 DEF RemoveInv
<1>9. TableInv'
  BY <1>1, <1>2, <1>3, <1>6 DEF TableInv
<1>10. ActiveDelivers'
  BY <1>1, <1>2, <1>3, <1>6 DEF ActiveDelivers
<1>11. QED
  BY <1>7, <1>8, <1>9, <1>10

LEMMA AddCallbackStep ==
    ASSUME NEW c \in Clients, Inv, AddCallback(c)
    PROVE  AddInv' /\ RemoveInv' /\ TableInv' /\ ActiveDelivers'
<1> DEFINE s == sub[c]
           m == found[c]
<1>1. Numbers /\ AddInv /\ RemoveInv /\ TableInv /\ ActiveDelivers
  BY DEF Inv
<1>2. /\ pc[c] = "add" /\ pc' = [pc EXCEPT ![c] = "idle"]
      /\ registered' = [registered EXCEPT ![m] = registered[m] \cup {s}]
      /\ open' = open \cup {s}
      /\ UNCHANGED <<listener, issued, closed, cut>>
  BY DEF AddCallback, At
<1>3. /\ pc'[c] = "idle"
      /\ \A d \in Clients \ {c} : pc'[d] = pc[d] /\ sub'[d] = sub[d] /\ found'[d] = found[d]
  BY <1>1, <1>2 DEF AddCallback, Numbers, Forget
<1>4. /\ s \in 1 .. issued /\ s \notin open /\ (s \in cut <=> m # listener)
      /\ m \in Listeners /\ s \notin closed
      /\ \A d \in Clients : pc[d] = "add" /\ sub[d] = s => d = c
  BY <1>1, <1>2 DEF AddInv, Numbers
<1>5. /\ registered'[m] = registered[m] \cup {s}
      /\ \A l \in Listeners \ {m} : registered'[l] = registered[l]
  BY <1>1, <1>2, <1>4 DEF Numbers
<1>6. AddInv'
  BY <1>1, <1>2, <1>3, <1>4 DEF AddInv
<1>7. RemoveInv'
  <2>1. listener # None => listener \in Listeners
    BY <1>1 DEF Numbers
  <2>2. QED
    BY <1>1, <1>2, <1>3, <1>4, <1>5, <2>1 DEF RemoveInv
<1>8. TableInv'
  <2>1. \A l \in Listeners : registered'[l] \subseteq open'
    BY <1>1, <1>2, <1>5 DEF TableInv
  <2>2. \A l \in Listeners : \A t \in registered'[l] : t \in cut' <=> l # listener'
    BY <1>1, <1>2, <1>4, <1>5 DEF TableInv
  <2>3. listener' # None => registered'[listener'] \cap closed' = {}
    BY <1>1, <1>2, <1>4, <1>5 DEF TableInv, Numbers
  <2>4. QED
    BY <2>1, <2>2, <2>3 DEF TableInv
<1>9. ActiveDelivers'
  <2>1. SUFFICES ASSUME NEW t \in open' \ cut', Alike(t) \cap closed' = {}
                 PROVE  listener' # None /\ t \in registered'[listener']
    BY DEF ActiveDelivers
  <2>2. CASE t = s
    BY <1>2, <1>4, <1>5, <2>1, <2>2
  <2>3. CASE t # s
    <3>1. listener # None /\ t \in registered[listener]
      BY <1>1, <1>2, <2>1, <2>3 DEF ActiveDelivers
    <3>2. QED
      BY <1>1, <1>2, <1>5, <3>1 DEF Numbers
  <2>4. QED
    BY <2>2, <2>3
<1>10. QED
  BY <1>6, <1>7, <1>8, <1>9

LEMMA AlikeSymmetric ==
    ASSUME NEW s, NEW t
    PROVE  s \in Alike(s) /\ (t \in Alike(s) => s \in Alike(t))
BY DEF Alike

LEMMA LookupListenerStep ==
    ASSUME NEW c \in Clients, NEW s \in Subs, Inv, LookupListener(c, s)
    PROVE  AddInv' /\ RemoveInv' /\ TableInv' /\ ActiveDelivers'
<1>1. Numbers /\ AddInv /\ RemoveInv /\ TableInv /\ ActiveDelivers
  BY DEF Inv
<1>2. s \in open /\ UNCHANGED <<listener, registered, issued, open, cut>>
  BY DEF LookupListener
<1>3. CASE listener = None
  <2>1. UNCHANGED <<pc, sub, found>> /\ closed' = closed \cup {s}
    BY <1>3 DEF LookupListener
  <2>2. AddInv' /\ RemoveInv'
    BY <1>1, <1>2, <2>1 DEF AddInv, RemoveInv
  <2>3. TableInv'
    BY <1>1, <1>2, <1>3 DEF TableInv
  <2>4. ActiveDelivers'
    BY <1>1, <1>2, <1>3, <2>1 DEF ActiveDelivers
  <2>5. QED
    BY <2>2, <2>3, <2>4
<1>4. CASE listener # None
  <2>1. /\ closed' = closed
        /\ pc' = [pc EXCEPT ![c] = "remove"]
        /\ WorkOn(c, s, listener)
    BY <1>4 DEF LookupListener, At
  <2>2. /\ pc'[c] = "remove" /\ sub'[c] = s /\ found'[c] = listener
        /\ \A d \in Clients \ {c} : pc'[d] = pc[d] /\ sub'[d] = sub[d] /\ found'[d] = found[d]
    BY <1>1, <2>1 DEF Numbers, WorkOn
  <2>3. AddInv'
    BY <1>1, <1>2, <2>2 DEF AddInv
  <2>4. RemoveInv'
    BY <1>1, <1>2, <2>2 DEF RemoveInv
  <2>5. TableInv' /\ ActiveDelivers'
    BY <1>1, <1>2, <2>1 DEF TableInv, ActiveDelivers
  <2>6. QED
    BY <2>3, <2>4, <2>5
<1>5. QED
  BY <1>3, <1>4

LEMMA RemoveCallbackStep ==
    ASSUME NEW c \in Clients, Inv, RemoveCallback(c)
    PROVE  AddInv' /\ RemoveInv' /\ TableInv' /\ ActiveDelivers'
<1> DEFINE s == sub[c]
           m == found[c]
<1>1. Numbers /\ AddInv /\ RemoveInv /\ TableInv /\ ActiveDelivers
  BY DEF Inv
<1>2. /\ pc[c] = "remove" /\ pc' = [pc EXCEPT ![c] = "idle"]
      /\ registered' = [registered EXCEPT ![m] = registered[m] \ Alike(s)]
      /\ closed' = closed \cup {s}
      /\ UNCHANGED <<listener, issued, open, cut>>
  BY DEF RemoveCallback, At
<1>3. /\ pc'[c] = "idle"
      /\ \A d \in Clients \ {c} : pc'[d] = pc[d] /\ sub'[d] = sub[d] /\ found'[d] = found[d]
  BY <1>1, <1>2 DEF RemoveCallback, Numbers, Forget
<1>4. m \in Listeners /\ s \in Alike(s)
  BY <1>1, <1>2, AlikeSymmetric DEF Numbers
<1>5. /\ registered'[m] = registered[m] \ Alike(s)
      /\ \A l \in Listeners \ {m} : registered'[l] = registered[l]
  BY <1>1, <1>2, <1>4 DEF Numbers
<1>6. \A l \in Listeners : registered'[l] \subseteq registered[l]
  BY <1>5
<1>7. listener # None => listener \in Listeners
  BY <1>1 DEF Numbers
<1>8. AddInv'
  BY <1>1, <1>2, <1>3 DEF AddInv
<1>9. RemoveInv'
  BY <1>1, <1>2, <1>3, <1>6, <1>7 DEF RemoveInv
<1>10. TableInv'
  <2>1. listener # None => s \notin registered'[listener]
    BY <1>1, <1>2, <1>4, <1>5, <1>6, <1>7 DEF RemoveInv
  <2>2. QED
    BY <1>1, <1>2, <1>6, <1>7, <2>1 DEF TableInv
<1>11. ActiveDelivers'
  <2>1. SUFFICES ASSUME NEW t \in open' \ cut', Alike(t) \cap closed' = {}
                 PROVE  listener' # None /\ t \in registered'[listener']
    BY DEF ActiveDelivers
  <2>2. t \notin Alike(s)
    BY <1>2, <2>1, AlikeSymmetric
  <2>3. listener # None /\ t \in registered[listener]
    BY <1>1, <1>2, <2>1 DEF ActiveDelivers
  <2>4. QED
    BY <1>2, <1>5, <1>7, <2>2, <2>3
<1>12. QED
  BY <1>8, <1>9, <1>10, <1>11

LEMMA StopReadersStep ==
    ASSUME NEW c \in Clients, Inv, StopReaders(c)
    PROVE  AddInv' /\ RemoveInv' /\ TableInv' /\ ActiveDelivers'
<1>1. Numbers /\ AddInv /\ RemoveInv /\ TableInv /\ ActiveDelivers
  BY DEF Inv
<1>2. /\ listener' = None
      /\ UNCHANGED <<sub, found, registered, issued, open, closed>>
      /\ cut \subseteq cut'
      /\ \A t \in Subs : listener # None /\ t \in registered[listener] => t \in cut'
      /\ \A d \in Clients : pc[d] = "add" /\ found[d] = listener => sub[d] \in cut'
  BY DEF StopReaders
<1>3. \A d \in Clients : pc'[d] \in {"add", "remove"} => pc'[d] = pc[d]
  BY <1>1 DEF StopReaders, At, Numbers
<1>4. AddInv'
  <2>1. \A d \in Clients : pc[d] = "add" => sub[d] \in cut' /\ found[d] # None
    BY <1>1, <1>2 DEF AddInv, Numbers
  <2>2. QED
    BY <1>1, <1>2, <1>3, <2>1 DEF AddInv
<1>5. RemoveInv'
  BY <1>1, <1>2, <1>3 DEF RemoveInv
<1>6. TableInv'
  <2>1. \A l \in Listeners : l # None /\ \A t \in registered[l] : t \in Subs
    BY <1>1 DEF Numbers
  <2>2. \A l \in Listeners : \A t \in registered[l] : t \in cut'
    BY <1>1, <1>2, <2>1 DEF TableInv
  <2>3. QED
    BY <1>1, <1>2, <2>1, <2>2 DEF TableInv
<1>7. ActiveDelivers'
  <2>1. open \subseteq Subs
    BY <1>1 DEF Numbers
  <2>2. \A t \in open \ cut' : Alike(t) \cap closed # {}
    BY <1>1, <1>2, <2>1 DEF ActiveDelivers
  <2>3. QED
    BY <1>2, <2>2 DEF ActiveDelivers
<1>8. QED
  BY <1>4, <1>5, <1>6, <1>7

-----------------------------------------------------------------------------
(* The inductive invariant.                                                 *)

LEMMA InvInit == Init => Inv
<1>1. ASSUME Init
      PROVE  Numbers
  BY <1>1 DEF Init, Numbers
<1>2. ASSUME Init
      PROVE  AddInv /\ RemoveInv /\ TableInv /\ ActiveDelivers
  BY <1>2 DEF Init, AddInv, RemoveInv, TableInv, ActiveDelivers
<1>3. QED
  BY <1>1, <1>2 DEF Inv

LEMMA InvStutters == ASSUME Inv, UNCHANGED vars PROVE Inv'
BY DEF Inv, vars, Numbers, AddInv, RemoveInv, TableInv, ActiveDelivers

LEMMA ClientStepInv ==
    ASSUME NEW c \in Clients, Inv, ClientStep(c)
    PROVE  Inv'
<1>1. Numbers'
  BY ClientNumbers DEF Inv
<1>2. ASSUME StartService(c) \/ GetWriter(c) \/ StopWriters(c)
      PROVE  AddInv' /\ RemoveInv' /\ TableInv' /\ ActiveDelivers'
  <2>1. /\ UNCHANGED <<listener, registered, issued, open, cut, sub, found>> /\ closed' = closed
        /\ \A d \in Clients : pc'[d] \in {"add", "remove"} => pc'[d] = pc[d]
    BY <1>2 DEF StartService, GetWriter, StopWriters, At, Inv, Numbers
  <2>2. QED
    BY <2>1, QuietStep
<1>3. QED
  BY <1>1, <1>2, GetListenerStep, AddCallbackStep, LookupListenerStep, RemoveCallbackStep,
     StopReadersStep DEF ClientStep, Inv

LEMMA ReaderStepInv ==
    ASSUME NEW l \in Listeners, Inv,
           Take(l) \/ NextSample(l) \/ \E s \in Subs : CallCallback(l, s)
    PROVE  Inv'
<1>1. Numbers'
  BY ReaderNumbers DEF Inv
<1>2. UNCHANGED <<listener, registered, issued, open, cut, closed, pc, sub, found>>
  BY DEF Take, NextSample, CallCallback
<1>3. AddInv' /\ RemoveInv' /\ TableInv' /\ ActiveDelivers'
  BY <1>2, QuietStep
<1>4. QED
  BY <1>1, <1>3 DEF Inv

LEMMA InvStep == ASSUME Inv, [Next]_vars PROVE Inv'
BY ClientStepInv, ReaderStepInv, InvStutters DEF Next

(* Inv holds of every reachable state.                                      *)
THEOREM DdsInvariant == Spec => []Inv
<1>1. Init => Inv
  BY InvInit
<1>2. Inv /\ [Next]_vars => Inv'
  BY InvStep
<1>3. QED
  BY <1>1, <1>2, PTL DEF Spec

(* A subscription that subscribe() returned is served by the topic's reader *)
(* until its callback is unsubscribed or the service stops: the callback of *)
(* ddspubsub.py is in the listener that the next sample finds, however many *)
(* threads subscribe, unsubscribe and stop at once.                         *)
THEOREM DdsActiveDelivers == Spec => []ActiveDelivers
<1>1. Inv => ActiveDelivers
  BY DEF Inv
<1>2. QED
  BY <1>1, DdsInvariant, PTL

(* A sample whose dispatch begins after an unsubscribe function returned is *)
(* not given to its subscription, except by a listener that stop() had      *)
(* discarded: remove_callback leaves no entry behind in the topic's own.    *)
THEOREM DdsUnsubscribeHolds == Spec => UnsubscribeHolds
<1> DEFINE Held == \A l \in Listeners : NewSample(l) \cap closed # {} => l # listener
<1>1. ASSUME Inv, [Next]_vars
      PROVE  [Held]_vars
  <2>1. ASSUME NEW c \in Clients, ClientStep(c)
        PROVE  Held
    <3>1. calling' = calling
      BY <2>1 DEF ClientStep, StartService, GetWriter, GetListener, AddCallback, LookupListener,
                  RemoveCallback, StopReaders, StopWriters
    <3>2. QED
      BY <3>1 DEF NewSample
  <2>2. ASSUME NEW l \in Listeners, Take(l) \/ \E s \in Subs : CallCallback(l, s)
        PROVE  Held
    <3>1. calling \in [Listeners -> SUBSET Subs]
      BY <1>1 DEF Inv, Numbers
    <3>2. \/ calling' = calling
          \/ \E s \in Subs : calling' = [calling EXCEPT ![l] = @ \ {s}]
      BY <2>2 DEF Take, CallCallback
    <3>3. \A k \in Listeners : calling'[k] \subseteq calling[k]
      BY <3>1, <3>2
    <3>4. QED
      BY <3>3 DEF NewSample
  <2>3. ASSUME NEW l \in Listeners, NextSample(l)
        PROVE  Held
    <3>1. calling'[l] = registered[l] /\ \A k \in Listeners \ {l} : calling'[k] = calling[k]
      BY <1>1, <2>3 DEF NextSample, Inv, Numbers
    <3>2. listener = l => registered[l] \cap closed = {}
      BY <1>1 DEF Inv, TableInv
    <3>3. QED
      BY <3>1, <3>2 DEF NewSample
  <2>4. QED
    BY <1>1, <2>1, <2>2, <2>3 DEF Next
<1>2. QED
  BY <1>1, DdsInvariant, PTL DEF Spec, UnsubscribeHolds

-----------------------------------------------------------------------------
(* The refinement: what each step does to the lives of the subscriptions.   *)

Lives        == [s \in Subs |-> Life(s)]
Requested(s) == \E d \in Clients : pc[d] = "add" /\ sub[d] = s
Active(s)    == listener # None /\ s \in registered[listener]

LEMMA LifeIs ==
    ASSUME NEW s \in Subs, Inv
    PROVE  /\ Life(s) = "new" <=> s > issued
           /\ Life(s) = "cut" <=> s \in cut
           /\ Life(s) = "active" <=> Active(s)
           /\ Life(s) = "requested" <=> Requested(s) /\ s \notin cut
           /\ Life(s) \in {"new", "cut", "active", "requested", "ended"}
<1>1. /\ s \in cut => s \in 1 .. issued
      /\ Active(s) => s \in open /\ s \in 1 .. issued /\ s \notin cut
      /\ Requested(s) => s \in 1 .. issued /\ s \notin open
  BY DEF Inv, Numbers, AddInv, TableInv, Active, Requested
<1>2. issued \in Nat
  BY DEF Inv, Numbers
<1>3. s \in 1 .. issued <=> ~(s > issued)
  BY <1>2
<1>4. QED
  BY <1>1, <1>3 DEF Life, Active, Requested

LEMMA LifeKept ==
    ASSUME NEW s \in Subs, s > issued' <=> s > issued, s \in cut' <=> s \in cut,
           Active(s)' <=> Active(s), Requested(s)' <=> Requested(s)
    PROVE  Life(s)' = Life(s)
BY DEF Life, Active, Requested

LEMMA ContractStutters ==
    ASSUME UNCHANGED calling, \A s \in Subs : Life(s)' = Life(s)
    PROVE  UNCHANGED Contract!vars
BY DEF Contract!vars

LEMMA ContractChange ==
    ASSUME NEW s \in Subs, NEW from, NEW to, Life(s) = from, Life(s)' = to,
           \A t \in Subs \ {s} : Life(t)' = Life(t), UNCHANGED calling
    PROVE  Contract!Change(s, from, to)
BY DEF Contract!Change

LEMMA GetListenerRefines ==
    ASSUME NEW c \in Clients, Inv, Inv', GetListener(c)
    PROVE  Contract!Next
<1>0. PICK s : s = issued + 1
  OBVIOUS
<1>1. PICK l \in Listeners : /\ IF listener = None THEN ~Made(l) ELSE l = listener
                             /\ listener' = l
                             /\ WorkOn(c, s, l)
  BY <1>0 DEF GetListener
<1>2. /\ s \in Subs /\ issued' = s /\ issued \in Nat
      /\ pc[c] = "idle" /\ pc' = [pc EXCEPT ![c] = "add"]
      /\ UNCHANGED <<registered, calling, open, cut>>
  BY <1>0 DEF GetListener, At, Inv, Numbers
<1>3. /\ pc'[c] = "add" /\ sub'[c] = s
      /\ \A d \in Clients \ {c} : pc'[d] = pc[d] /\ sub'[d] = sub[d]
  BY <1>1, <1>2 DEF Inv, Numbers, WorkOn
<1>4. \A t \in Subs : Active(t)' <=> Active(t)
  BY <1>1, <1>2 DEF Active, Made
<1>5. Life(s) = "new"
  BY <1>0, <1>2, LifeIs
<1>6. Life(s)' = "requested"
  <2>1. Requested(s)' /\ s \notin cut'
    BY <1>0, <1>2, <1>3 DEF Requested, Inv, Numbers
  <2>2. ~(s > issued') /\ ~Active(s)'
    BY <1>2, <1>4, <1>5, LifeIs
  <2>3. QED
    BY <2>1, <2>2 DEF Life, Active, Requested
<1>7. ASSUME NEW t \in Subs \ {s}
      PROVE  Life(t)' = Life(t)
  <2>1. t > issued' <=> t > issued
    BY <1>0, <1>2
  <2>2. Requested(t)' <=> Requested(t)
    BY <1>2, <1>3 DEF Requested
  <2>3. QED
    BY <1>2, <1>4, <2>1, <2>2, LifeKept
<1>8. Contract!Request(s)
  BY <1>2, <1>5, <1>6, <1>7, ContractChange DEF Contract!Request
<1>9. QED
  BY <1>2, <1>8 DEF Contract!Next

LEMMA AddCallbackRefines ==
    ASSUME NEW c \in Clients, Inv, Inv', AddCallback(c)
    PROVE  Contract!Next \/ UNCHANGED Contract!vars
<1>0. PICK s, m : s = sub[c] /\ m = found[c]
  OBVIOUS
<1>1. /\ pc[c] = "add" /\ pc' = [pc EXCEPT ![c] = "idle"]
      /\ registered' = [registered EXCEPT ![m] = registered[m] \cup {s}]
      /\ UNCHANGED <<listener, issued, cut, calling>>
  BY <1>0 DEF AddCallback, At
<1>2. /\ pc'[c] = "idle"
      /\ \A d \in Clients \ {c} : pc'[d] = pc[d] /\ sub'[d] = sub[d]
  BY <1>1 DEF Inv, Numbers, AddCallback, Forget
<1>3. /\ s \in Subs /\ s \in 1 .. issued /\ m \in Listeners
      /\ s \in cut <=> m # listener
      /\ Requested(s)
  BY <1>0, <1>1 DEF Inv, Numbers, AddInv, Requested
<1>4. /\ registered'[m] = registered[m] \cup {s}
      /\ \A l \in Listeners \ {m} : registered'[l] = registered[l]
  BY <1>1, <1>3 DEF Inv, Numbers
<1>5. ASSUME NEW t \in Subs \ {s}
      PROVE  Life(t)' = Life(t)
  <2>1. Active(t)' <=> Active(t)
    BY <1>1, <1>3, <1>4 DEF Active, Inv, Numbers
  <2>2. Requested(t)' <=> Requested(t)
    BY <1>0, <1>1, <1>2 DEF Requested
  <2>3. QED
    BY <1>1, <2>1, <2>2, LifeKept
<1>6. CASE s \in cut
  <2>1. Life(s) = "cut"
    BY <1>3, <1>6, LifeIs
  <2>2. Life(s)' = "cut"
    <3>1. ~(s > issued)
      BY <1>3 DEF Inv, Numbers
    <3>2. ~Active(s)'
      BY <1>1, <1>6 DEF Active, Inv, Numbers, TableInv
    <3>3. QED
      BY <1>1, <1>6, <3>1, <3>2 DEF Life, Active
  <2>3. QED
    BY <1>1, <1>5, <2>1, <2>2, ContractStutters
<1>7. CASE s \notin cut
  <2>1. Life(s) = "requested"
    BY <1>3, <1>7, LifeIs
  <2>2. Life(s)' = "active"
    <3>1. ~(s > issued) /\ listener # None
      BY <1>3, <1>7 DEF Inv, Numbers
    <3>2. ~Requested(s)'
      BY <1>0, <1>1, <1>2 DEF Requested, Inv, AddInv
    <3>3. Active(s)'
      BY <1>1, <1>3, <1>4, <1>7, <3>1 DEF Active
    <3>4. QED
      BY <1>1, <1>7, <3>1, <3>2, <3>3 DEF Life, Active, Requested
  <2>3. Contract!Activate(s)
    BY <1>1, <1>3, <1>5, <2>1, <2>2, ContractChange DEF Contract!Activate
  <2>4. QED
    BY <1>3, <2>3 DEF Contract!Next
<1>8. QED
  BY <1>6, <1>7

LEMMA RemoveCallbackRefines ==
    ASSUME NEW c \in Clients, Inv, Inv', RemoveCallback(c)
    PROVE  Contract!Next \/ UNCHANGED Contract!vars
<1>0. PICK s, m : s = sub[c] /\ m = found[c]
  OBVIOUS
<1>1. /\ pc[c] = "remove" /\ pc' = [pc EXCEPT ![c] = "idle"]
      /\ registered' = [registered EXCEPT ![m] = registered[m] \ Alike(s)]
      /\ UNCHANGED <<listener, issued, open, cut, calling>>
  BY <1>0 DEF RemoveCallback, At
<1>2. /\ pc'[c] = "idle"
      /\ \A d \in Clients \ {c} : pc'[d] = pc[d] /\ sub'[d] = sub[d]
  BY <1>1 DEF Inv, Numbers, RemoveCallback, Forget
<1>3. s \in open /\ s \in Subs /\ s \in 1 .. issued /\ m \in Listeners
  BY <1>0, <1>1 DEF Inv, Numbers, RemoveInv
<1>4. /\ registered'[m] = registered[m] \ Alike(s)
      /\ \A l \in Listeners \ {m} : registered'[l] = registered[l]
  BY <1>1, <1>3 DEF Inv, Numbers
<1>5. \A t \in Subs : Requested(t)' <=> Requested(t)
  BY <1>1, <1>2 DEF Requested
<1>6. CASE m # listener
  <2>1. ASSUME NEW t \in Subs
        PROVE  Life(t)' = Life(t)
    <3>1. Active(t)' <=> Active(t)
      BY <1>1, <1>4, <1>6 DEF Active, Inv, Numbers
    <3>2. QED
      BY <1>1, <1>5, <3>1, LifeKept
  <2>2. QED
    BY <1>1, <2>1, ContractStutters
<1>7. CASE m = listener
  <2>1. Life(s) \in {"active", "ended", "cut"}
    <3>1. ~Requested(s) /\ ~(s > issued)
      BY <1>3 DEF Inv, Numbers, AddInv, Requested
    <3>2. QED
      BY <1>3, <3>1, LifeIs
  <2>2. ASSUME NEW t \in Subs, t \in Alike(s), Life(t) = "active"
        PROVE  Life(t)' = "ended"
    <3>1. Active(t) /\ ~(t > issued) /\ t \notin cut /\ ~Requested(t)
      BY <2>2, LifeIs
    <3>2. ~Active(t)'
      BY <1>1, <1>4, <1>7, <2>2 DEF Active
    <3>3. QED
      BY <1>1, <1>5, <3>1, <3>2 DEF Life, Active, Requested
  <2>3. ASSUME NEW t \in Subs, ~(t \in Alike(s) /\ Life(t) = "active")
        PROVE  Life(t)' = Life(t)
    <3>1. Active(t)' <=> Active(t)
      BY <1>1, <1>4, <1>7, <2>3, LifeIs DEF Active
    <3>2. QED
      BY <1>1, <1>5, <3>1, LifeKept
  <2>4. Contract!End(s)
    <3>1. Contract!Alike(s) = Alike(s)
      BY DEF Contract!Alike, Alike
    <3>2. \A t \in Subs : Life(t)' = IF t \in Contract!In("active") \cap Contract!Alike(s)
                                       THEN "ended" ELSE Life(t)
      BY <2>2, <2>3, <3>1 DEF Contract!In
    <3>3. QED
      BY <1>1, <1>3, <2>1, <3>2 DEF Contract!End
  <2>5. QED
    BY <1>3, <2>4 DEF Contract!Next
<1>8. QED
  BY <1>6, <1>7

LEMMA StopReadersRefines ==
    ASSUME NEW c \in Clients, Inv, Inv', StopReaders(c)
    PROVE  Contract!Next
<1> DEFINE adders == {sub[d] : d \in {e \in Clients : pc[e] = "add" /\ found[e] = listener}}
<1>1. /\ pc[c] = "idle" /\ pc' = [pc EXCEPT ![c] = "stopWriters"]
      /\ listener' = None
      /\ cut' = cut \cup (IF listener = None THEN {} ELSE registered[listener]) \cup adders
      /\ UNCHANGED <<sub, issued, calling>>
  BY DEF StopReaders, At
<1>2. \A d \in Clients : pc'[d] = "add" <=> pc[d] = "add"
  BY <1>1 DEF Inv, Numbers
<1>3. \A t \in Subs : t \in adders <=> Requested(t) /\ t \notin cut
  BY DEF Inv, AddInv, Requested
<1>4. adders \subseteq Subs
  BY DEF Inv, AddInv, Numbers
<1>5. adders \subseteq Contract!In("requested")
  BY <1>3, <1>4, LifeIs DEF Contract!In
<1>6. ASSUME NEW t \in Subs
      PROVE  Life(t)' = IF t \in Contract!In("active") \cup adders THEN "cut" ELSE Life(t)
  <2>1. t \in Contract!In("active") <=> Active(t)
    BY LifeIs DEF Contract!In
  <2>2. t \in cut' <=> t \in cut \/ Active(t) \/ t \in adders
    BY <1>1 DEF Active
  <2>3. ~Active(t)' /\ (Requested(t)' <=> Requested(t))
    BY <1>1, <1>2 DEF Active, Requested
  <2>4. CASE Active(t) \/ t \in adders
    <3>1. ~(t > issued)
      BY <1>3, <2>4, LifeIs
    <3>2. QED
      BY <1>1, <2>1, <2>2, <2>4, <3>1 DEF Life
  <2>5. CASE ~(Active(t) \/ t \in adders)
    <3>1. Life(t)' = Life(t)
      BY <1>1, <2>2, <2>3, <2>5, LifeKept
    <3>2. QED
      BY <2>1, <2>5, <3>1
  <2>6. QED
    BY <2>4, <2>5
<1>7. Contract!Cut(adders)
  BY <1>1, <1>6 DEF Contract!Cut
<1>8. QED
  BY <1>5, <1>7 DEF Contract!Next

LEMMA QuietRefines ==
    ASSUME NEW c \in Clients, Inv,
           StartService(c) \/ GetWriter(c) \/ StopWriters(c)
           \/ \E s \in Subs : LookupListener(c, s)
    PROVE  UNCHANGED Contract!vars
<1>1. UNCHANGED <<listener, registered, issued, cut, calling>>
  BY DEF StartService, GetWriter, StopWriters, LookupListener
<1>2. \A t \in Subs : Requested(t)' <=> Requested(t)
  <2>1. ASSUME NEW s \in Subs, LookupListener(c, s)
        PROVE  \A d \in Clients : pc'[d] = "add" /\ sub'[d] = sub[d] <=> pc[d] = "add"
    <3>1. CASE UNCHANGED <<pc, sub>>
      BY <3>1
    <3>2. CASE pc[c] = "idle" /\ pc' = [pc EXCEPT ![c] = "remove"]
               /\ sub' = [sub EXCEPT ![c] = s]
      BY <3>2 DEF Inv, Numbers
    <3>3. QED
      BY <2>1, <3>1, <3>2 DEF LookupListener, At, WorkOn
  <2>2. ASSUME StartService(c) \/ GetWriter(c) \/ StopWriters(c)
        PROVE  sub' = sub /\ \A d \in Clients : pc'[d] = "add" <=> pc[d] = "add"
    BY <2>2 DEF StartService, GetWriter, StopWriters, At, Inv, Numbers
  <2>3. CASE \E s \in Subs : LookupListener(c, s)
    <3>1. \A d \in Clients : pc'[d] = "add" <=> pc[d] = "add"
      BY <2>3 DEF LookupListener, At, Inv, Numbers
    <3>2. QED
      BY <2>1, <2>3, <3>1 DEF Requested
  <2>4. QED
    BY <2>2, <2>3 DEF Requested
<1>3. \A t \in Subs : Active(t)' <=> Active(t)
  BY <1>1 DEF Active
<1>4. QED
  BY <1>1, <1>2, <1>3, LifeKept, ContractStutters

LEMMA ReaderRefines ==
    ASSUME NEW l \in Listeners, Inv,
           Take(l) \/ NextSample(l) \/ \E s \in Subs : CallCallback(l, s)
    PROVE  Contract!Next \/ UNCHANGED Contract!vars
<1>1. UNCHANGED <<listener, registered, issued, cut, pc, sub>>
  BY DEF Take, NextSample, CallCallback
<1>2. \A t \in Subs : Life(t)' = Life(t)
  BY <1>1, LifeKept DEF Active, Requested
<1>3. UNCHANGED Lives
  BY <1>2 DEF Lives
<1>4. CASE Take(l)
  BY <1>2, <1>4, ContractStutters DEF Take
<1>5. CASE NextSample(l)
  <2>1. calling[l] = {} /\ calling' = [calling EXCEPT ![l] = registered[l]]
    BY <1>5 DEF NextSample
  <2>2. registered[l] \subseteq Subs
    BY DEF Inv, Numbers
  <2>3. CASE l = listener
    <3>1. registered[l] = Contract!In("active")
      BY <2>2, <2>3, LifeIs DEF Contract!In, Active
    <3>2. QED
      BY <1>3, <2>1, <3>1 DEF Contract!Next, Contract!Dispatch, Lives
  <2>4. CASE l # listener
    <3>1. registered[l] \subseteq Contract!In("cut")
      BY <2>2, <2>4, LifeIs DEF Contract!In, Inv, TableInv
    <3>2. QED
      BY <1>3, <2>1, <3>1 DEF Contract!Next, Contract!Dispatch, Lives
  <2>5. QED
    BY <2>3, <2>4
<1>6. ASSUME NEW s \in Subs, CallCallback(l, s)
      PROVE  Contract!Next
  <2>1. Contract!Call(l, s)
    BY <1>3, <1>6 DEF CallCallback, Contract!Call, Lives
  <2>2. QED
    BY <2>1 DEF Contract!Next
<1>7. QED
  BY <1>4, <1>5, <1>6

(* DDS implements the contract of a pubsub: subscribe, the unsubscribe       *)
(* function, stop and on_data_available of ddspubsub.py change the           *)
(* subscriptions served and those called as PubSubContract allows.           *)
THEOREM DdsImplementsContract == Spec => ImplementsContract
<1>1. Init => Contract!Init
  BY DEF Init, Contract!Init, Life
<1>2. ASSUME Inv, Inv', [Next]_vars
      PROVE  [Contract!Next]_(Contract!vars)
  <2>1. ASSUME NEW c \in Clients, ClientStep(c)
        PROVE  Contract!Next \/ UNCHANGED Contract!vars
    BY <1>2, <2>1, GetListenerRefines, AddCallbackRefines, RemoveCallbackRefines,
       StopReadersRefines, QuietRefines DEF ClientStep
  <2>2. CASE UNCHANGED vars
    <3>1. UNCHANGED <<listener, registered, issued, cut, pc, sub, calling>>
      BY <2>2 DEF vars
    <3>2. QED
      BY <3>1, LifeKept, ContractStutters DEF Active, Requested
  <2>3. QED
    BY <1>2, <2>1, <2>2, ReaderRefines DEF Next
<1>3. QED
  BY <1>1, <1>2, DdsInvariant, PTL DEF Spec, ImplementsContract, Contract!Spec

=============================================================================

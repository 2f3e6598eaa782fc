----------------------------- MODULE Conversion -----------------------------
(***************************************************************************)
(* Conversion between dimos messages and ROS messages                      *)
(* (rospubsub_conversion.py), as DimosROS applies it: to a message that is *)
(* published, to the ROS message that arrives, and back.  The copy is by   *)
(* field, recursive, and driven by the run-time form of each value.        *)
(*                                                                         *)
(* The message classes are external.  A leaf (Time) and an element of      *)
(* arrays (Point), which have numbers only, stand in the messages that are *)
(* converted, directly or, as a complex type, through LCM bytes: one with  *)
(* bytes and arrays of any length (Scan), one with arrays of a fixed       *)
(* length (Grid), and one with a field that ROS declares as something else *)
(* than dimos (Odd).  A float is Width bytes long.                         *)
(***************************************************************************)
EXTENDS Naturals, Sequences, SequencesExt

CONSTANTS MaxItems,  \* bound: length of an array; length of a fixed one
          Width      \* bytes of a float in an array; a byte is 0 or 1

ASSUME ConversionAssumption == MaxItems \in Nat /\ Width \in Nat \ {0, 1}

(* Forms of values: a number or string, bytes, an array object that has     *)
(* tobytes (array.array, numpy), a list, and a message.                     *)
Num(n)         == [form |-> "num", value |-> n]
Bytes(s)       == [form |-> "bytes", items |-> s]
Array(of, s)   == [form |-> "array", of |-> of, items |-> s]
List(s)        == [form |-> "list", items |-> s]
Msg(t, f, len) == [form |-> "msg", type |-> t, fields |-> f, lengths |-> len]

Nums(s) == [i \in DOMAIN s |-> Num(s[i])]

(* Forms whose length a length field is given. *)
Sized == {"bytes", "list"}

(* The fields of each class: a kind, and the class of its messages.         *)
K(kind)      == [kind |-> kind, type |-> "none"]
Kt(kind, of) == [kind |-> kind, type |-> of]

RosTime  == [sec |-> K("num"), nanosec |-> K("num")]
LcmTime  == [sec |-> K("num"), nsec |-> K("num")]
Point    == [x |-> K("num")]
RosScan  == [stamp |-> Kt("msg", "Time"), data |-> K("bytes"), labels |-> K("names"),
             points |-> Kt("msgs", "Point"), ranges |-> K("floats"), step |-> K("num")]
LcmScan  == [stamp |-> Kt("msg", "Time"), data |-> K("bytes"), labels |-> K("names"),
             points |-> Kt("msgs", "Point"), ranges |-> K("floats"), flags |-> K("num")]

Grid     == [cells |-> K("fixedFloats"), corners |-> Kt("fixedMsgs", "Point")]
RosOdd   == [trail |-> K("num")]
LcmOdd   == [trail |-> Kt("msgs", "Point")]

RosFields == [Time |-> RosTime, Point |-> Point, Scan |-> RosScan, Grid |-> Grid, Odd |-> RosOdd]
LcmFields == [Time |-> LcmTime, Point |-> Point, Scan |-> LcmScan, Grid |-> Grid, Odd |-> LcmOdd]

Counted(t) ==
    CASE t = "Scan" -> {"data", "points", "ranges"} [] t = "Odd" -> {"trail"} [] OTHER -> {}

Fixed == {"fixedFloats", "fixedMsgs"}
Items(x) == [i \in 1 .. MaxItems |-> x]

(* Messages as their classes make them.  A ROS class keeps bytes and        *)
(* numbers in array objects, an LCM class in bytes and lists.               *)
RECURSIVE NewRos(_), NewLcm(_)
NewRos(t) ==
    Msg(t, [f \in DOMAIN RosFields[t] |->
              LET k == RosFields[t][f] IN
              CASE k.kind = "num"    -> Num(0)
                [] k.kind = "bytes"  -> Array("byte", <<>>)
                [] k.kind = "floats" -> Array("float", <<>>)
                [] k.kind = "msg"    -> NewRos(k.type)
                [] k.kind = "fixedFloats" -> Array("float", Items(0))
                [] k.kind = "fixedMsgs"   -> List(Items(NewRos(k.type)))
                [] OTHER             -> List(<<>>)],
        [f \in {} |-> 0])
NewLcm(t) ==
    Msg(t, [f \in DOMAIN LcmFields[t] |->
              LET k == LcmFields[t][f] IN
              CASE k.kind = "num"   -> Num(0)
                [] k.kind = "bytes" -> Bytes(<<>>)
                [] k.kind = "msg"   -> NewLcm(k.type)
                [] k.kind = "fixedFloats" -> List(Items(Num(0)))
                [] k.kind = "fixedMsgs"   -> List(Items(NewLcm(k.type)))
                [] OTHER            -> List(<<>>)],
        [f \in Counted(t) |-> 0])

(* What a setter of a ROS class makes of a list of numbers, and the values  *)
(* it takes; it raises on any other.                                        *)
Coerced(k, v) ==
    IF k.kind \in {"floats", "fixedFloats"} /\ v.form = "list"
    THEN Array("float", [i \in DOMAIN v.items |-> v.items[i].value]) ELSE v

Takes(k, v) ==
    /\ k.kind = "num" <=> v.form = "num"
    /\ k.kind \in Fixed => Len(v.items) = MaxItems

-----------------------------------------------------------------------------
(* _iter_mapped_fields: names differ in nanosec, and a field the LCM side   *)
(* lacks is skipped.                                                        *)

(* Mutant: the names are taken to be the same. *)
LcmNameSame(f) == f

LcmName(f) == IF f = "nanosec" THEN "nsec" ELSE f

Mapped(ros, lcm) == {f \in DOMAIN ros.fields : LcmName(f) \in DOMAIN lcm.fields}

(* The ROS field an LCM field is copied from or to.                         *)
RosNames(ros, lcm, g) == {f \in Mapped(ros, lcm) : LcmName(f) = g}

(* tobytes of an array object: a float gives its Width bytes.               *)
RECURSIVE ByteOf(_, _)
ByteOf(n, i) == IF i = 1 THEN n % 2 ELSE ByteOf(n \div 2, i - 1)

ToBytes(v) ==
    IF v.of = "byte" THEN v.items
    ELSE [i \in 1 .. Width * Len(v.items) |->
             ByteOf(v.items[((i - 1) \div Width) + 1], ((i - 1) % Width) + 1)]

IsMsgs(v) == v.form = "list" /\ v.items # <<>> /\ v.items[1].form = "msg"

-----------------------------------------------------------------------------
(* The copies.  installed names the modules that can be imported; an array  *)
(* element is made by its module, and nothing is imported for an empty one. *)

RECURSIVE ToLcm(_, _), CopyRosToLcm(_, _)

(* Mutant: the counts are left as they were. *)
LengthsKept(lcm, fields) == lcm.lengths

(* The length field of each field that has one and was copied. *)
Lengths(lcm, fields) ==
    [g \in DOMAIN lcm.lengths |->
        IF fields[g].form \in Sized THEN Len(fields[g].items) ELSE lcm.lengths[g]]

ToLcm(v, old) ==
    CASE v.form = "msg"   -> CopyRosToLcm(v, old)
      [] IsMsgs(v)        -> List([i \in DOMAIN v.items |->
                                     CopyRosToLcm(v.items[i], NewLcm(v.items[i].type))])
      [] v.form = "array" -> Bytes(ToBytes(v))
      [] OTHER            -> v

CopyRosToLcm(ros, lcm) ==
    LET fields == [g \in DOMAIN lcm.fields |->
                      IF RosNames(ros, lcm, g) = {} THEN lcm.fields[g]
                      ELSE ToLcm(ros.fields[CHOOSE f \in RosNames(ros, lcm, g) : TRUE],
                                 lcm.fields[g])]
    IN  Msg(lcm.type, fields, Lengths(lcm, fields))

RECURSIVE ToRos(_, _, _), CopyLcmToRos(_, _)

BytesToRos(v, old) == IF old.form = "array" THEN Array("byte", v.items) ELSE v

ToRos(v, old, k) ==
    CASE old.form = "msg" -> CopyLcmToRos(v, old)
      [] IsMsgs(v)        -> List([i \in DOMAIN v.items |->
                                     CopyLcmToRos(v.items[i], NewRos(k.type))])
      [] v.form = "bytes" -> BytesToRos(v, old)
      [] OTHER            -> Coerced(k, v)

CopyLcmToRos(lcm, ros) ==
    Msg(ros.type,
        [f \in DOMAIN ros.fields |->
            IF f \in Mapped(ros, lcm)
            THEN ToRos(lcm.fields[LcmName(f)], ros.fields[f], RosFields[ros.type][f])
            ELSE ros.fields[f]],
        ros.lengths)

(* Messages lcm_encode and lcm_decode carry: as many items as the count     *)
(* says, and numbers where the class has numbers, be they bytes or not.     *)
(* lcm_encode raises on an array of fixed length that has another.          *)
EncodeFails(m) ==
    \E g \in DOMAIN m.fields :
        LcmFields[m.type][g].kind \in Fixed /\ Len(m.fields[g].items) # MaxItems

RECURSIVE Wire(_)
Wire(m) ==
    LET kind(g)  == LcmFields[m.type][g].kind
        kept(g)  == IF g \in DOMAIN m.lengths
                    THEN SubSeq(m.fields[g].items, 1, m.lengths[g])
                    ELSE m.fields[g].items
    IN  [m EXCEPT !.fields =
            [g \in DOMAIN m.fields |->
                CASE kind(g) = "num"     -> m.fields[g]
                  [] kind(g) = "msg"    -> Wire(m.fields[g])
                  [] kind(g) \in {"msgs", "fixedMsgs"}
                                         -> List([i \in DOMAIN kept(g) |-> Wire(kept(g)[i])])
                  [] kind(g) = "bytes"  -> Bytes(kept(g))
                  [] kind(g) = "floats" /\ m.fields[g].form = "bytes"
                                         -> List(Nums(kept(g)))
                  [] OTHER               -> List(kept(g))]]

-----------------------------------------------------------------------------
(* "own" is the class of the message that is converted.                     *)
Modules == {"lcm.own", "lcm.Point", "ros.own", "ros.Point", "dimos.own"}

VARIABLES
    complex,     \* the message's class is in COMPLEX_TYPES
    named,       \* its msg_name has the form package.MessageName
    installed,   \* modules that can be imported
    dimosCache,  \* _dimos_type_cache: unknown, found, none
    lcmCached,   \* _lcm_type_cache holds the class
    stage,       \* made, typed, sent, received, or the conversion that raised
    original,    \* the dimos message published
    ros,         \* the ROS message sent
    received     \* the dimos message a subscriber is given

messageVars == <<original, ros, received>>
vars == <<complex, named, installed, dimosCache, lcmCached, stage, messageVars>>

(* Dimos messages: arrays up to MaxItems, counted; the user who makes one   *)
(* may give an array of fixed length another.                               *)
Seqs(S)  == SeqOf(S, MaxItems)
Stamp(a, b) == Msg("Time", [sec |-> Num(a), nsec |-> Num(b)], [f \in {} |-> 0])
Points(s)   == List([i \in DOMAIN s |-> Msg("Point", [x |-> Num(s[i])], [f \in {} |-> 0])])
SomePoints  == {<<>>, <<1>>, <<0, 1>>}

Originals ==
    {Msg("Scan", [stamp |-> Stamp(a, 1 - a), data |-> Bytes(d), labels |-> List(Nums(l)),
                  points |-> Points(p), ranges |-> List(Nums(r)), flags |-> Num(a)],
         [data |-> Len(d), points |-> Len(p), ranges |-> Len(r)]) :
        a \in 0 .. 1, d \in Seqs({1}), l \in {<<>>, <<1>>}, p \in SomePoints, r \in Seqs({0, 3})}
    \cup {Msg("Grid", [cells |-> List(Nums(r)), corners |-> Points(p)], [f \in {} |-> 0]) :
        r \in Seqs({0, 3}), p \in SomePoints}
    \cup {Msg("Odd", [trail |-> Points(p)], [trail |-> Len(p)]) : p \in SomePoints}

Init ==
    /\ complex \in BOOLEAN /\ named \in BOOLEAN
    /\ complex => named
    /\ installed \in SUBSET Modules
    /\ dimosCache = "unknown"
    /\ lcmCached = FALSE
    /\ stage = "made"
    /\ original \in Originals
    /\ ros = NewRos(original.type)
    /\ received = NewLcm(original.type)

(* A module is installed while the program runs. *)
Install ==
    /\ \E m \in Modules : installed' = installed \cup {m}
    /\ UNCHANGED <<complex, named, dimosCache, lcmCached, stage, messageVars>>

(* get_dimos_type: a failed import is remembered as well as a successful one. *)
GetDimosType ==
    /\ dimosCache' = IF dimosCache # "unknown" THEN dimosCache
                     ELSE IF named /\ "dimos.own" \in installed THEN "found" ELSE "none"
    /\ UNCHANGED <<complex, named, installed, lcmCached, stage, messageVars>>

(* derive_lcm_type: only a class that was imported is remembered.           *)
LcmKnown == lcmCached \/ "lcm.own" \in installed

(* derive_ros_type, with which DimosROS begins; nothing is remembered.      *)
DeriveRosType ==
    /\ stage = "made"
    /\ stage' = IF named /\ "ros.own" \in installed THEN "typed" ELSE "sendFailed"
    /\ UNCHANGED <<complex, named, installed, dimosCache, lcmCached, messageVars>>

(* An element class that is missing, or that a ROS field of another kind    *)
(* does not name, and a setter that refuses.                                *)
SendFails(lcm) ==
    \E f \in Mapped(ros, lcm) :
        LET k == RosFields[ros.type][f]
            v == lcm.fields[LcmName(f)]
        IN  \/ IsMsgs(v) /\ (k.type = "none" \/ "ros.Point" \notin installed)
            \/ k.kind # "msg" /\ ~Takes(k, v)

(* dimos_to_ros. *)
DimosToRos ==
    /\ stage = "typed"
    /\ lcmCached' = (lcmCached \/ (complex /\ LcmKnown))
    /\ IF complex /\ (~LcmKnown \/ EncodeFails(original))
       THEN stage' = "sendFailed" /\ UNCHANGED ros
       ELSE LET lcm == IF complex THEN Wire(original) ELSE original
            IN  IF SendFails(lcm)
                THEN stage' = "sendFailed" /\ UNCHANGED ros
                ELSE stage' = "sent" /\ ros' = CopyLcmToRos(lcm, ros)
    /\ UNCHANGED <<complex, named, installed, dimosCache, original, received>>

(* An element class is imported unless the LCM array has elements already.  *)
(* The test that a message is one of ROS cannot fail for one that arrives.  *)
ReceiveFails ==
    /\ "lcm.Point" \notin installed
    /\ \E f \in Mapped(ros, received) :
           IsMsgs(ros.fields[f]) /\ received.fields[LcmName(f)].items = <<>>

(* ros_to_dimos. *)
RosToDimos ==
    /\ stage = "sent"
    /\ lcmCached' = (lcmCached \/ (complex /\ LcmKnown))
    /\ LET lcm == CopyRosToLcm(ros, received) IN
       IF ReceiveFails \/ (complex /\ (~LcmKnown \/ EncodeFails(lcm)))
       THEN stage' = "receiveFailed" /\ UNCHANGED received
       ELSE /\ stage' = "received"
            /\ received' = IF complex THEN Wire(lcm) ELSE lcm
    /\ UNCHANGED <<complex, named, installed, dimosCache, original, ros>>

Next == Install \/ GetDimosType \/ DeriveRosType \/ DimosToRos \/ RosToDimos

Spec == Init /\ [][Next]_vars

-----------------------------------------------------------------------------
TypeOK ==
    /\ {complex, named, lcmCached} \subseteq BOOLEAN
    /\ installed \subseteq Modules
    /\ dimosCache \in {"unknown", "found", "none"}
    /\ stage \in {"made", "typed", "sent", "received", "sendFailed", "receiveFailed"}
    /\ DOMAIN ros.fields = DOMAIN RosFields[original.type]
    /\ DOMAIN received.fields = DOMAIN LcmFields[original.type]
    /\ \A f \in DOMAIN ros.fields : Takes(RosFields[ros.type][f], ros.fields[f])

Kept == DOMAIN received.fields \ {"flags"}

(* A message that went to ROS and came back is as it was in every field     *)
(* that ROS has, nested messages and arrays of messages of any or a fixed   *)
(* length included; only an array of floats comes back as its bytes, Width  *)
(* items for each.                                                          *)
RoundTrip ==
    stage = "received" =>
        \A g \in Kept :
            IF g \in {"ranges", "cells"}
            THEN Len(received.fields[g].items) = Width * Len(original.fields[g].items)
            ELSE received.fields[g] = original.fields[g]

(* The counts of a message that is given to LCM are those of its arrays, so *)
(* lcm_encode neither drops items nor runs past the end, even for the bytes *)
(* of a float array.                                                        *)
CountsTrue ==
    stage = "received" =>
        \A g \in DOMAIN received.lengths :
            received.lengths[g] = Len(received.fields[g].items)

=============================================================================

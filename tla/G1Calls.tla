------------------------------- MODULE G1Calls ------------------------------
(***************************************************************************)
(* What the methods of G1HighLevelDdsSdk (dds_sdk.py) have in common: any   *)
(* threads of the program call them, and no lock keeps two of them apart.   *)
(***************************************************************************)
CONSTANT Callers   \* threads that call the methods

VARIABLE pc        \* next statement of each caller

Goto(c, from, to) ==
    /\ pc[c] = from
    /\ pc' = [pc EXCEPT ![c] = to]
=============================================================================

------------------------------ MODULE MCJudge -------------------------------
(***************************************************************************)
(* Requests sharing one or two cache keys, one of them out of scope.        *)
(***************************************************************************)
EXTENDS Judge

CONSTANTS r1, r2, r3, r4, k1, k2

FourReqs  == {r1, r2, r3, r4}
Keys      == {k1, k2}

MCKeyOf   == [r \in Req |-> IF r \in {r1, r2} THEN k1 ELSE k2]
SomeInScope == [r \in Req |-> r # r3]
=============================================================================

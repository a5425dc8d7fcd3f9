----------------------------- MODULE ByteStream -----------------------------
(***************************************************************************)
(* What a tunnel promises its client: the bytes written into it come out at *)
(* the other end once each and in order.  A lossy stream may drop a prefix   *)
(* of what was written, before anything has come out.                        *)
(***************************************************************************)
EXTENDS Integers, Sequences

CONSTANT Payload   \* the bytes a client writes, in order

VARIABLES written,  \* how many of them it has written
          got,      \* what has come out at the other end
          lost,     \* what was dropped on the way
          lossy     \* whether this stream may drop a prefix

vars == <<written, got, lost, lossy>>

Init ==
    /\ written = 0
    /\ got = << >>
    /\ lost = << >>
    /\ lossy \in BOOLEAN

Write ==
    /\ written < Len(Payload)
    /\ written' = written + 1
    /\ UNCHANGED <<got, lost, lossy>>

Arrived == Len(lost) + Len(got)

Read ==
    \E k \in 1..(written - Arrived) :
        /\ got' = got \o SubSeq(Payload, Arrived + 1, Arrived + k)
        /\ UNCHANGED <<written, lost, lossy>>

Lose ==
    /\ lossy /\ got = << >> /\ lost = << >>
    /\ \E k \in 1..written : lost' = SubSeq(Payload, 1, k)
    /\ UNCHANGED <<written, got, lossy>>

Next == Write \/ Read \/ Lose

Spec == Init /\ [][Next]_vars
=============================================================================

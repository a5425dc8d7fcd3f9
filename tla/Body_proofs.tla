----------------------------- MODULE Body_proofs ------------------------------
(***************************************************************************)
(* Proofs about the bodies of an exchange: for any profiles whose transforms *)
(* are in the order build_runtime puts them, any bodies, answers and turns,  *)
(* any frame sizes and any caps.                                             *)
(*                                                                           *)
(* First what the operators do, by recursion over sequences: cutting a text  *)
(* into lines and events, the router's session, the filter, the encodings,   *)
(* the limiters and the requirements.  Then the invariant of an exchange,    *)
(* BInv, which says where the body is in each phase, and on it what a        *)
(* decision let go (Judged), what a limit leaves (LimitedIsBounded), and     *)
(* where in its stream the part is that is held back (Streams).              *)
(***************************************************************************)
EXTENDS Body, FiniteSetTheorems, SequenceTheorems, TLAPS

-----------------------------------------------------------------------------
(***************************************************************************)
(* Recursion over the places of a sequence.                                *)
(***************************************************************************)

\* What holds at first and is kept by one more holds up to any number.
LEMMA UpTo ==
    ASSUME NEW N \in Nat, NEW S, 0 \in S, \A k \in 0..(N - 1) : k \in S => k + 1 \in S
    PROVE  \A k \in 0..N : k \in S
  <1> DEFINE R == OpToRel(<, Nat)
             B == {k \in 0..N : k \notin S}
  <1>1. \A x, y \in Nat : x < y => <<x, y>> \in R
    BY DEF OpToRel
  <1>2. IsWellFoundedOn(R, Nat)
    BY NatLessThanWellFounded
  <1> HIDE DEF R
  <1>3. SUFFICES ASSUME B # {} PROVE FALSE
    OBVIOUS
  <1>4. B \in SUBSET Nat
    OBVIOUS
  <1>5. PICK x \in B : \A y \in B : ~(<<y, x>> \in R)
    BY <1>2, <1>3, <1>4, WFMin
  <1>6. x \in Nat /\ x \in 0..N /\ x \notin S
    BY <1>5
  <1>7. x # 0
    BY <1>6
  <1>8. x - 1 \in 0..(N - 1) /\ x - 1 \in 0..N /\ x - 1 \in Nat /\ x - 1 < x /\ (x - 1) + 1 = x
    BY <1>6, <1>7
  <1>9. x - 1 \notin S
    BY <1>6, <1>8
  <1>10. x - 1 \in B
    BY <1>8, <1>9
  <1> QED
    BY <1>1, <1>5, <1>6, <1>8, <1>10

\* f is worked out from b, step by step.
StepsOf(N, V) == [1..N -> [V -> V]]
Stepwise(f, N, b, F) == f[0] = b /\ \A n \in 1..N : f[n] = F[n][f[n - 1]]

\* A value that is worked out step by step exists.
LEMMA Recursion ==
    ASSUME NEW N \in Nat, NEW V, NEW b \in V, NEW F \in StepsOf(N, V)
    PROVE  \E f \in [0..N -> V] : Stepwise(f, N, b, F)
  <1> DEFINE Good(k, f) == f[0] = b /\ \A n \in 1..k : f[n] = F[n][f[n - 1]]
             T == {k \in 0..N : \E f \in [0..k -> V] : Good(k, f)}
  <1>1. 0 \in T
    <2> DEFINE f == [k \in 0..0 |-> b]
    <2>1. f \in [0..0 -> V] /\ f[0] = b /\ 1..0 = {} /\ 0 \in 0..N
      OBVIOUS
    <2> QED
      BY <2>1
  <1>2. ASSUME NEW k \in 0..(N - 1), k \in T PROVE k + 1 \in T
    <2>1. PICK f \in [0..k -> V] : Good(k, f)
      BY <1>2
    <2> DEFINE g == [n \in 0..(k + 1) |-> IF n = k + 1 THEN F[k + 1][f[k]] ELSE f[n]]
    <2>2. k \in Nat /\ k + 1 \in 1..N /\ k + 1 \in 0..N /\ k \in 0..k /\ k + 1 # 0
      OBVIOUS
    <2>3. f[k] \in V /\ F[k + 1][f[k]] \in V
      BY <2>2 DEF StepsOf
    <2>4. ASSUME NEW n \in 0..(k + 1) PROVE g[n] \in V
      <3>1. CASE n = k + 1
        BY <2>3, <3>1
      <3>2. CASE n # k + 1
        <4>1. n \in 0..k
          BY <3>2
        <4> QED
          BY <3>2, <4>1
      <3> QED
        BY <3>1, <3>2
    <2>5. g \in [0..(k + 1) -> V]
      BY <2>4
    <2>6. g[0] = b
      BY <2>1, <2>2
    <2>7. ASSUME NEW n \in 1..(k + 1) PROVE g[n] = F[n][g[n - 1]]
      <3>1. CASE n = k + 1
        <4>1. n \in 0..(k + 1) /\ n - 1 = k /\ k \in 0..(k + 1) /\ k # k + 1
          BY <2>2, <3>1
        <4>2. g[n] = F[k + 1][f[k]] /\ g[n - 1] = f[k]
          BY <3>1, <4>1
        <4> QED
          BY <3>1, <4>2
      <3>2. CASE n # k + 1
        <4>1. n \in 1..k /\ n \in 0..(k + 1) /\ n - 1 \in 0..(k + 1) /\ n - 1 # k + 1
          BY <2>2, <3>2
        <4>2. g[n] = f[n] /\ g[n - 1] = f[n - 1]
          BY <3>2, <4>1
        <4> QED
          BY <2>1, <4>1, <4>2
      <3> QED
        BY <3>1, <3>2
    <2> HIDE DEF g
    <2> QED
      BY <2>2, <2>5, <2>6, <2>7
  <1> HIDE DEF T
  <1>3. N \in T
    <2>1. \A k \in 0..N : k \in T
      BY <1>1, <1>2, UpTo
    <2> QED
      BY <2>1
  <1>4. \E f \in [0..N -> V] : Good(N, f)
    BY <1>3 DEF T
  <1> QED
    BY <1>4 DEF Stepwise

-----------------------------------------------------------------------------

\* f takes the places of s that are in I one after the other.
Takes(f, s, I) ==
    /\ f[0] = << >>
    /\ \A n \in 1..Len(s) : f[n] = IF n \in I THEN Append(f[n - 1], s[n]) ELSE f[n - 1]

\* The places of s are gone through one after the other.
LEMMA AtSteps ==
    ASSUME NEW S, NEW s \in Seq(S), NEW I
    PROVE  \E f \in [0..Len(s) -> Seq(S)] : Takes(f, s, I) /\ At(s, I) = f[Len(s)]
  <1> DEFINE N == Len(s)
             V == Seq(S)
             G(n, t) == IF n \in I THEN Append(t, s[n]) ELSE t
             F == [n \in 1..N |-> [t \in V |-> G(n, t)]]
             nil == << >>
             Rec(f) == f = [n \in 0..N |-> IF n = 0 THEN << >> ELSE G(n, f[n - 1])]
             upto == CHOOSE f : Rec(f)
  <1>1. N \in Nat
    OBVIOUS
  <1>2. nil \in V
    OBVIOUS
  <1>3. \A n \in 1..N, t \in V : G(n, t) \in V
    <2> SUFFICES ASSUME NEW n \in 1..N, NEW t \in V PROVE G(n, t) \in V
      OBVIOUS
    <2>1. s[n] \in S
      OBVIOUS
    <2> QED
      BY <2>1
  <1>6. At(s, I) = upto[N]
    BY DEF At
  <1> HIDE DEF N, G, V, nil
  <1>4. F \in StepsOf(N, V)
    BY <1>3 DEF StepsOf
  <1>5. \A n \in 1..N, t \in V : F[n][t] = G(n, t)
    OBVIOUS
  <1> HIDE DEF F
  <1>7a. PICK f \in [0..N -> V] : Stepwise(f, N, nil, F)
    BY <1>1, <1>2, <1>4, Recursion
  <1>7. f \in [0..N -> Seq(S)] /\ f[0] = << >> /\ \A n \in 1..N : f[n] = F[n][f[n - 1]]
    BY <1>7a DEF V, nil, Stepwise
  <1>8. \A n \in 1..N : f[n] = G(n, f[n - 1])
    <2> SUFFICES ASSUME NEW n \in 1..N PROVE f[n] = G(n, f[n - 1])
      OBVIOUS
    <2>1. n - 1 \in 0..N
      BY <1>1
    <2>2. f[n - 1] \in V
      BY <2>1
    <2> QED
      BY <1>5, <1>7, <2>2
  <1>9. Rec(f)
    <2>1. \A n \in 0..N : f[n] = IF n = 0 THEN << >> ELSE G(n, f[n - 1])
      <3> SUFFICES ASSUME NEW n \in 0..N PROVE f[n] = IF n = 0 THEN << >> ELSE G(n, f[n - 1])
        OBVIOUS
      <3>1. CASE n = 0
        BY <1>7, <3>1
      <3>2. CASE n # 0
        <4>1. n \in 1..N
          BY <1>1, <3>2
        <4> QED
          BY <1>8, <3>2, <4>1
      <3> QED
        BY <3>1, <3>2
    <2> QED
      BY <2>1
  <1>10. Rec(upto)
    BY <1>9
  <1> HIDE DEF upto
  <1>11. upto[0] = << >>
    BY <1>1, <1>10
  <1>12. \A n \in 1..N : upto[n] = G(n, upto[n - 1])
    <2> SUFFICES ASSUME NEW n \in 1..N PROVE upto[n] = G(n, upto[n - 1])
      OBVIOUS
    <2>1. n \in 0..N /\ n # 0
      BY <1>1
    <2> QED
      BY <1>10, <2>1
  <1>13. \A n \in 0..N : n \in {k \in 0..N : upto[k] = f[k]}
    <2> DEFINE T == {k \in 0..N : upto[k] = f[k]}
    <2>1. 0 \in T
      BY <1>1, <1>7, <1>11
    <2>2. ASSUME NEW k \in 0..(N - 1), k \in T PROVE k + 1 \in T
      <3>1. k + 1 \in 1..N /\ k + 1 \in 0..N /\ (k + 1) - 1 = k
        BY <1>1
      <3> QED
        BY <1>8, <1>12, <2>2, <3>1
    <2> HIDE DEF T
    <2> QED
      BY <1>1, <2>1, <2>2, UpTo DEF T
  <1>14. N \in 0..N
    BY <1>1
  <1>15. At(s, I) = f[N]
    BY <1>6, <1>13, <1>14
  <1> QED
    BY <1>7, <1>8, <1>15 DEF N, G, Takes

\* What At gives is a sequence, no longer, of what is at the places and only that.
LEMMA AtHas ==
    ASSUME NEW S, NEW s \in Seq(S), NEW I
    PROVE  /\ At(s, I) \in Seq(S) /\ Len(At(s, I)) <= Len(s)
           /\ \A n \in 1..Len(At(s, I)) : \E p \in 1..Len(s) : p \in I /\ At(s, I)[n] = s[p]
           /\ \A p \in 1..Len(s) : p \in I => \E n \in 1..Len(At(s, I)) : At(s, I)[n] = s[p]
  <1> DEFINE N == Len(s)
             A(k, t) == \A n \in 1..Len(t) : \E p \in 1..k : p \in I /\ t[n] = s[p]
             B(k, t) == \A p \in 1..k : p \in I => \E n \in 1..Len(t) : t[n] = s[p]
  <1>0. PICK f \in [0..Len(s) -> Seq(S)] : Takes(f, s, I) /\ At(s, I) = f[Len(s)]
    BY AtSteps
  <1>1. /\ f \in [0..N -> Seq(S)]
        /\ f[0] = << >>
        /\ \A n \in 1..N : f[n] = IF n \in I THEN Append(f[n - 1], s[n]) ELSE f[n - 1]
        /\ At(s, I) = f[N]
    BY <1>0 DEF Takes
  <1> DEFINE T == {k \in 0..N : Len(f[k]) <= k /\ A(k, f[k]) /\ B(k, f[k])}
  <1>2. N \in Nat
    OBVIOUS
  <1> HIDE DEF N
  <1>3. 0 \in T
    BY <1>1, <1>2
  <1>4. ASSUME NEW k \in 0..(N - 1), k \in T PROVE k + 1 \in T
    <2>1. k + 1 \in 1..N /\ k + 1 \in 0..N /\ k \in 0..N /\ (k + 1) - 1 = k /\ k \in Nat
      BY <1>2
    <2>2. f[k] \in Seq(S) /\ Len(f[k]) \in Nat /\ s[k + 1] \in S
      BY <1>1, <2>1 DEF N
    <2>3. CASE k + 1 \in I
      <3>1. f[k + 1] = Append(f[k], s[k + 1])
        BY <1>1, <2>1, <2>3
      <3>2. /\ Len(f[k + 1]) = Len(f[k]) + 1
            /\ \A n \in 1..Len(f[k]) : f[k + 1][n] = f[k][n]
            /\ f[k + 1][Len(f[k]) + 1] = s[k + 1]
        BY <2>2, <3>1, AppendProperties
      <3>3. Len(f[k + 1]) <= k + 1
        BY <1>4, <2>1, <2>2, <3>2
      <3>4. A(k + 1, f[k + 1])
        <4> SUFFICES ASSUME NEW n \in 1..Len(f[k + 1])
                     PROVE  \E p \in 1..(k + 1) : p \in I /\ f[k + 1][n] = s[p]
          OBVIOUS
        <4>1. CASE n = Len(f[k]) + 1
          <5>1. k + 1 \in 1..(k + 1)
            BY <2>1
          <5> QED
            BY <2>3, <3>2, <4>1, <5>1
        <4>2. CASE n # Len(f[k]) + 1
          <5>1. n \in 1..Len(f[k])
            BY <2>2, <3>2, <4>2
          <5>2. PICK p \in 1..k : p \in I /\ f[k][n] = s[p]
            BY <1>4, <5>1
          <5>3. p \in 1..(k + 1)
            BY <2>1
          <5> QED
            BY <3>2, <5>1, <5>2, <5>3
        <4> QED
          BY <4>1, <4>2
      <3>5. B(k + 1, f[k + 1])
        <4> SUFFICES ASSUME NEW p \in 1..(k + 1), p \in I
                     PROVE  \E n \in 1..Len(f[k + 1]) : f[k + 1][n] = s[p]
          OBVIOUS
        <4>1. CASE p = k + 1
          <5>1. Len(f[k]) + 1 \in 1..Len(f[k + 1])
            BY <2>2, <3>2
          <5> QED
            BY <3>2, <4>1, <5>1
        <4>2. CASE p # k + 1
          <5>1. p \in 1..k
            BY <2>1, <4>2
          <5>2. PICK n \in 1..Len(f[k]) : f[k][n] = s[p]
            BY <1>4, <5>1
          <5>3. n \in 1..Len(f[k + 1])
            BY <2>2, <3>2
          <5> QED
            BY <3>2, <5>2, <5>3
        <4> QED
          BY <4>1, <4>2
      <3> QED
        BY <2>1, <3>3, <3>4, <3>5
    <2>4. CASE k + 1 \notin I
      <3>1. f[k + 1] = f[k]
        BY <1>1, <2>1, <2>4
      <3>2. Len(f[k + 1]) <= k + 1
        BY <1>4, <2>1, <2>2, <3>1
      <3>3. A(k + 1, f[k + 1])
        <4>1. \A p \in 1..k : p \in 1..(k + 1)
          BY <2>1
        <4> QED
          BY <1>4, <3>1, <4>1
      <3>4. B(k + 1, f[k + 1])
        <4>1. \A p \in 1..(k + 1) : p \in I => p \in 1..k
          BY <2>1, <2>4
        <4> QED
          BY <1>4, <3>1, <4>1
      <3> QED
        BY <2>1, <3>2, <3>3, <3>4
    <2> QED
      BY <2>3, <2>4
  <1>5. N \in T
    <2> HIDE DEF T
    <2>1. \A k \in 0..N : k \in T
      BY <1>2, <1>3, <1>4, UpTo
    <2> QED
      BY <1>2, <2>1
  <1>6. f[N] \in Seq(S)
    BY <1>1, <1>2
  <1> QED
    BY <1>1, <1>5, <1>6 DEF N

-----------------------------------------------------------------------------
(***************************************************************************)
(* The largest, the smallest, and pieces put together.                     *)
(***************************************************************************)

\* The lesser and the greater of two numbers.
LEMMA TwoNumbers ==
    ASSUME NEW a \in Int, NEW b \in Int
    PROVE  /\ Min({a, b}) = IF a <= b THEN a ELSE b
           /\ Max({a, b}) = IF a <= b THEN b ELSE a
  <1> DEFINE lo == IF a <= b THEN a ELSE b
             hi == IF a <= b THEN b ELSE a
  <1>1. lo \in {a, b} /\ (\A y \in {a, b} : lo =< y) /\ \A x \in {a, b} : (\A y \in {a, b} : x =< y) => x = lo
    OBVIOUS
  <1>2. hi \in {a, b} /\ (\A y \in {a, b} : hi >= y) /\ \A x \in {a, b} : (\A y \in {a, b} : x >= y) => x = hi
    OBVIOUS
  <1> HIDE DEF lo, hi
  <1>3. Min({a, b}) = lo
    BY <1>1 DEF Min
  <1>4. Max({a, b}) = hi
    BY <1>2 DEF Max
  <1> QED
    BY <1>3, <1>4 DEF lo, hi

\* The greatest of finitely many numbers is one of them.
LEMMA MaxOf ==
    ASSUME NEW S \in SUBSET Int, IsFiniteSet(S), S # {}
    PROVE  Max(S) \in S /\ \A y \in S : y <= Max(S)
  <1> DEFINE N == Cardinality(S)
  <1>1. N \in Nat /\ \E f : f \in Bijection(1..N, S)
    BY FS_CardinalityType DEF ExistsBijection
  <1>2. PICK f : f \in Bijection(1..N, S)
    BY <1>1
  <1> HIDE DEF N
  <1>3. f \in [1..N -> S] /\ \A y \in S : \E n \in 1..N : f[n] = y
    BY <1>2 DEF Bijection, Injection, Surjection
  <1>4. N # 0
    <2>1. PICK y \in S : TRUE
      OBVIOUS
    <2>2. PICK n \in 1..N : f[n] = y
      BY <1>3, <2>1
    <2> QED
      BY <1>1, <2>2
  <1> DEFINE T == {k \in 0..N : k = 0 \/ \E i \in 1..k : \A j \in 1..k : f[j] <= f[i]}
  <1>5. 0 \in T
    BY <1>1
  <1>6. ASSUME NEW k \in 0..(N - 1), k \in T PROVE k + 1 \in T
    <2>1. k + 1 \in 1..N /\ k + 1 \in 0..N /\ k \in Nat
      BY <1>1
    <2>2. \A j \in 1..(k + 1) : f[j] \in Int
      <3> SUFFICES ASSUME NEW j \in 1..(k + 1) PROVE f[j] \in Int
        OBVIOUS
      <3>1. j \in 1..N
        BY <1>1, <2>1
      <3>2. f[j] \in S
        BY <1>3, <3>1
      <3> QED
        BY <3>2
    <2>3. CASE k = 0
      BY <2>1, <2>2, <2>3
    <2>4. CASE k # 0
      <3>1. PICK i \in 1..k : \A j \in 1..k : f[j] <= f[i]
        BY <1>6, <2>4
      <3>2. CASE f[k + 1] <= f[i]
        <4>1. \A j \in 1..(k + 1) : f[j] <= f[i]
          BY <2>1, <3>1, <3>2
        <4> QED
          BY <2>1, <4>1
      <3>3. CASE ~(f[k + 1] <= f[i])
        <4>1. f[i] \in Int /\ f[k + 1] \in Int
          BY <2>1, <2>2
        <4>2. ASSUME NEW j \in 1..(k + 1) PROVE f[j] <= f[k + 1]
          <5>1. CASE j = k + 1
            BY <4>1, <5>1
          <5>2. CASE j # k + 1
            <6>1. j \in 1..k
              BY <2>1, <5>2
            <6>2. f[j] <= f[i] /\ f[j] \in Int
              BY <2>2, <3>1, <6>1
            <6> QED
              BY <3>3, <4>1, <6>2
          <5> QED
            BY <5>1, <5>2
        <4> QED
          BY <2>1, <4>2
      <3> QED
        BY <3>2, <3>3
    <2> QED
      BY <2>3, <2>4
  <1>7. N \in T
    <2> HIDE DEF T
    <2>1. \A k \in 0..N : k \in T
      BY <1>1, <1>5, <1>6, UpTo
    <2> QED
      BY <1>1, <2>1
  <1>8. PICK i \in 1..N : \A j \in 1..N : f[j] <= f[i]
    BY <1>4, <1>7
  <1>9. f[i] \in S /\ \A y \in S : f[i] >= y
    <2>1. f[i] \in S
      BY <1>3
    <2>2. ASSUME NEW y \in S PROVE f[i] >= y
      <3>1. PICK n \in 1..N : f[n] = y
        BY <1>3
      <3>2. y <= f[i] /\ y \in Int /\ f[i] \in Int
        BY <1>8, <2>1, <3>1
      <3> QED
        BY <3>2
    <2> QED
      BY <2>1, <2>2
  <1> DEFINE m == Max(S)
  <1>10. m \in S /\ \A y \in S : m >= y
    BY <1>9 DEF Max
  <1> HIDE DEF m
  <1>11. \A y \in S : y <= m
    BY <1>10
  <1> QED
    BY <1>10, <1>11 DEF m

\* The largest of some places.
LEMMA LastPlace ==
    ASSUME NEW n \in Nat, NEW S \in SUBSET (0..n), S # {}
    PROVE  Max(S) \in S /\ Max(S) \in 0..n /\ \A y \in S : y <= Max(S)
  <1>1. IsFiniteSet(0..n)
    <2> DEFINE o == 0
    <2>1. o \in Int /\ n \in Int
      OBVIOUS
    <2> HIDE DEF o
    <2>2. IsFiniteSet(o..n)
      BY <2>1, FS_Interval
    <2> QED
      BY <2>2 DEF o
  <1>2. IsFiniteSet(S)
    BY <1>1, FS_Subset
  <1>3. S \in SUBSET Int
    OBVIOUS
  <1> QED
    BY <1>2, <1>3, MaxOf

\* t is made of what is in the pieces q.
MadeOf(q, t) == \A n \in 1..Len(t) : \E i \in 1..Len(q) : \E j \in 1..Len(q[i]) : t[n] = q[i][j]

\* Pieces put together are made of what is in the pieces.
LEMMA FlattenHas ==
    ASSUME NEW S, NEW q \in Seq(Seq(S))
    PROVE  FlattenSeq(q) \in Seq(S) /\ MadeOf(q, FlattenSeq(q))
  <1> DEFINE N == Len(q)
             V == Seq(S)
             nil == << >>
             F == [n \in 1..N |-> [t \in V |-> t \o q[n]]]
             Rec(f) == f = [i \in 1..N |-> IF i = 1 THEN q[i] ELSE f[i - 1] \o q[i]]
             flatten == CHOOSE f : Rec(f)
             Made(t) == MadeOf(q, t)
  <1>1. N \in Nat /\ \A n \in 1..N : q[n] \in V
    OBVIOUS
  <1>2. nil \in V
    OBVIOUS
  <1>3. CASE N = 0
    <2>1. FlattenSeq(q) = q /\ q = << >>
      BY <1>3 DEF FlattenSeq
    <2> QED
      BY <2>1 DEF MadeOf
  <1>4. CASE N # 0
    <2>1. FlattenSeq(q) = flatten[N]
      BY <1>4 DEF FlattenSeq
    <2>2. F \in StepsOf(N, V)
      <3>1. \A n \in 1..N, t \in V : t \o q[n] \in V
        BY <1>1
      <3> HIDE DEF V, N
      <3> QED
        BY <3>1 DEF StepsOf
    <2>3. \A n \in 1..N, t \in V : F[n][t] = t \o q[n]
      OBVIOUS
    <2> HIDE DEF N, V, nil, F
    <2>4. PICK f \in [0..N -> V] : Stepwise(f, N, nil, F)
      BY <1>1, <1>2, <2>2, Recursion
    <2>5. f[0] = nil /\ \A n \in 1..N : f[n] = F[n][f[n - 1]]
      BY <2>4 DEF Stepwise
    <2>6. \A n \in 1..N : f[n - 1] \in V /\ f[n] = f[n - 1] \o q[n]
      <3> SUFFICES ASSUME NEW n \in 1..N PROVE f[n - 1] \in V /\ f[n] = f[n - 1] \o q[n]
        OBVIOUS
      <3>1. n - 1 \in 0..N
        BY <1>1
      <3>2. f[n - 1] \in V
        BY <3>1
      <3> QED
        BY <2>3, <2>5, <3>2
    <2>7. 1 \in 1..N /\ 0 \in 0..N /\ f[1] = q[1]
      <3>1. 1 \in 1..N /\ 1 - 1 = 0
        BY <1>1, <1>4
      <3>2. f[1] = nil \o q[1] /\ q[1] \in V
        BY <1>1, <2>5, <2>6, <3>1
      <3>3. q[1] \in Seq(S) /\ f[1] = << >> \o q[1]
        BY <3>2 DEF nil, V
      <3>4. << >> \o q[1] = q[1]
        BY <3>3, ConcatEmptySeq
      <3> QED
        BY <1>1, <3>1, <3>3, <3>4
    <2> DEFINE h == [i \in 1..N |-> f[i]]
    <2>8. \A i \in 1..N : h[i] = IF i = 1 THEN q[i] ELSE h[i - 1] \o q[i]
      <3> SUFFICES ASSUME NEW i \in 1..N PROVE h[i] = IF i = 1 THEN q[i] ELSE h[i - 1] \o q[i]
        OBVIOUS
      <3>1. CASE i = 1
        BY <2>7, <3>1
      <3>2. CASE i # 1
        <4>1. i - 1 \in 1..N
          BY <1>1, <3>2
        <4> QED
          BY <2>6, <3>2, <4>1
      <3> QED
        BY <3>1, <3>2
    <2>9. Rec(h)
      <3>1. h = [i \in 1..N |-> h[i]]
        OBVIOUS
      <3> HIDE DEF h
      <3> QED
        BY <2>8, <3>1
    <2>10. Rec(flatten)
      <3> HIDE DEF h
      <3> QED
        BY <2>9
    <2> HIDE DEF flatten
    <2>11. \A i \in 1..N : flatten[i] = IF i = 1 THEN q[i] ELSE flatten[i - 1] \o q[i]
      BY <2>10
    <2> DEFINE T == {k \in 0..N : k = 0 \/ (flatten[k] = f[k] /\ Made(f[k]))}
    <2>12. 0 \in T
      BY <2>7
    <2>13. ASSUME NEW k \in 0..(N - 1), k \in T PROVE k + 1 \in T
      <3>1. k + 1 \in 1..N /\ k + 1 \in 0..N /\ (k + 1) - 1 = k /\ k \in Nat
        BY <1>1
      <3>2. CASE k = 0
        <4>1. flatten[1] = q[1]
          BY <2>7, <2>11
        <4>2. Made(f[1])
          BY <2>7 DEF MadeOf, N
        <4> QED
          BY <2>7, <3>1, <3>2, <4>1, <4>2
      <3>3. CASE k # 0
        <4>0. k = 0 \/ (flatten[k] = f[k] /\ MadeOf(q, f[k]))
          BY <2>13
        <4>1. flatten[k] = f[k] /\ Made(f[k])
          BY <3>3, <4>0
        <4>9. k + 1 # 1
          BY <3>1, <3>3
        <4>2. flatten[k + 1] = flatten[k] \o q[k + 1]
          BY <2>11, <3>1, <4>9
        <4>3. f[k] \in V /\ f[k + 1] = f[k] \o q[k + 1] /\ q[k + 1] \in V
          BY <1>1, <2>6, <3>1
        <4>4. flatten[k + 1] = f[k + 1]
          BY <4>1, <4>2, <4>3
        <4>5. f[k] \in Seq(S) /\ q[k + 1] \in Seq(S)
          BY <4>3 DEF V
        <4>6. /\ Len(f[k + 1]) = Len(f[k]) + Len(q[k + 1])
              /\ \A n \in 1..Len(f[k]) + Len(q[k + 1]) :
                    f[k + 1][n] = IF n <= Len(f[k]) THEN f[k][n] ELSE q[k + 1][n - Len(f[k])]
          <5> DEFINE a == f[k]
                     b == q[k + 1]
                     c == a \o b
          <5>1. a \in Seq(S) /\ b \in Seq(S)
            BY <4>5
          <5>2. /\ Len(c) = Len(a) + Len(b)
                /\ \A n \in 1..Len(a) + Len(b) : c[n] = IF n <= Len(a) THEN a[n] ELSE b[n - Len(a)]
            <6> HIDE DEF a, b
            <6> QED
              BY <5>1, ConcatProperties
          <5>3. f[k + 1] = c
            BY <4>3
          <5> HIDE DEF c
          <5> QED
            BY <5>2, <5>3
        <4>7. Made(f[k + 1])
          <5> SUFFICES ASSUME NEW n \in 1..Len(f[k + 1])
                       PROVE  \E i \in 1..N : \E j \in 1..Len(q[i]) : f[k + 1][n] = q[i][j]
            BY DEF MadeOf, N
          <5> DEFINE a == Len(f[k])
                     b == Len(q[k + 1])
          <5>0. a \in Nat /\ b \in Nat
            BY <4>5
          <5>9. n \in 1..(a + b)
            BY <4>6
          <5>1. CASE n <= Len(f[k])
            <6>1. n \in 1..a
              <7> HIDE DEF a, b
              <7> QED
                BY <5>0, <5>9, <5>1 DEF a
            <6>2. f[k + 1][n] = f[k][n]
              BY <4>6, <5>1, <5>9
            <6> QED
              BY <4>1, <6>1, <6>2 DEF MadeOf, N
          <5>2. CASE ~(n <= Len(f[k]))
            <6>1. n - a \in 1..b
              <7> HIDE DEF a, b
              <7> QED
                BY <5>0, <5>9, <5>2 DEF a
            <6>2. f[k + 1][n] = q[k + 1][n - Len(f[k])]
              BY <4>6, <5>2, <5>9
            <6> QED
              BY <3>1, <6>1, <6>2
          <5> QED
            BY <5>1, <5>2
        <4> QED
          BY <3>1, <4>4, <4>7
      <3> QED
        BY <3>2, <3>3
    <2>14. N \in T
      <3> HIDE DEF T
      <3>1. \A k \in 0..N : k \in T
        BY <1>1, <2>12, <2>13, UpTo
      <3> QED
        BY <1>1, <3>1
    <2>15. flatten[N] = f[N] /\ Made(f[N]) /\ f[N] \in V
      BY <1>1, <1>4, <2>14
    <2>16. FlattenSeq(q) = f[N]
      BY <2>1, <2>15
    <2>17. FlattenSeq(q) \in Seq(S) /\ Made(FlattenSeq(q))
      BY <2>15, <2>16 DEF V
    <2> QED
      BY <2>17
  <1> QED
    BY <1>3, <1>4

-----------------------------------------------------------------------------
(***************************************************************************)
(* Frames.                                                                 *)
(***************************************************************************)

\* A sequence cut in two.
LEMMA Halves ==
    ASSUME NEW S, NEW s \in Seq(S), NEW n \in 0..Len(s)
    PROVE  /\ SubSeq(s, 1, n) \in Seq(S) /\ Len(SubSeq(s, 1, n)) = n
           /\ \A p \in 1..n : SubSeq(s, 1, n)[p] = s[p]
           /\ SubSeq(s, n + 1, Len(s)) \in Seq(S) /\ Len(SubSeq(s, n + 1, Len(s))) = Len(s) - n
           /\ \A p \in 1..(Len(s) - n) : SubSeq(s, n + 1, Len(s))[p] = s[n + p]
           /\ SubSeq(s, 1, n) \o SubSeq(s, n + 1, Len(s)) = s
  <1> DEFINE L == Len(s)
             a == SubSeq(s, 1, n)
             b == SubSeq(s, n + 1, L)
  <1>1. L \in Nat /\ n \in 0..L /\ n \in Nat /\ n + 1 \in Int /\ L \in Int /\ \A i \in 1..L : s[i] \in S
    OBVIOUS
  <1>2. a \in Seq(S) /\ Len(a) = n /\ \A p \in 1..n : a[p] = s[p]
    <2>1. \A i \in 1..n : s[i] \in S
      BY <1>1
    <2>2. SubSeq(s, 1, n) \in Seq(S) /\ Len(SubSeq(s, 1, n)) = (IF 1 <= n THEN n - 1 + 1 ELSE 0)
          /\ \A i \in 1..(n - 1 + 1) : SubSeq(s, 1, n)[i] = s[1 + i - 1]
      BY <1>1, <2>1, SubSeqProperties
    <2>3. n - 1 + 1 = n /\ (IF 1 <= n THEN n - 1 + 1 ELSE 0) = n /\ \A i \in 1..n : 1 + i - 1 = i
      BY <1>1
    <2> HIDE DEF L
    <2> QED
      BY <2>2, <2>3
  <1>3. b \in Seq(S) /\ Len(b) = L - n /\ \A p \in 1..(L - n) : b[p] = s[n + p]
    <2>1. \A i \in (n + 1)..L : s[i] \in S
      BY <1>1
    <2> HIDE DEF L
    <2>2. SubSeq(s, n + 1, L) \in Seq(S) /\ Len(SubSeq(s, n + 1, L)) = (IF n + 1 <= L THEN L - (n + 1) + 1 ELSE 0)
          /\ \A i \in 1..(L - (n + 1) + 1) : SubSeq(s, n + 1, L)[i] = s[n + 1 + i - 1]
      BY <1>1, <2>1, SubSeqProperties
    <2>3. L - (n + 1) + 1 = L - n /\ (IF n + 1 <= L THEN L - (n + 1) + 1 ELSE 0) = L - n
          /\ \A i \in 1..(L - n) : n + 1 + i - 1 = n + i
      BY <1>1
    <2> QED
      BY <2>2, <2>3
  <1>4. a \o b = s
    <2> DEFINE c == a \o b
    <2> HIDE DEF a, b, L
    <2>0. c \in Seq(S) /\ Len(c) = Len(a) + Len(b)
          /\ \A i \in 1..(Len(a) + Len(b)) : c[i] = IF i <= Len(a) THEN a[i] ELSE b[i - Len(a)]
      BY <1>2, <1>3, ConcatProperties
    <2> HIDE DEF c
    <2>1. c \in Seq(S) /\ Len(c) = n + (L - n)
          /\ \A i \in 1..(n + (L - n)) : c[i] = IF i <= n THEN a[i] ELSE b[i - n]
      BY <1>2, <1>3, <2>0
    <2>2. n + (L - n) = L
      BY <1>1
    <2>3. ASSUME NEW i \in 1..L PROVE c[i] = s[i]
      <3>1. CASE i <= n
        <4>1. i \in 1..n
          BY <1>1, <3>1
        <4> QED
          BY <1>2, <2>1, <2>2, <3>1, <4>1
      <3>2. CASE ~(i <= n)
        <4>1. i - n \in 1..(L - n) /\ n + (i - n) = i
          BY <1>1, <3>2
        <4>2. c[i] = b[i - n]
          BY <2>1, <2>2, <3>2
        <4>3. b[i - n] = s[n + (i - n)]
          BY <1>3, <4>1
        <4> QED
          BY <4>1, <4>2, <4>3
      <3> QED
        BY <3>1, <3>2
    <2>4. Len(c) = Len(s)
      BY <2>1, <2>2 DEF L
    <2>5. c = s
      BY <2>1, <2>3, <2>4, SeqEqual DEF L
    <2> QED
      BY <2>5 DEF c
  <1> QED
    BY <1>2, <1>3, <1>4

\* What is left when the front is taken off.
LEMMA AfterFront ==
    ASSUME NEW S, NEW a \in Seq(S), NEW b \in Seq(S)
    PROVE  After(a, a \o b) = b
  <1> DEFINE s == a \o b
             n == Len(a)
             L == Len(b)
  <1>1. s \in Seq(S) /\ Len(s) = n + L /\ \A i \in 1..(n + L) : s[i] = IF i <= n THEN a[i] ELSE b[i - n]
    BY ConcatProperties
  <1>2. n \in Nat /\ L \in Nat
    OBVIOUS
  <1> HIDE DEF n, L, s
  <1>3. n \in 0..Len(s) /\ Len(s) - n = L
    BY <1>1, <1>2
  <1> DEFINE c == SubSeq(s, n + 1, Len(s))
  <1>4. c \in Seq(S) /\ Len(c) = L /\ \A p \in 1..L : c[p] = s[n + p]
    BY <1>1, <1>3, Halves
  <1>5. ASSUME NEW p \in 1..L PROVE c[p] = b[p]
    <2> DEFINE q == n + p
    <2>1. q \in 1..(n + L) /\ ~(q <= n) /\ q - n = p
      BY <1>2
    <2>2. c[p] = s[q]
      BY <1>4
    <2> HIDE DEF q
    <2>3. s[q] = b[q - n]
      BY <1>1, <2>1
    <2> QED
      BY <2>1, <2>2, <2>3
  <1> HIDE DEF c
  <1>6. c = b
    BY <1>4, <1>5, SeqEqual DEF L
  <1> QED
    BY <1>6 DEF After, c, n, s

\* r is a front of s.
Fronts(s) == {SubSeq(s, 1, n) : n \in 0..Len(s)}

\* A front and what comes after it are the sequence.
LEMMA FrontIs ==
    ASSUME NEW S, NEW s \in Seq(S), NEW r \in Fronts(s)
    PROVE  /\ r \in Seq(S) /\ Len(r) <= Len(s) /\ r = SubSeq(s, 1, Len(r))
           /\ After(r, s) \in Seq(S) /\ Len(After(r, s)) = Len(s) - Len(r)
           /\ r \o After(r, s) = s
           /\ After(r, s) = << >> <=> r = s
  <1>1. PICK n \in 0..Len(s) : r = SubSeq(s, 1, n)
    BY DEF Fronts
  <1> DEFINE b == SubSeq(s, n + 1, Len(s))
  <1>2. r \in Seq(S) /\ Len(r) = n /\ b \in Seq(S) /\ Len(b) = Len(s) - n /\ r \o b = s
    BY <1>1, Halves
  <1>3. After(r, s) = b
    BY <1>2 DEF After
  <1> HIDE DEF b
  <1>4. Len(s) \in Nat /\ n \in Nat /\ n <= Len(s)
    OBVIOUS
  <1>5. b = << >> <=> r = s
    <2>0. r \in Seq(S) /\ b \in Seq(S)
      BY <1>2
    <2>1. (r \o b = r) <=> b = << >>
      BY <2>0, ConcatEqualIffEmpty
    <2> QED
      BY <1>2, <2>1
  <1>6. Len(r) <= Len(s) /\ r = SubSeq(s, 1, Len(r))
    BY <1>1, <1>2, <1>4
  <1>7. After(r, s) \in Seq(S) /\ Len(After(r, s)) = Len(s) - Len(r) /\ r \o After(r, s) = s
    BY <1>2, <1>3
  <1>8. After(r, s) = << >> <=> r = s
    BY <1>3, <1>5
  <1> QED
    BY <1>2, <1>6, <1>7, <1>8

\* What is in front of something else is a front.
LEMMA IsFront ==
    ASSUME NEW S, NEW a \in Seq(S), NEW b \in Seq(S)
    PROVE  a \in Fronts(a \o b)
  <1> DEFINE s == a \o b
             n == Len(a)
             L == Len(b)
  <1>1. s \in Seq(S) /\ Len(s) = n + L /\ \A i \in 1..(n + L) : s[i] = IF i <= n THEN a[i] ELSE b[i - n]
    BY ConcatProperties
  <1>2. n \in Nat /\ L \in Nat
    OBVIOUS
  <1> HIDE DEF n, L, s
  <1>3. n \in 0..Len(s)
    BY <1>1, <1>2
  <1> DEFINE c == SubSeq(s, 1, n)
  <1>4. c \in Seq(S) /\ Len(c) = n /\ \A p \in 1..n : c[p] = s[p]
    BY <1>1, <1>3, Halves
  <1>5. ASSUME NEW p \in 1..n PROVE c[p] = a[p]
    <2>1. p \in 1..(n + L) /\ p <= n
      BY <1>2
    <2> QED
      BY <1>1, <1>4, <2>1
  <1> HIDE DEF c
  <1>6. c = a
    BY <1>4, <1>5, SeqEqual DEF n
  <1>7. a \in {SubSeq(s, 1, m) : m \in 0..Len(s)}
    BY <1>3, <1>6 DEF c
  <1> QED
    BY <1>7 DEF Fronts, s

\* A front that takes up another piece is one.
LEMMA LongerFront ==
    ASSUME NEW S, NEW s \in Seq(S), NEW r \in Fronts(s), NEW f \in Fronts(After(r, s))
    PROVE  /\ r \o f \in Fronts(s) /\ After(r \o f, s) = After(f, After(r, s))
           /\ r \o f \in Seq(S) /\ Len(r \o f) = Len(r) + Len(f)
  <1>0. r \in Fronts(s) /\ f \in Fronts(After(r, s))
    OBVIOUS
  <1> DEFINE A == After(r, s)
             B == After(f, A)
             g == r \o f
  <1>1. r \in Seq(S) /\ A \in Seq(S) /\ r \o A = s
    BY FrontIs
  <1>2. f \in Seq(S) /\ B \in Seq(S) /\ f \o B = A
    <2>1. f \in Fronts(A)
      BY <1>0
    <2> HIDE DEF A
    <2> QED
      BY <1>1, <2>1, FrontIs
  <1> HIDE DEF A, B
  <1>3. g \in Seq(S) /\ Len(g) = Len(r) + Len(f)
    BY <1>1, <1>2, ConcatProperties
  <1>4. g \o B = s
    <2>0. r \in Seq(S) /\ f \in Seq(S) /\ B \in Seq(S)
      BY <1>1, <1>2
    <2>1. (r \o f) \o B = r \o (f \o B)
      BY <2>0, ConcatAssociative
    <2>2. g \o B = r \o (f \o B)
      BY <2>1
    <2> HIDE DEF g
    <2> QED
      BY <1>1, <1>2, <2>2
  <1> HIDE DEF g
  <1>5. After(g, s) = B /\ g \in Fronts(s)
    BY <1>2, <1>3, <1>4, AfterFront, IsFront
  <1> QED
    BY <1>3, <1>5 DEF g, A, B

\* A frame of what is left is not empty and no longer than a frame may be.
LEMMA FrameIsFront ==
    ASSUME NEW S, NEW s \in Seq(S), s # << >>, NEW f \in Frame(s)
    PROVE  f \in Fronts(s) /\ f # << >> /\ \E n \in FrameSizes : Len(f) <= n
  <1>1. PICK n \in FrameSizes : f = SubSeq(s, 1, Min({n, Len(s)}))
    BY DEF Frame
  <1>2. n \in Nat /\ n # 0 /\ n \in Int
    BY SizesAssumption DEF SizesAssumption
  <1>3. Len(s) \in Nat /\ Len(s) # 0 /\ Len(s) \in Int
    BY EmptySeq
  <1> DEFINE L == Len(s)
             m == Min({n, L})
  <1> HIDE DEF L
  <1>4. m = IF n <= L THEN n ELSE L
    BY <1>2, <1>3, TwoNumbers DEF L
  <1> HIDE DEF m
  <1>5. m \in 0..L /\ m <= n /\ m # 0
    BY <1>2, <1>3, <1>4 DEF L
  <1>6. f = SubSeq(s, 1, m)
    BY <1>1 DEF m, L
  <1>7. f \in Fronts(s)
    BY <1>5, <1>6 DEF Fronts, L
  <1>8. Len(f) = m
    BY <1>5, <1>6, Halves DEF L
  <1>9. f # << >>
    BY <1>5, <1>8
  <1> QED
    BY <1>5, <1>7, <1>8, <1>9

-----------------------------------------------------------------------------
(***************************************************************************)
(* Cuts.                                                                   *)
(***************************************************************************)

\* How many of the cuts are no later than k.
Rank(C, k) == Cardinality({q \in C : q <= k})

\* There are finitely many places.
LEMMA FinitePlaces ==
    ASSUME NEW L \in Nat, NEW C \in SUBSET (1..L)
    PROVE  IsFiniteSet(C)
  <1> DEFINE o == 1
  <1>1. o \in Int /\ L \in Int
    OBVIOUS
  <1>2. C \in SUBSET (o..L)
    OBVIOUS
  <1> HIDE DEF o
  <1>3. IsFiniteSet(o..L)
    BY <1>1, FS_Interval
  <1> QED
    BY <1>2, <1>3, FS_Subset

\* How the number of cuts up to a place grows with it.
LEMMA RankType ==
    ASSUME NEW L \in Nat, NEW C \in SUBSET (1..L)
    PROVE  /\ Cardinality(C) \in Nat
           /\ \A k \in 0..L : Rank(C, k) \in Nat
           /\ Rank(C, 0) = 0 /\ Rank(C, L) = Cardinality(C)
           /\ \A k \in 0..(L - 1) : Rank(C, k + 1) = IF k + 1 \in C THEN Rank(C, k) + 1 ELSE Rank(C, k)
  <1>2. IsFiniteSet(C)
    BY FinitePlaces
  <1>3. Cardinality(C) \in Nat
    BY <1>2, FS_CardinalityType
  <1> DEFINE B(k) == {q \in C : q <= k}
  <1>4. \A k \in 0..L : IsFiniteSet(B(k)) /\ Cardinality(B(k)) \in Nat
    <2> SUFFICES ASSUME NEW k \in 0..L PROVE IsFiniteSet(B(k)) /\ Cardinality(B(k)) \in Nat
      OBVIOUS
    <2>1. B(k) \in SUBSET C
      OBVIOUS
    <2> HIDE DEF B
    <2>2. IsFiniteSet(B(k))
      BY <1>2, <2>1, FS_Subset
    <2>3. Cardinality(B(k)) \in Nat
      BY <2>2, FS_CardinalityType
    <2> QED
      BY <2>2, <2>3
  <1>5. B(0) = {} /\ B(L) = C
    <2>1. \A q \in C : q \in 1..L /\ ~(q <= 0) /\ q <= L
      OBVIOUS
    <2> QED
      BY <2>1
  <1>6. Cardinality(B(0)) = 0 /\ Cardinality(B(L)) = Cardinality(C)
    BY <1>5, FS_EmptySet
  <1>7. ASSUME NEW k \in 0..(L - 1)
        PROVE  Cardinality(B(k + 1)) = IF k + 1 \in C THEN Cardinality(B(k)) + 1 ELSE Cardinality(B(k))
    <2>1. k \in 0..L /\ k + 1 \in 0..L /\ ~(k + 1 <= k)
      OBVIOUS
    <2>2. CASE k + 1 \in C
      <3>1. B(k + 1) = B(k) \cup {k + 1}
        <4>1. \A q \in C : q <= k + 1 <=> q <= k \/ q = k + 1
          BY <2>1
        <4> QED
          BY <2>2, <4>1
      <3>2. k + 1 \notin B(k)
        BY <2>1
      <3> HIDE DEF B
      <3>3. IsFiniteSet(B(k))
        BY <1>4, <2>1
      <3> DEFINE x == k + 1
                 D == B(k)
      <3> HIDE DEF x, D
      <3>4. IsFiniteSet(D) /\ x \notin D
        BY <3>2, <3>3 DEF x, D
      <3>5. Cardinality(D \cup {x}) = Cardinality(D) + 1
        BY <3>4, FS_AddElement
      <3> QED
        BY <2>2, <3>1, <3>5 DEF x, D
    <2>3. CASE k + 1 \notin C
      <3>1. B(k + 1) = B(k)
        <4>1. \A q \in C : q <= k + 1 <=> q <= k
          BY <2>1, <2>3
        <4> QED
          BY <4>1
      <3> HIDE DEF B
      <3> QED
        BY <2>3, <3>1
    <2> QED
      BY <2>2, <2>3
  <1>8. \A k : Rank(C, k) = Cardinality(B(k))
    BY DEF Rank
  <1> HIDE DEF B
  <1> QED
    BY <1>3, <1>4, <1>6, <1>7, <1>8

\* More cuts up to a later place.
LEMMA RankGrows ==
    ASSUME NEW L \in Nat, NEW C \in SUBSET (1..L), NEW j \in 0..L, NEW k \in 0..L, j <= k
    PROVE  Rank(C, j) <= Rank(C, k) /\ (j < k /\ k \in C => Rank(C, j) < Rank(C, k))
  <1> DEFINE A == {q \in C : q <= j}
             B == {q \in C : q <= k}
  <1>0. L \in Nat /\ C \in SUBSET (1..L)
    OBVIOUS
  <1>1. IsFiniteSet(C)
    BY <1>0, FinitePlaces
  <1>2. A \in SUBSET B /\ B \in SUBSET C
    <2>1. \A q \in C : q <= j => q <= k
      OBVIOUS
    <2> QED
      BY <2>1
  <1>3. j < k /\ k \in C => A # B
    <2> SUFFICES ASSUME j < k, k \in C PROVE A # B
      OBVIOUS
    <2>1. k \in B /\ k \notin A
      OBVIOUS
    <2> QED
      BY <2>1
  <1> HIDE DEF A, B
  <1>4. IsFiniteSet(B)
    BY <1>1, <1>2, FS_Subset
  <1>5. IsFiniteSet(A) /\ Cardinality(A) <= Cardinality(B) /\ (Cardinality(B) = Cardinality(A) => B = A)
    BY <1>2, <1>4, FS_Subset
  <1>6. Cardinality(A) \in Nat /\ Cardinality(B) \in Nat
    BY <1>4, <1>5, FS_CardinalityType
  <1>7. Rank(C, j) = Cardinality(A) /\ Rank(C, k) = Cardinality(B)
    BY DEF Rank, A, B
  <1>8. j < k /\ k \in C => Cardinality(A) < Cardinality(B)
    BY <1>3, <1>5, <1>6
  <1> QED
    BY <1>5, <1>7, <1>8

\* Every rank is some cut's.
LEMMA Ranked ==
    ASSUME NEW L \in Nat, NEW C \in SUBSET (1..L), NEW n \in 1..Cardinality(C)
    PROVE  \E p \in C : Rank(C, p) = n
  <1> DEFINE c(k) == Rank(C, k)
             T == {k \in 0..L : c(k) < n \/ \E p \in C : c(p) = n}
  <1>1. /\ Cardinality(C) \in Nat /\ \A k \in 0..L : c(k) \in Nat
        /\ c(0) = 0 /\ c(L) = Cardinality(C)
        /\ \A k \in 0..(L - 1) : c(k + 1) = IF k + 1 \in C THEN c(k) + 1 ELSE c(k)
    BY RankType
  <1> HIDE DEF c
  <1>2. n \in Nat /\ n # 0 /\ n <= Cardinality(C)
    BY <1>1
  <1>3. 0 \in T
    BY <1>1, <1>2
  <1>4. ASSUME NEW k \in 0..(L - 1), k \in T PROVE k + 1 \in T
    <2>1. k \in 0..L /\ k + 1 \in 0..L
      OBVIOUS
    <2>2. c(k) \in Nat /\ c(k + 1) = IF k + 1 \in C THEN c(k) + 1 ELSE c(k)
      BY <1>1, <2>1
    <2>3. CASE \E p \in C : c(p) = n
      BY <2>1, <2>3
    <2>4. CASE c(k) < n
      <3>1. CASE k + 1 \in C
        <4>1. c(k + 1) < n \/ c(k + 1) = n
          BY <1>2, <2>2, <2>4, <3>1
        <4> QED
          BY <2>1, <3>1, <4>1
      <3>2. CASE k + 1 \notin C
        BY <2>1, <2>2, <2>4, <3>2
      <3> QED
        BY <3>1, <3>2
    <2> QED
      BY <1>4, <2>3, <2>4
  <1>5. L \in T
    <2> HIDE DEF T
    <2>1. \A k \in 0..L : k \in T
      BY <1>3, <1>4, UpTo
    <2> QED
      BY <2>1
  <1>6. ~(c(L) < n)
    BY <1>1, <1>2
  <1>7. \E p \in C : c(p) = n
    BY <1>5, <1>6
  <1> QED
    BY <1>7 DEF c

\* The n-th cut, from nothing on.
Cut(C, n) == IF n = 0 THEN 0 ELSE CHOOSE p \in C : Rank(C, p) = n

\* The cuts are numbered by how many there are up to each.
LEMMA CutIs ==
    ASSUME NEW L \in Nat, NEW C \in SUBSET (1..L)
    PROVE  /\ Cut(C, 0) = 0
           /\ \A n \in 0..Cardinality(C) : Cut(C, n) \in 0..L /\ Rank(C, Cut(C, n)) = n
           /\ \A n \in 1..Cardinality(C) : Cut(C, n) \in C
           /\ \A p \in C : Rank(C, p) \in 1..Cardinality(C) /\ Cut(C, Rank(C, p)) = p
  <1>1. Cut(C, 0) = 0
    BY DEF Cut
  <1>2. Cardinality(C) \in Nat /\ Rank(C, 0) = 0
    BY RankType
  <1>3. ASSUME NEW n \in 1..Cardinality(C) PROVE Cut(C, n) \in C /\ Rank(C, Cut(C, n)) = n
    <2>1. n # 0
      BY <1>2
    <2>2. \E p \in C : Rank(C, p) = n
      BY Ranked
    <2> QED
      BY <2>1, <2>2 DEF Cut
  <1>4. ASSUME NEW n \in 0..Cardinality(C) PROVE Cut(C, n) \in 0..L /\ Rank(C, Cut(C, n)) = n
    <2>1. CASE n = 0
      BY <1>1, <1>2, <2>1
    <2>2. CASE n # 0
      <3>1. n \in 1..Cardinality(C)
        BY <1>2, <2>2
      <3>2. Cut(C, n) \in C /\ Rank(C, Cut(C, n)) = n
        BY <1>3, <3>1
      <3>3. \A p \in C : p \in 0..L
        OBVIOUS
      <3> QED
        BY <3>2, <3>3
    <2> QED
      BY <2>1, <2>2
  <1>5. ASSUME NEW p \in C PROVE Rank(C, p) \in 1..Cardinality(C) /\ Cut(C, Rank(C, p)) = p
    <2>1. p \in 0..L /\ 0 \in 0..L /\ L \in 0..L /\ 0 <= p /\ p <= L /\ 0 < p /\ p \in 1..L
      OBVIOUS
    <2>2. Rank(C, p) \in Nat /\ Rank(C, L) = Cardinality(C)
      BY <2>1, RankType
    <2>3. Rank(C, 0) < Rank(C, p)
      BY <2>1, RankGrows
    <2>4. Rank(C, p) <= Rank(C, L)
      BY <2>1, RankGrows
    <2> DEFINE n == Rank(C, p)
               q == Cut(C, n)
    <2> HIDE DEF n
    <2>5. n \in 1..Cardinality(C)
      BY <1>2, <2>2, <2>3, <2>4 DEF n
    <2>6. q \in C /\ Rank(C, q) = n
      BY <1>3, <2>5
    <2> HIDE DEF q
    <2>7. q \in 0..L /\ q \in Nat /\ p \in Nat
      BY <2>1, <2>6
    <2>8. ~(q < p)
      <3> SUFFICES ASSUME q < p PROVE FALSE
        OBVIOUS
      <3>1. Rank(C, q) < Rank(C, p)
        BY <2>1, <2>7, RankGrows
      <3> QED
        BY <2>2, <2>6, <3>1 DEF n
    <2>9. ~(p < q)
      <3> SUFFICES ASSUME p < q PROVE FALSE
        OBVIOUS
      <3>1. Rank(C, p) < Rank(C, q)
        BY <2>1, <2>6, <2>7, RankGrows
      <3> QED
        BY <2>2, <2>6, <3>1 DEF n
    <2>10. q = p
      BY <2>7, <2>8, <2>9
    <2> QED
      BY <2>5, <2>10 DEF n, q
  <1> QED
    BY <1>1, <1>3, <1>4, <1>5

\* A cut is followed by the next one.
LEMMA CutsInOrder ==
    ASSUME NEW L \in Nat, NEW C \in SUBSET (1..L), NEW n \in 1..Cardinality(C)
    PROVE  /\ n - 1 \in 0..Cardinality(C) /\ Cut(C, n - 1) < Cut(C, n)
           /\ \A p \in C : ~(Cut(C, n - 1) < p /\ p < Cut(C, n))
  <1> DEFINE a == Cut(C, n - 1)
             b == Cut(C, n)
  <1>1. Cardinality(C) \in Nat
    BY RankType
  <1>2. n - 1 \in 0..Cardinality(C) /\ n \in 0..Cardinality(C) /\ n \in Int
    BY <1>1
  <1>3. a \in 0..L /\ b \in 0..L /\ Rank(C, a) = n - 1 /\ Rank(C, b) = n /\ b \in C
    BY <1>2, CutIs
  <1> HIDE DEF a, b
  <1>4. a < b
    <2> SUFFICES ASSUME b <= a PROVE FALSE
      BY <1>3
    <2>1. Rank(C, b) <= Rank(C, a)
      BY <1>3, RankGrows
    <2> QED
      BY <1>2, <1>3, <2>1
  <1>5. ASSUME NEW p \in C, a < p, p < b PROVE FALSE
    <2>1. p \in 0..L /\ p \in Nat
      OBVIOUS
    <2>2. Rank(C, a) < Rank(C, p)
      BY <1>3, <1>5, <2>1, RankGrows
    <2>3. Rank(C, p) < Rank(C, b)
      BY <1>3, <1>5, <2>1, RankGrows
    <2>4. Rank(C, p) \in Nat
      BY <2>1, RankType
    <2> QED
      BY <1>2, <1>3, <2>2, <2>3, <2>4
  <1> QED
    BY <1>2, <1>4, <1>5 DEF a, b

\* The pieces of s are what is between one cut and the next.
Cuts(s, ends) == ends \cup ({Len(s)} \ {0})

\* A split has a piece for each cut, from the one before it.
LEMMA SplitIs ==
    ASSUME NEW S, NEW s \in Seq(S), NEW ends \in SUBSET (1..Len(s))
    PROVE  /\ Cuts(s, ends) \in SUBSET (1..Len(s)) /\ Cardinality(Cuts(s, ends)) \in Nat
           /\ Split(s, ends) \in Seq(Seq(S)) /\ Len(Split(s, ends)) = Cardinality(Cuts(s, ends))
           /\ \A n \in 1..Len(Split(s, ends)) :
                 Split(s, ends)[n] = SubSeq(s, Cut(Cuts(s, ends), n - 1) + 1, Cut(Cuts(s, ends), n))
  <1> DEFINE C == Cuts(s, ends)
             L == Len(s)
             N == Cardinality(C)
             q == [n \in 1..N |-> SubSeq(s, Cut(C, n - 1) + 1, Cut(C, n))]
  <1>1. L \in Nat
    OBVIOUS
  <1>2. C \in SUBSET (1..L)
    <2>1. \A p \in {L} \ {0} : p \in 1..L
      BY <1>1
    <2> QED
      BY <2>1 DEF Cuts
  <1>3. Split(s, ends) = q
    BY DEF Split, Cuts, Cut, Rank
  <1> HIDE DEF C, L
  <1>4. N \in Nat
    BY <1>1, <1>2, RankType
  <1>5. ASSUME NEW n \in 1..N PROVE SubSeq(s, Cut(C, n - 1) + 1, Cut(C, n)) \in Seq(S)
    <2> DEFINE a == Cut(C, n - 1)
               b == Cut(C, n)
    <2>1. n - 1 \in 0..N /\ n \in 0..N
      BY <1>4
    <2>2. a \in 0..L /\ b \in 0..L
      BY <1>1, <1>2, <2>1, CutIs
    <2> HIDE DEF a, b
    <2>3. a + 1 \in Int /\ b \in Int /\ \A i \in (a + 1)..b : s[i] \in S
      <3>1. \A i \in (a + 1)..b : i \in 1..Len(s)
        BY <1>1, <2>2 DEF L
      <3> QED
        BY <1>1, <2>2, <3>1
    <2>4. SubSeq(s, a + 1, b) \in Seq(S)
      BY <2>3, SubSeqProperties
    <2> QED
      BY <2>4 DEF a, b
  <1> HIDE DEF N
  <1>6. q \in Seq(Seq(S)) /\ Len(q) = N
    BY <1>4, <1>5
  <1>7. \A n \in 1..N : q[n] = SubSeq(s, Cut(C, n - 1) + 1, Cut(C, n))
    OBVIOUS
  <1> HIDE DEF q
  <1> QED
    BY <1>2, <1>3, <1>4, <1>6, <1>7 DEF C, L, N

-----------------------------------------------------------------------------
(***************************************************************************)
(* What the router's session and its output are made of.                   *)
(***************************************************************************)

\* A unit.
LEMMA UnitIs ==
    ASSUME NEW k \in Kinds, NEW i \in Int, NEW v \in Int
    PROVE  U(k, i, v) \in Unit
  BY DEF U, Unit

\* An event of one member.
LEMMA EventIs ==
    ASSUME NEW e \in Unit
    PROVE  Event(e) \in Seq(Unit) /\ Len(Event(e)) = 5
  <1>1. OPEN \in Unit /\ CLOSE \in Unit /\ NL \in Unit
    BY DEF OPEN, CLOSE, NL, Mark, U, Unit, Kinds
  <1> HIDE DEF OPEN, CLOSE, NL
  <1> QED
    BY <1>1 DEF Event

\* The router's session, its table of calls, and what it has put out.
Tables == UNION {[D -> Int] : D \in SUBSET Int}
Session == [started : BOOLEAN, text : Int, next : Nat, tools : Tables, open : Seq(Int)]
Progress == [s : Session, out : Seq(Unit)]

\* An event that is put out leaves the session as it is.
LEMMA OutIs ==
    ASSUME NEW r \in Progress, NEW e \in Unit
    PROVE  Out(r, e) \in Progress /\ Out(r, e).s = r.s
  <1> DEFINE w == r.out \o Event(e)
  <1>1. r.s \in Session /\ r.out \in Seq(Unit) /\ Event(e) \in Seq(Unit)
    BY EventIs DEF Progress
  <1>2. w \in Seq(Unit)
    BY <1>1, ConcatProperties
  <1>3. Out(r, e) = [r EXCEPT !.out = w]
    BY DEF Out
  <1> HIDE DEF w
  <1>4. [r EXCEPT !.out = w] = [s |-> r.s, out |-> w]
    BY DEF Progress
  <1> QED
    BY <1>1, <1>2, <1>3, <1>4 DEF Progress

\* The stops of the open blocks.
LEMMA StopsIs ==
    ASSUME NEW open \in Seq(Int)
    PROVE  Stops(open) \in Seq(Unit)
  <1> DEFINE N == Len(open)
             q == [n \in 1..N |-> Event(U("block_stop", open[n], 0))]
  <1>1. N \in Nat
    OBVIOUS
  <1>2. \A n \in 1..N : Event(U("block_stop", open[n], 0)) \in Seq(Unit)
    <2> SUFFICES ASSUME NEW n \in 1..N PROVE Event(U("block_stop", open[n], 0)) \in Seq(Unit)
      OBVIOUS
    <2>1. open[n] \in Int /\ 0 \in Int /\ "block_stop" \in Kinds
      BY DEF Kinds
    <2>2. U("block_stop", open[n], 0) \in Unit
      BY <2>1, UnitIs
    <2> QED
      BY <2>2, EventIs
  <1>3. Stops(open) = FlattenSeq(q)
    BY DEF Stops
  <1> HIDE DEF N
  <1>4. q \in Seq(Seq(Unit))
    BY <1>1, <1>2
  <1> HIDE DEF q
  <1> QED
    BY <1>3, <1>4, FlattenHas

\* A session and its output, put together and taken apart.
Progressed(started, text, next, tools, open, out) ==
    [s |-> [started |-> started, text |-> text, next |-> next, tools |-> tools, open |-> open], out |-> out]

\* A session and what was put out, from their parts.
LEMMA SessionWith ==
    ASSUME NEW started \in BOOLEAN, NEW text \in Int, NEW next \in Nat,
           NEW tools \in Tables, NEW open \in Seq(Int), NEW out \in Seq(Unit)
    PROVE  Progressed(started, text, next, tools, open, out) \in Progress
  BY DEF Progressed, Progress, Session

\* The parts of a session and what was put out.
LEMMA ProgressHas ==
    ASSUME NEW r \in Progress
    PROVE  /\ r = Progressed(r.s.started, r.s.text, r.s.next, r.s.tools, r.s.open, r.out)
           /\ r.s.started \in BOOLEAN /\ r.s.text \in Int /\ r.s.next \in Nat
           /\ r.s.tools \in Tables /\ r.s.open \in Seq(Int)
           /\ r.out \in Seq(Unit) /\ r.s \in Session
  BY DEF Progressed, Progress, Session

\* The changes that a step makes to both.
WithStarted(r, x) == [r EXCEPT !.s.started = x]
WithClosed(r, x, y, z) == [r EXCEPT !.out = x, !.s.open = y, !.s.text = z]
WithText(r, x, y, z) == [r EXCEPT !.s.text = x, !.s.next = y, !.s.open = z]
WithTool(r, x, y, z) == [r EXCEPT !.s.open = x, !.s.next = y, !.s.tools = z]
WithCall(r, x, y) == [r EXCEPT !.s.next = x, !.s.tools = y]

\* A session that has started.
LEMMA ChangedStart ==
    ASSUME NEW started, NEW text, NEW next, NEW tools, NEW open, NEW out, NEW r,
           r = Progressed(started, text, next, tools, open, out), NEW x
    PROVE  WithStarted(r, x) = Progressed(x, text, next, tools, open, out)
  BY DEF Progressed, WithStarted

\* A session that knows of a call.
LEMMA ChangedCall ==
    ASSUME NEW started, NEW text, NEW next, NEW tools, NEW open, NEW out, NEW r,
           r = Progressed(started, text, next, tools, open, out), NEW x, NEW y
    PROVE  WithCall(r, x, y) = Progressed(started, text, x, y, open, out)
  <1>1. [r EXCEPT !.s.next = x, !.s.tools = y] = Progressed(started, text, x, y, open, out)
    <2> DEFINE a == [r EXCEPT !.s.next = x]
    <2>1. [r EXCEPT !.s.next = x, !.s.tools = y] = [a EXCEPT !.s.tools = y]
      OBVIOUS
    <2>2. a = Progressed(started, text, x, tools, open, out)
      BY DEF Progressed
    <2> HIDE DEF a
    <2>3. [a EXCEPT !.s.tools = y] = Progressed(started, text, x, y, open, out)
      BY <2>2 DEF Progressed
    <2> QED
      BY <2>1, <2>3
  <1> QED
    BY <1>1 DEF WithCall

\* A session with its blocks closed, with a text block, and with a tool block.
LEMMA Changed ==
    ASSUME NEW started, NEW text, NEW next, NEW tools, NEW open, NEW out, NEW r,
           r = Progressed(started, text, next, tools, open, out), NEW x, NEW y, NEW z
    PROVE  /\ WithClosed(r, x, y, z) = Progressed(started, z, next, tools, y, x)
           /\ WithText(r, x, y, z) = Progressed(started, x, y, tools, z, out)
           /\ WithTool(r, x, y, z) = Progressed(started, text, y, z, x, out)
  <1>1. [r EXCEPT !.out = x, !.s.open = y, !.s.text = z] = Progressed(started, z, next, tools, y, x)
    <2> DEFINE a == [r EXCEPT !.out = x]
               b == [a EXCEPT !.s.open = y]
    <2>1. [r EXCEPT !.out = x, !.s.open = y, !.s.text = z] = [b EXCEPT !.s.text = z]
      OBVIOUS
    <2>2. a = Progressed(started, text, next, tools, open, x)
      BY DEF Progressed
    <2> HIDE DEF a
    <2>3. b = Progressed(started, text, next, tools, y, x)
      BY <2>2 DEF Progressed
    <2> HIDE DEF b
    <2>4. [b EXCEPT !.s.text = z] = Progressed(started, z, next, tools, y, x)
      BY <2>3 DEF Progressed
    <2> QED
      BY <2>1, <2>4
  <1>2. [r EXCEPT !.s.text = x, !.s.next = y, !.s.open = z] = Progressed(started, x, y, tools, z, out)
    <2> DEFINE a == [r EXCEPT !.s.text = x]
               b == [a EXCEPT !.s.next = y]
    <2>1. [r EXCEPT !.s.text = x, !.s.next = y, !.s.open = z] = [b EXCEPT !.s.open = z]
      OBVIOUS
    <2>2. a = Progressed(started, x, next, tools, open, out)
      BY DEF Progressed
    <2> HIDE DEF a
    <2>3. b = Progressed(started, x, y, tools, open, out)
      BY <2>2 DEF Progressed
    <2> HIDE DEF b
    <2>4. [b EXCEPT !.s.open = z] = Progressed(started, x, y, tools, z, out)
      BY <2>3 DEF Progressed
    <2> QED
      BY <2>1, <2>4
  <1>3. [r EXCEPT !.s.open = x, !.s.next = y, !.s.tools = z] = Progressed(started, text, y, z, x, out)
    <2> DEFINE a == [r EXCEPT !.s.open = x]
               b == [a EXCEPT !.s.next = y]
    <2>1. [r EXCEPT !.s.open = x, !.s.next = y, !.s.tools = z] = [b EXCEPT !.s.tools = z]
      OBVIOUS
    <2>2. a = Progressed(started, text, next, tools, x, out)
      BY DEF Progressed
    <2> HIDE DEF a
    <2>3. b = Progressed(started, text, y, tools, x, out)
      BY <2>2 DEF Progressed
    <2> HIDE DEF b
    <2>4. [b EXCEPT !.s.tools = z] = Progressed(started, text, y, z, x, out)
      BY <2>3 DEF Progressed
    <2> QED
      BY <2>1, <2>4
  <1> QED
    BY <1>1, <1>2, <1>3 DEF WithClosed, WithText, WithTool

\* close_anthropic_blocks leaves a session.
LEMMA CloseIs ==
    ASSUME NEW r \in Progress
    PROVE  close_anthropic_blocks(r) \in Progress
  <1> DEFINE w == r.out \o Stops(r.s.open)
  <1>0. r.s.open \in Seq(Int) /\ r.out \in Seq(Unit)
    BY ProgressHas
  <1>1. Stops(r.s.open) \in Seq(Unit) /\ << >> \in Seq(Int) /\ NoBlock \in Int
    BY <1>0, StopsIs DEF NoBlock
  <1>2. w \in Seq(Unit)
    BY <1>0, <1>1, ConcatProperties
  <1>3. close_anthropic_blocks(r) = WithClosed(r, w, << >>, NoBlock)
    BY DEF close_anthropic_blocks, WithClosed
  <1> HIDE DEF w
  <1>4. /\ r = Progressed(r.s.started, r.s.text, r.s.next, r.s.tools, r.s.open, r.out)
        /\ r.s.started \in BOOLEAN /\ r.s.next \in Nat /\ r.s.tools \in Tables
    BY ProgressHas
  <1>5. WithClosed(r, w, << >>, NoBlock) = Progressed(r.s.started, NoBlock, r.s.next, r.s.tools, << >>, w)
    BY <1>4, Changed
  <1>6. Progressed(r.s.started, NoBlock, r.s.next, r.s.tools, << >>, w) \in Progress
    BY <1>1, <1>2, <1>4, SessionWith
  <1> QED
    BY <1>3, <1>5, <1>6

\* The open blocks stay a sequence of indices.
LEMMA OpenedIs ==
    ASSUME NEW open \in Seq(Int), NEW b \in Int
    PROVE  Opened(open, b) \in Seq(Int)
  BY DEF Opened

\* A table with one more entry.
LEMMA EntryIs ==
    ASSUME NEW tools \in Tables, NEW i \in Int, NEW b \in Int
    PROVE  /\ With(tools, i, b) \in Tables
           /\ i \in DOMAIN tools => tools[i] \in Int
  <1>1. PICK D \in SUBSET Int : tools \in [D -> Int]
    BY DEF Tables
  <1>2. D \cup {i} \in SUBSET Int
    OBVIOUS
  <1>3. With(tools, i, b) \in [D \cup {i} -> Int]
    BY <1>1 DEF With
  <1> QED
    BY <1>1, <1>2, <1>3 DEF Tables

\* MessageStart leaves a session.
LEMMA StartIs ==
    ASSUME NEW r \in Progress
    PROVE  MessageStart(r) \in Progress
  <1> DEFINE q == Out(r, Mark("message_start"))
  <1>1. q \in Progress
    <2>1. Mark("message_start") \in Unit
      BY DEF Mark, U, Unit, Kinds
    <2> QED
      BY <2>1, OutIs
  <1> HIDE DEF q
  <1>2. /\ q = Progressed(q.s.started, q.s.text, q.s.next, q.s.tools, q.s.open, q.out)
        /\ q.s.text \in Int /\ q.s.next \in Nat /\ q.s.tools \in Tables /\ q.s.open \in Seq(Int) /\ q.out \in Seq(Unit)
    BY <1>1, ProgressHas
  <1>3. WithStarted(q, TRUE) = Progressed(TRUE, q.s.text, q.s.next, q.s.tools, q.s.open, q.out)
    <2> DEFINE yes == TRUE
    <2> HIDE DEF yes
    <2>1. WithStarted(q, yes) = Progressed(yes, q.s.text, q.s.next, q.s.tools, q.s.open, q.out)
      BY <1>2, ChangedStart
    <2> QED
      BY <2>1 DEF yes
  <1>4. Progressed(TRUE, q.s.text, q.s.next, q.s.tools, q.s.open, q.out) \in Progress
    BY <1>2, SessionWith
  <1> QED
    BY <1>3, <1>4 DEF MessageStart, WithStarted, q

\* TextDelta leaves a session.
LEMMA TextIs ==
    ASSUME NEW r \in Progress, NEW e \in Unit
    PROVE  TextDelta(r, e) \in Progress
  <1>0. e.v \in Int
    BY DEF Unit
  <1>1. NewText(r) \in Progress
    <2> DEFINE q == Out(r, U("text_start", r.s.next, 0))
               open == Opened(q.s.open, r.s.next)
               next == q.s.next + 1
    <2>1. q \in Progress
      <3>1. r.s.next \in Int /\ 0 \in Int /\ "text_start" \in Kinds
        BY ProgressHas DEF Kinds
      <3>2. U("text_start", r.s.next, 0) \in Unit
        BY <3>1, UnitIs
      <3> QED
        BY <3>2, OutIs
    <2>2. NewText(r) = WithText(q, r.s.next, next, open)
      BY DEF NewText, WithText
    <2> HIDE DEF q
    <2>3. /\ q = Progressed(q.s.started, q.s.text, q.s.next, q.s.tools, q.s.open, q.out)
          /\ q.s.started \in BOOLEAN /\ q.s.next \in Nat /\ q.s.tools \in Tables /\ q.s.open \in Seq(Int) /\ q.out \in Seq(Unit)
      BY <2>1, ProgressHas
    <2>4. r.s.next \in Int /\ next \in Nat
      BY <2>3, ProgressHas
    <2>5. open \in Seq(Int)
      BY <2>3, <2>4, OpenedIs
    <2> HIDE DEF open, next
    <2>6. WithText(q, r.s.next, next, open) = Progressed(q.s.started, r.s.next, next, q.s.tools, open, q.out)
      BY <2>3, Changed
    <2>7. Progressed(q.s.started, r.s.next, next, q.s.tools, open, q.out) \in Progress
      BY <2>3, <2>4, <2>5, SessionWith
    <2> QED
      BY <2>2, <2>6, <2>7
  <1> DEFINE q == IF r.s.text = NoBlock THEN NewText(r) ELSE r
  <1>2. q \in Progress
    BY <1>1
  <1>3. TextDelta(r, e) = Out(q, U("text_delta", q.s.text, e.v))
    BY DEF TextDelta
  <1> HIDE DEF q
  <1>4. q.s.text \in Int /\ "text_delta" \in Kinds
    BY <1>2, ProgressHas DEF Kinds
  <1>5. U("text_delta", q.s.text, e.v) \in Unit
    BY <1>0, <1>4, UnitIs
  <1> QED
    BY <1>2, <1>3, <1>5, OutIs

\* The start of a call and its arguments leave a session.
LEMMA ToolIs ==
    ASSUME NEW r \in Progress, NEW e \in Unit
    PROVE  ToolStart(r, e) \in Progress /\ ToolDelta(r, e) \in Progress
  <1>0. e.v \in Int /\ e.i \in Int
    BY DEF Unit
  <1>1. /\ r = Progressed(r.s.started, r.s.text, r.s.next, r.s.tools, r.s.open, r.out)
        /\ r.s.started \in BOOLEAN /\ r.s.text \in Int /\ r.s.next \in Nat /\ r.s.tools \in Tables
        /\ r.s.open \in Seq(Int) /\ r.out \in Seq(Unit)
    BY ProgressHas
  <1>2. e.i \in DOMAIN r.s.tools => r.s.tools[e.i] \in Int
    BY <1>0, <1>1, EntryIs
  <1>3. ToolDelta(r, e) \in Progress
    <2> DEFINE b == IF e.i \in DOMAIN r.s.tools THEN r.s.tools[e.i] ELSE e.i
    <2>1. b \in Int /\ "json_delta" \in Kinds
      BY <1>0, <1>2 DEF Kinds
    <2>2. ToolDelta(r, e) = Out(r, U("json_delta", b, e.v))
      BY DEF ToolDelta
    <2> HIDE DEF b
    <2>3. U("json_delta", b, e.v) \in Unit
      BY <1>0, <2>1, UnitIs
    <2> QED
      BY <2>2, <2>3, OutIs
  <1>4. ToolStart(r, e) \in Progress
    <2> DEFINE known == e.i \in DOMAIN r.s.tools
               block == IF known THEN r.s.tools[e.i] ELSE r.s.next
               next == IF known THEN r.s.next ELSE r.s.next + 1
               open == Opened(r.s.open, block)
               tools == With(r.s.tools, e.i, block)
               q == WithTool(r, open, next, tools)
    <2>1. ToolStart(r, e) = Out(q, U("tool_start", block, e.v))
      BY DEF ToolStart, WithTool
    <2>2. block \in Int /\ next \in Nat /\ "tool_start" \in Kinds
      BY <1>1, <1>2 DEF Kinds
    <2> HIDE DEF block
    <2>3. open \in Seq(Int) /\ tools \in Tables
      BY <1>0, <1>1, <2>2, OpenedIs, EntryIs
    <2> HIDE DEF next, open, tools
    <2>4. q = Progressed(r.s.started, r.s.text, next, tools, open, r.out)
      BY <1>1, Changed
    <2>5. Progressed(r.s.started, r.s.text, next, tools, open, r.out) \in Progress
      BY <1>1, <2>2, <2>3, SessionWith
    <2> HIDE DEF q
    <2>6. U("tool_start", block, e.v) \in Unit
      BY <1>0, <2>2, UnitIs
    <2> QED
      BY <2>1, <2>4, <2>5, <2>6, OutIs
  <1> QED
    BY <1>3, <1>4

\* One chunk through the session, in either direction.
LEMMA OpenaiChunkIs ==
    ASSUME NEW r \in Progress, NEW e \in Unit
    PROVE  openai_chunk_to_anthropic(r, e) \in Progress
  <1>0. /\ Mark("message_stop") \in Unit
        /\ \A v : U("message_delta", 0, StopReason(v)) \in Unit
    BY DEF Mark, U, Unit, Kinds, StopReason
  <1>1. CASE e.k = "done"
    <2>1. Out(close_anthropic_blocks(r), Mark("message_stop")) \in Progress
      BY <1>0, CloseIs, OutIs
    <2> QED
      BY <1>1, <2>1 DEF openai_chunk_to_anthropic
  <1>2. CASE e.k # "done"
    <2> DEFINE q == MessageStart(r)
    <2>1. q \in Progress
      BY StartIs
    <2>2. openai_chunk_to_anthropic(r, e) =
            CASE e.k = "text" -> TextDelta(q, e)
              [] e.k = "call" -> ToolStart(q, e)
              [] e.k = "args" -> ToolDelta(q, e)
              [] e.k = "callargs" -> ToolDelta(ToolStart(q, e), e)
              [] e.k = "finish" -> Out(close_anthropic_blocks(q), U("message_delta", 0, StopReason(e.v)))
              [] OTHER -> q
      BY <1>2 DEF openai_chunk_to_anthropic
    <2> HIDE DEF q
    <2>3. TextDelta(q, e) \in Progress /\ ToolStart(q, e) \in Progress /\ ToolDelta(q, e) \in Progress
      BY <2>1, TextIs, ToolIs
    <2>4. ToolDelta(ToolStart(q, e), e) \in Progress
      BY <2>3, ToolIs
    <2>5. close_anthropic_blocks(q) \in Progress
      BY <2>1, CloseIs
    <2>6. Out(close_anthropic_blocks(q), U("message_delta", 0, StopReason(e.v))) \in Progress
      BY <1>0, <2>5, OutIs
    <2> QED
      BY <2>1, <2>2, <2>3, <2>4, <2>6
  <1> QED
    BY <1>1, <1>2

\* anthropic_chunk_to_openai leaves a session.
LEMMA AnthropicChunkIs ==
    ASSUME NEW r \in Progress, NEW e \in Unit
    PROVE  anthropic_chunk_to_openai(r, e) \in Progress
  <1>0. /\ Mark("role") \in Unit /\ Mark("done") \in Unit /\ e.v \in Int /\ e.i \in Int
        /\ \A v : U("finish", 0, StopReason(v)) \in Unit
    BY DEF Mark, U, Unit, Kinds, StopReason
  <1>1. /\ r = Progressed(r.s.started, r.s.text, r.s.next, r.s.tools, r.s.open, r.out)
        /\ r.s.started \in BOOLEAN /\ r.s.text \in Int /\ r.s.next \in Nat /\ r.s.tools \in Tables
        /\ r.s.open \in Seq(Int) /\ r.out \in Seq(Unit)
    BY ProgressHas
  <1>2. e.i \in DOMAIN r.s.tools => r.s.tools[e.i] \in Int
    BY <1>0, <1>1, EntryIs
  <1>3. CASE e.k = "message_start"
    <2> DEFINE q == Out(r, Mark("role"))
               yes == TRUE
    <2>1. anthropic_chunk_to_openai(r, e) = WithStarted(q, yes)
      BY <1>3 DEF anthropic_chunk_to_openai, WithStarted
    <2>2. q \in Progress
      BY <1>0, OutIs
    <2>3. yes \in BOOLEAN
      OBVIOUS
    <2> HIDE DEF q, yes
    <2>4. /\ q = Progressed(q.s.started, q.s.text, q.s.next, q.s.tools, q.s.open, q.out)
          /\ q.s.text \in Int /\ q.s.next \in Nat /\ q.s.tools \in Tables /\ q.s.open \in Seq(Int) /\ q.out \in Seq(Unit)
      BY <2>2, ProgressHas
    <2>5. WithStarted(q, yes) = Progressed(yes, q.s.text, q.s.next, q.s.tools, q.s.open, q.out)
      BY <2>4, ChangedStart
    <2>6. Progressed(yes, q.s.text, q.s.next, q.s.tools, q.s.open, q.out) \in Progress
      BY <2>3, <2>4, SessionWith
    <2> QED
      BY <2>1, <2>5, <2>6
  <1>4. CASE e.k = "tool_start"
    <2> DEFINE known == e.i \in DOMAIN r.s.tools
               index == IF known THEN r.s.tools[e.i] ELSE r.s.next
               next == IF known THEN r.s.next ELSE r.s.next + 1
               tools == With(r.s.tools, e.i, index)
               q == WithCall(r, next, tools)
    <2>1. anthropic_chunk_to_openai(r, e) = Out(q, U("call", index, e.v))
      BY <1>4 DEF anthropic_chunk_to_openai, WithCall
    <2>2. index \in Int /\ next \in Nat /\ "call" \in Kinds
      BY <1>1, <1>2 DEF Kinds
    <2> HIDE DEF index
    <2>3. tools \in Tables
      BY <1>0, <1>1, <2>2, EntryIs
    <2> HIDE DEF next, tools
    <2>4. q = Progressed(r.s.started, r.s.text, next, tools, r.s.open, r.out)
      BY <1>1, ChangedCall
    <2>5. Progressed(r.s.started, r.s.text, next, tools, r.s.open, r.out) \in Progress
      BY <1>1, <2>2, <2>3, SessionWith
    <2> HIDE DEF q
    <2>6. U("call", index, e.v) \in Unit
      BY <1>0, <2>2, UnitIs
    <2> QED
      BY <2>1, <2>4, <2>5, <2>6, OutIs
  <1>5. CASE e.k = "text_delta"
    <2>1. U("text", 0, e.v) \in Unit
      BY <1>0 DEF U, Unit, Kinds
    <2> QED
      BY <1>5, <2>1, OutIs DEF anthropic_chunk_to_openai
  <1>6. CASE e.k = "json_delta"
    <2> DEFINE b == IF e.i \in DOMAIN r.s.tools THEN r.s.tools[e.i] ELSE 0
    <2>1. b \in Int /\ "args" \in Kinds
      BY <1>2 DEF Kinds
    <2>2. anthropic_chunk_to_openai(r, e) = Out(r, U("args", b, e.v))
      BY <1>6 DEF anthropic_chunk_to_openai
    <2> HIDE DEF b
    <2>3. U("args", b, e.v) \in Unit
      BY <1>0, <2>1, UnitIs
    <2> QED
      BY <2>2, <2>3, OutIs
  <1>7. CASE e.k = "message_delta"
    BY <1>0, <1>7, OutIs DEF anthropic_chunk_to_openai
  <1>8. CASE e.k = "message_stop"
    BY <1>0, <1>8, OutIs DEF anthropic_chunk_to_openai
  <1>9. CASE e.k \notin {"message_start", "tool_start", "text_delta", "json_delta", "message_delta", "message_stop"}
    BY <1>9 DEF anthropic_chunk_to_openai
  <1> QED
    BY <1>3, <1>4, <1>5, <1>6, <1>7, <1>8, <1>9

-----------------------------------------------------------------------------
(***************************************************************************)
(* Lines, events and their documents.                                      *)
(***************************************************************************)

\* Lines and events are pieces of the text.
LEMMA LinesIs ==
    ASSUME NEW S, NEW s \in Seq(S)
    PROVE  Lines(s) \in Seq(Seq(S)) /\ Events(s) \in Seq(Seq(S))
  <1>1. {p \in 1..Len(s) : s[p] = NL} \in SUBSET (1..Len(s))
    OBVIOUS
  <1>2. BlankLines(s) \in SUBSET (1..Len(s))
    BY DEF BlankLines
  <1> QED
    BY <1>1, <1>2, SplitIs DEF Lines, Events

\* What is before the last line ends.
LEMMA ContentIs ==
    ASSUME NEW S, NEW s \in Seq(S)
    PROVE  \E n \in 0..Len(s) :
              /\ Content(s) = SubSeq(s, 1, n)
              /\ n # 0 => s[n].k \notin {"nl", "cr"}
              /\ \A p \in 1..Len(s) : n < p => s[p].k \in {"nl", "cr"}
  <1> DEFINE P == {0} \cup {p \in 1..Len(s) : s[p].k \notin {"nl", "cr"}}
             n == Max(P)
             L == Len(s)
  <1>1. L \in Nat
    OBVIOUS
  <1>2. P \in SUBSET (0..L) /\ P # {}
    OBVIOUS
  <1>3. Content(s) = SubSeq(s, 1, n)
    BY DEF Content
  <1>4. \A p \in P : p # 0 => s[p].k \notin {"nl", "cr"}
    OBVIOUS
  <1>5. \A p \in 1..L : p \notin P => s[p].k \in {"nl", "cr"}
    OBVIOUS
  <1> HIDE DEF P, L
  <1>6. n \in P /\ n \in 0..L /\ \A y \in P : y <= n
    BY <1>1, <1>2, LastPlace
  <1> HIDE DEF n
  <1>7. n \in 0..Len(s)
    BY <1>6 DEF L
  <1>8. n # 0 => s[n].k \notin {"nl", "cr"}
    BY <1>4, <1>6
  <1>9. \A p \in 1..Len(s) : n < p => s[p].k \in {"nl", "cr"}
    <2> SUFFICES ASSUME NEW p \in 1..Len(s), n < p PROVE s[p].k \in {"nl", "cr"}
      OBVIOUS
    <2>1. p \notin P
      <3> SUFFICES ASSUME p \in P PROVE FALSE
        OBVIOUS
      <3>1. p <= n /\ n \in Int /\ p \in Int
        BY <1>6, <1>7
      <3> QED
        BY <3>1
    <2> QED
      BY <1>5, <2>1 DEF L
  <1> QED
    BY <1>3, <1>7, <1>8, <1>9

\* The content of a line is text.
LEMMA ContentType ==
    ASSUME NEW S, NEW s \in Seq(S)
    PROVE  Content(s) \in Seq(S)
  <1>1. PICK n \in 0..Len(s) : Content(s) = SubSeq(s, 1, n)
    BY ContentIs
  <1> QED
    BY <1>1, Halves

\* The members of a document are units, of the kinds that stand in it.
LEMMA MembersAre ==
    ASSUME NEW s \in Seq(Unit)
    PROVE  /\ Members(s) \in Seq(Unit)
           /\ \A n \in 1..Len(Members(s)) :
                \E p \in 1..Len(s) : p \in 2..(Len(s) - 1) /\ s[p].k \notin {"pad", "wide", "bad"}
                                   /\ Members(s)[n].k = s[p].k
  <1> DEFINE L == Len(s)
             I == {p \in 2..(L - 1) : s[p].k \notin {"pad", "wide", "bad"}}
             t == [p \in 1..L |-> Member(s, p)]
  <1>1. ASSUME NEW p \in 1..L PROVE Member(s, p) \in Unit /\ Member(s, p).k = s[p].k
    <2> DEFINE u == s[p]
               w == [u EXCEPT !.v = -u.v]
    <2>1. u \in Unit
      OBVIOUS
    <2>2. Member(s, p) = u \/ Member(s, p) = w
      BY DEF Member
    <2>3. w \in Unit /\ w.k = u.k
      <3> HIDE DEF u
      <3>1. -u.v \in Int
        BY <2>1 DEF Unit
      <3> QED
        BY <2>1, <3>1 DEF Unit
    <2> QED
      BY <2>1, <2>2, <2>3
  <1>2. L \in Nat
    OBVIOUS
  <1>3. Members(s) = At(t, I)
    BY DEF Members
  <1>4. t \in Seq(Unit) /\ Len(t) = L /\ \A p \in 1..L : t[p].k = s[p].k
    <2>1. t \in [1..L -> Unit]
      BY <1>1
    <2> HIDE DEF L
    <2> QED
      BY <1>1, <1>2, <2>1
  <1> HIDE DEF t, I, L
  <1>5. At(t, I) \in Seq(Unit) /\ \A n \in 1..Len(At(t, I)) : \E p \in 1..Len(t) : p \in I /\ At(t, I)[n] = t[p]
    <2>1. t \in Seq(Unit)
      BY <1>4
    <2> SUFFICES ASSUME NEW u \in Seq(Unit), NEW J
                 PROVE  /\ At(u, J) \in Seq(Unit)
                        /\ \A n \in 1..Len(At(u, J)) : \E p \in 1..Len(u) : p \in J /\ At(u, J)[n] = u[p]
      BY <2>1
    <2> QED
      BY AtHas
  <1>6. ASSUME NEW n \in 1..Len(Members(s))
        PROVE  \E p \in 1..L : p \in I /\ Members(s)[n].k = s[p].k
    <2>1. PICK p \in 1..Len(t) : p \in I /\ At(t, I)[n] = t[p]
      BY <1>3, <1>5
    <2> QED
      BY <1>3, <1>4, <2>1
  <1> QED
    BY <1>3, <1>5, <1>6 DEF I, L

\* What the `data:` lines of an event have is members, and so is what is taken of them.
LEMMA DocumentsIs ==
    ASSUME NEW s \in Seq(Unit), NEW origin
    PROVE  parse_sse_event(s, origin) \in Seq(Unit)
  <1> DEFINE ls == Lines(s)
             Document == [line \in Range(ls) |->
                CASE line[1] # OPEN -> << >>
                  [] line[1] = OPEN /\ IsDoc(Content(line)) -> <<Members(Content(line))>>
                  [] OTHER -> << << >> >>]
             q == [n \in 1..Len(ls) |-> Document[ls[n]]]
  <1>1. ls \in Seq(Seq(Unit))
    BY LinesIs
  <1>2. Documents(s) = FlattenSeq(q)
    BY DEF Documents
  <1> HIDE DEF ls
  <1>3. ASSUME NEW n \in 1..Len(ls) PROVE Document[ls[n]] \in Seq(Seq(Unit))
    <2>1. ls[n] \in Range(ls) /\ ls[n] \in Seq(Unit)
      BY <1>1 DEF Range
    <2> DEFINE m == Members(Content(ls[n]))
               none == << >>
    <2>2. m \in Seq(Unit) /\ none \in Seq(Unit)
      <3>1. Content(ls[n]) \in Seq(Unit)
        BY <2>1, ContentType
      <3> QED
        BY <3>1, MembersAre
    <2>3. Document[ls[n]] \in {<< >>, <<m>>, <<none>>}
      <3>1. Document[ls[n]] =
                CASE ls[n][1] # OPEN -> << >>
                  [] ls[n][1] = OPEN /\ IsDoc(Content(ls[n])) -> <<m>>
                  [] OTHER -> <<none>>
        BY <2>1
      <3> HIDE DEF m, Document, none
      <3> QED
        BY <3>1
    <2> HIDE DEF m, Document, none
    <2>4. <<m>> \in Seq(Seq(Unit)) /\ <<none>> \in Seq(Seq(Unit)) /\ << >> \in Seq(Seq(Unit))
      BY <2>2
    <2> QED
      BY <2>3, <2>4
  <1> HIDE DEF Document
  <1>4. Len(ls) \in Nat
    BY <1>1
  <1>5. q \in Seq(Seq(Seq(Unit)))
    BY <1>3, <1>4
  <1> HIDE DEF q
  <1>6. Documents(s) \in Seq(Seq(Unit))
    BY <1>2, <1>5, FlattenHas
  <1> DEFINE d == Documents(s)
  <1>7. parse_sse_event(s, origin) \in {<< >>, d[1], d[Len(d)]} /\ (d = << >> => parse_sse_event(s, origin) = << >>)
    BY DEF parse_sse_event
  <1> HIDE DEF d
  <1>8. d \in Seq(Seq(Unit))
    BY <1>6 DEF d
  <1>9. d # << >> => d[1] \in Seq(Unit) /\ d[Len(d)] \in Seq(Unit)
    <2> SUFFICES ASSUME d # << >> PROVE d[1] \in Seq(Unit) /\ d[Len(d)] \in Seq(Unit)
      OBVIOUS
    <2>1. 1 \in 1..Len(d) /\ Len(d) \in 1..Len(d)
      BY <1>8, EmptySeq
    <2> QED
      BY <1>8, <2>1
  <1>10. << >> \in Seq(Unit)
    OBVIOUS
  <1> QED
    BY <1>7, <1>9, <1>10

\* One event leaves a session.
LEMMA TranslatedIs ==
    ASSUME NEW r \in Progress, NEW event \in Seq(Unit), NEW m \in Seq(Unit), NEW origin, NEW client
    PROVE  Translated(r, event, m, origin, client) \in Progress
  <1>1. rewrite_model_in_sse(r, event) \in Progress
    <2> DEFINE blank == <<NL, NL>>
               w == r.out \o Content(event) \o blank
    <2>1. blank \in Seq(Unit)
      <3>1. NL \in Unit
        BY DEF NL, Mark, U, Unit, Kinds
      <3> QED
        BY <3>1
    <2>2. rewrite_model_in_sse(r, event) = [r EXCEPT !.out = w]
      BY DEF rewrite_model_in_sse
    <2> HIDE DEF blank
    <2>3. r.out \in Seq(Unit) /\ Content(event) \in Seq(Unit)
      BY ProgressHas, ContentType
    <2>4. r.out \o Content(event) \in Seq(Unit)
      BY <2>3, ConcatProperties
    <2>5. w \in Seq(Unit)
      BY <2>1, <2>4, ConcatProperties
    <2> HIDE DEF w
    <2>6. [r EXCEPT !.out = w] = [s |-> r.s, out |-> w]
      BY DEF Progress
    <2>7. r.s \in Session
      BY ProgressHas
    <2> QED
      BY <2>2, <2>5, <2>6, <2>7 DEF Progress
  <1>2. m # << >> => m[1] \in Unit
    <2> SUFFICES ASSUME m # << >> PROVE m[1] \in Unit
      OBVIOUS
    <2>1. 1 \in 1..Len(m)
      BY EmptySeq
    <2> QED
      BY <2>1
  <1>3. m # << >> => openai_chunk_to_anthropic(r, m[1]) \in Progress /\ anthropic_chunk_to_openai(r, m[1]) \in Progress
    BY <1>2, OpenaiChunkIs, AnthropicChunkIs
  <1>4. CASE origin = client
    BY <1>1, <1>4 DEF Translated
  <1>5. CASE origin # client /\ m = << >>
    BY <1>5 DEF Translated
  <1>6. CASE origin # client /\ m # << >> /\ origin = "openai"
    BY <1>3, <1>6 DEF Translated
  <1>7. CASE origin # client /\ m # << >> /\ origin # "openai"
    BY <1>3, <1>7 DEF Translated
  <1> QED
    BY <1>4, <1>5, <1>6, <1>7

\* A chunk leaves a session.
LEMMA RewriteIs ==
    ASSUME NEW s \in Session, NEW chunk \in Seq(Unit), NEW origin, NEW client
    PROVE  rewrite(s, chunk, origin, client) \in Progress
  <1> DEFINE es == Events(chunk)
             Doc == [e \in Range(es) |-> parse_sse_event(e, origin)]
  <1> DEFINE N == Len(es)
             V == Progress
             G(n, t) == IF IsBlank(es[n]) THEN t ELSE Translated(t, es[n], Doc[es[n]], origin, client)
             F == [n \in 1..N |-> [t \in V |-> G(n, t)]]
             first == [s |-> s, out |-> << >>]
             Rec(f) == f = [n \in 0..N |-> IF n = 0 THEN first ELSE G(n, f[n - 1])]
             upto == CHOOSE f : Rec(f)
  <1>1. N \in Nat
    BY LinesIs
  <1>2. first \in V
    BY DEF Progress
  <1>3. \A n \in 1..N, t \in V : G(n, t) \in V
    <2> SUFFICES ASSUME NEW n \in 1..N, NEW t \in V PROVE G(n, t) \in V
      OBVIOUS
    <2>1. es \in Seq(Seq(Unit))
      BY LinesIs
    <2> HIDE DEF es
    <2>2. es[n] \in Range(es) /\ es[n] \in Seq(Unit)
      BY <2>1 DEF Range
    <2>3. Doc[es[n]] = parse_sse_event(es[n], origin)
      BY <2>2
    <2> HIDE DEF Doc
    <2>4. Doc[es[n]] \in Seq(Unit)
      BY <2>2, <2>3, DocumentsIs
    <2>5. Translated(t, es[n], Doc[es[n]], origin, client) \in Progress
      BY <2>2, <2>4, TranslatedIs
    <2> QED
      BY <2>5
  <1>4. rewrite(s, chunk, origin, client) = upto[N]
    BY DEF rewrite
  <1> HIDE DEF N, G, V, first
  <1>5. F \in StepsOf(N, V)
    BY <1>3 DEF StepsOf
  <1>6. \A n \in 1..N, t \in V : F[n][t] = G(n, t)
    OBVIOUS
  <1> HIDE DEF F
  <1>7. PICK f \in [0..N -> V] : Stepwise(f, N, first, F)
    BY <1>1, <1>2, <1>5, Recursion
  <1>8. f[0] = first /\ \A n \in 1..N : f[n] = F[n][f[n - 1]]
    BY <1>7 DEF Stepwise
  <1>9. \A n \in 1..N : f[n] = G(n, f[n - 1])
    <2> SUFFICES ASSUME NEW n \in 1..N PROVE f[n] = G(n, f[n - 1])
      OBVIOUS
    <2>1. n - 1 \in 0..N
      BY <1>1
    <2>2. f[n - 1] \in V
      BY <2>1
    <2> QED
      BY <1>6, <1>8, <2>2
  <1>10. Rec(f)
    <2>1. \A n \in 0..N : f[n] = IF n = 0 THEN first ELSE G(n, f[n - 1])
      <3> SUFFICES ASSUME NEW n \in 0..N PROVE f[n] = IF n = 0 THEN first ELSE G(n, f[n - 1])
        OBVIOUS
      <3>1. CASE n = 0
        BY <1>8, <3>1
      <3>2. CASE n # 0
        <4>1. n \in 1..N
          BY <1>1, <3>2
        <4> QED
          BY <1>9, <3>2, <4>1
      <3> QED
        BY <3>1, <3>2
    <2> QED
      BY <2>1
  <1>11. Rec(upto)
    BY <1>10
  <1> HIDE DEF upto
  <1>12. upto[0] = first
    BY <1>1, <1>11
  <1>13. \A n \in 1..N : upto[n] = G(n, upto[n - 1])
    <2> SUFFICES ASSUME NEW n \in 1..N PROVE upto[n] = G(n, upto[n - 1])
      OBVIOUS
    <2>1. n \in 0..N /\ n # 0
      BY <1>1
    <2> QED
      BY <1>11, <2>1
  <1>14. \A n \in 0..N : upto[n] \in V
    <2> DEFINE T == {k \in 0..N : upto[k] \in V}
    <2>1. 0 \in T
      BY <1>1, <1>2, <1>12
    <2>2. ASSUME NEW k \in 0..(N - 1), k \in T PROVE k + 1 \in T
      <3>1. k + 1 \in 1..N /\ k + 1 \in 0..N /\ (k + 1) - 1 = k
        BY <1>1
      <3> QED
        BY <1>3, <1>13, <2>2, <3>1
    <2>3. \A k \in 0..N : k \in T
      <3> HIDE DEF T
      <3> QED
        BY <1>1, <2>1, <2>2, UpTo
    <2> QED
      BY <2>3
  <1>15. upto \in [0..N -> V]
    BY <1>11, <1>14
  <1>16. N \in 0..N
    BY <1>1
  <1> QED
    BY <1>4, <1>14, <1>16 DEF V

-----------------------------------------------------------------------------
(***************************************************************************)
(* Tool listings, frames and chunks.                                       *)
(***************************************************************************)

\* A unit that may be shown to an agent of the host.
MayShow(host, u) == u.k = "tool" => u.v # 0 /\ tool_is_visible(host, u.v)

\* A filtered listing has nothing that was not there, and no tool that may not be seen.
LEMMA FilterIs ==
    ASSUME NEW host, NEW doc \in Seq(Unit)
    PROVE  /\ filter_tools_list(host, doc) \in Seq(Unit)
           /\ \A n \in 1..Len(filter_tools_list(host, doc)) :
                 /\ \E p \in 1..Len(doc) : filter_tools_list(host, doc)[n] = doc[p]
                 /\ ~HasBatch(doc) => MayShow(host, filter_tools_list(host, doc)[n])
  <1> DEFINE I == {p \in 1..Len(doc) : doc[p].k = "tool" => doc[p].v # 0 /\ tool_is_visible(host, doc[p].v)}
             t == filter_tools_list(host, doc)
  <1>1. t = IF HasBatch(doc) THEN doc ELSE At(doc, I)
    BY DEF filter_tools_list, HasBatch
  <1>2. \A p \in I : MayShow(host, doc[p])
    BY DEF MayShow
  <1> HIDE DEF I, t
  <1>3. CASE HasBatch(doc)
    BY <1>1, <1>3 DEF t
  <1>4. CASE ~HasBatch(doc)
    <2>1. t = At(doc, I)
      BY <1>1, <1>4
    <2>2. t \in Seq(Unit) /\ \A n \in 1..Len(t) : \E p \in 1..Len(doc) : p \in I /\ t[n] = doc[p]
      BY <2>1, AtHas
    <2>3. \A n \in 1..Len(t) : MayShow(host, t[n])
      BY <1>2, <2>2
    <2> QED
      BY <2>2, <2>3 DEF t
  <1> QED
    BY <1>3, <1>4

\* A line that the filter lets by as it is.
LeftAlone(s, u) ==
    \E n \in 1..Len(Lines(s)) :
        /\ u \in Range(Lines(s)[n])
        /\ ~IsDoc(Content(Lines(s)[n])) \/ HasBatch(Content(Lines(s)[n]))

\* What is in a line is in the chunk.
LEMMA LineHas ==
    ASSUME NEW S, NEW s \in Seq(S), NEW n \in 1..Len(Lines(s)), NEW j \in 1..Len(Lines(s)[n])
    PROVE  \E p \in 1..Len(s) : Lines(s)[n][j] = s[p]
  <1> DEFINE ends == {p \in 1..Len(s) : s[p] = NL}
             C == Cuts(s, ends)
             a == Cut(C, n - 1)
             b == Cut(C, n)
             L == Len(s)
  <1>1. ends \in SUBSET (1..L)
    OBVIOUS
  <1>2. Lines(s) = Split(s, ends)
    BY DEF Lines
  <1> HIDE DEF ends
  <1>3. C \in SUBSET (1..L) /\ Cardinality(C) = Len(Lines(s)) /\ Lines(s)[n] = SubSeq(s, a + 1, b)
    BY <1>1, <1>2, SplitIs, SMTT(30)
  <1> HIDE DEF C
  <1>4. L \in Nat /\ n \in 1..Cardinality(C)
    BY <1>3
  <1>5. n - 1 \in 0..Cardinality(C) /\ a < b
    BY <1>3, <1>4, CutsInOrder
  <1>6. a \in 0..L /\ b \in 0..L
    <2>1. Cardinality(C) \in Nat
      BY <1>3, <1>4, RankType
    <2>2. n \in 0..Cardinality(C)
      BY <1>4, <2>1
    <2> QED
      BY <1>3, <1>4, <1>5, <2>2, CutIs
  <1> HIDE DEF a, b
  <1>7. Len(SubSeq(s, a + 1, b)) = b - a /\ \A i \in 1..(b - a) : SubSeq(s, a + 1, b)[i] = s[a + i]
    BY <1>5, <1>6, SubSeqProperties
  <1>8. j \in 1..(b - a) /\ Lines(s)[n][j] = s[a + j] /\ a + j \in 1..L
    BY <1>3, <1>5, <1>6, <1>7
  <1> QED
    BY <1>8

\* A filtered chunk has nothing that was not there but ends of lines, and a tool that may not
\* be seen only out of a line that was left alone.
LEMMA FilterChunkIs ==
    ASSUME NEW host, NEW s \in Seq(Unit)
    PROVE  /\ filter_sse_chunk(host, s) \in Seq(Unit)
           /\ \A u \in Range(filter_sse_chunk(host, s)) :
                 /\ u \in Range(s) \/ u = NL
                 /\ MayShow(host, u) \/ LeftAlone(s, u)
  <1> DEFINE ls == Lines(s)
             Kept(line) == filter_tools_list(host, Content(line))
             New(line) == IF IsDoc(Content(line)) /\ Kept(line) # Content(line) THEN Kept(line) \o <<NL>> ELSE line
             Filtered == [line \in Range(ls) |-> New(line)]
             q == [n \in 1..Len(ls) |-> Filtered[ls[n]]]
             Good(u) == (u \in Range(s) \/ u = NL) /\ (MayShow(host, u) \/ LeftAlone(s, u))
  <1>1. ls \in Seq(Seq(Unit))
    BY LinesIs
  <1>2. filter_sse_chunk(host, s) = FlattenSeq(q)
    BY DEF filter_sse_chunk
  <1>3. ASSUME NEW n \in 1..Len(ls)
        PROVE  New(ls[n]) \in Seq(Unit) /\ \A j \in 1..Len(New(ls[n])) : Good(New(ls[n])[j])
    <2> DEFINE l == ls[n]
               c == Content(l)
               k == Kept(l)
    <2>1. l \in Seq(Unit)
      BY <1>1
    <2>2. \A j \in 1..Len(l) : l[j] \in Range(s)
      BY LineHas DEF Range
    <2>3. c \in Seq(Unit) /\ \A j \in 1..Len(c) : j \in 1..Len(l) /\ c[j] = l[j]
      <3>1. PICK m \in 0..Len(l) : c = SubSeq(l, 1, m)
        BY <2>1, ContentIs, SMTT(30)
      <3> HIDE DEF l
      <3>2. c \in Seq(Unit) /\ Len(c) = m /\ \A p \in 1..m : c[p] = l[p]
        BY <2>1, <3>1, Halves
      <3> QED
        BY <2>1, <3>1, <3>2
    <2>4. /\ k \in Seq(Unit)
          /\ \A j \in 1..Len(k) : (\E p \in 1..Len(c) : k[j] = c[p]) /\ (~HasBatch(c) => MayShow(host, k[j]))
      <3> HIDE DEF c
      <3> QED
        BY <2>3, FilterIs DEF c
    <2>5. \A j \in 1..Len(l) : l[j] \in Range(l)
      BY DEF Range
    <2>6. (~IsDoc(c) \/ HasBatch(c)) => \A j \in 1..Len(l) : LeftAlone(s, l[j])
      BY <2>5 DEF LeftAlone
    <2>7. \A j \in 1..Len(k) : k[j] \in Range(s) /\ \E p \in 1..Len(l) : k[j] = l[p]
      BY <2>2, <2>3, <2>4
    <2>8. NL \in Unit /\ MayShow(host, NL)
      BY DEF NL, Mark, U, Unit, Kinds, MayShow
    <2> HIDE DEF l, c, k
    <2>9. CASE IsDoc(c) /\ k # c
      <3>1. New(ls[n]) = k \o <<NL>>
        BY <2>9 DEF l, c, k
      <3>2. <<NL>> \in Seq(Unit) /\ Len(<<NL>>) = 1 /\ <<NL>>[1] = NL
        BY <2>8
      <3> DEFINE e == <<NL>>
      <3> HIDE DEF e
      <3>3. /\ k \o e \in Seq(Unit) /\ Len(k \o e) = Len(k) + 1
            /\ \A j \in 1..(Len(k) + 1) : (k \o e)[j] = IF j <= Len(k) THEN k[j] ELSE e[j - Len(k)]
        BY <2>4, <3>2, ConcatProperties DEF e
      <3>4. \A j \in 1..Len(k) : Good(k[j])
        <4> SUFFICES ASSUME NEW j \in 1..Len(k) PROVE Good(k[j])
          OBVIOUS
        <4>1. CASE HasBatch(c)
          BY <2>6, <2>7, <4>1
        <4>2. CASE ~HasBatch(c)
          BY <2>4, <2>7, <4>2
        <4> QED
          BY <4>1, <4>2
      <3>5. Good(NL)
        BY <2>8
      <3> HIDE DEF Good
      <3>6. \A j \in 1..Len(k \o e) : Good((k \o e)[j])
        <4> SUFFICES ASSUME NEW j \in 1..Len(k \o e) PROVE Good((k \o e)[j])
          OBVIOUS
        <4>1. Len(k) \in Nat
          BY <2>4
        <4>2. CASE j <= Len(k)
          BY <3>3, <3>4, <4>1, <4>2
        <4>3. CASE ~(j <= Len(k))
          <5>1. j = Len(k) + 1 /\ j - Len(k) = 1
            BY <3>3, <4>1, <4>3
          <5>2. (k \o e)[j] = e[1]
            BY <3>3, <4>1, <4>3, <5>1
          <5> QED
            BY <3>2, <3>5, <5>2 DEF e
        <4> QED
          BY <4>2, <4>3
      <3> QED
        BY <3>1, <3>3, <3>6 DEF e
    <2>10. CASE ~(IsDoc(c) /\ k # c)
      <3>1. New(ls[n]) = l
        BY <2>10 DEF l, c, k
      <3>2. \A j \in 1..Len(l) : Good(l[j])
        <4> SUFFICES ASSUME NEW j \in 1..Len(l) PROVE Good(l[j])
          OBVIOUS
        <4>1. CASE ~IsDoc(c) \/ HasBatch(c)
          BY <2>2, <2>6, <4>1
        <4>2. CASE IsDoc(c) /\ ~HasBatch(c)
          <5>1. k = c
            BY <2>10, <4>2
          <5>2. CASE j <= Len(c)
            <6>1. j \in 1..Len(c) /\ c[j] = l[j]
              BY <2>1, <2>3, <5>2
            <6>2. MayShow(host, k[j])
              BY <2>4, <4>2, <5>1, <6>1
            <6> QED
              BY <2>2, <5>1, <6>1, <6>2
          <5>3. CASE ~(j <= Len(c))
            <6>1. PICK m \in 0..Len(l) : c = SubSeq(l, 1, m) /\ \A p \in 1..Len(l) : m < p => l[p].k \in {"nl", "cr"}
              BY <2>1, ContentIs DEF c
            <6>2. Len(c) = m
              BY <2>1, <6>1, Halves
            <6>3. l[j].k \in {"nl", "cr"}
              BY <2>1, <5>3, <6>1, <6>2
            <6>4. MayShow(host, l[j])
              BY <6>3 DEF MayShow
            <6> QED
              BY <2>2, <6>4
          <5> QED
            BY <5>2, <5>3
        <4> QED
          BY <4>1, <4>2
      <3> QED
        BY <2>1, <3>1, <3>2
    <2> QED
      BY <2>9, <2>10
  <1> HIDE DEF Good, New
  <1>4. \A n \in 1..Len(ls) : q[n] = New(ls[n])
    <2> SUFFICES ASSUME NEW n \in 1..Len(ls) PROVE q[n] = New(ls[n])
      OBVIOUS
    <2>1. ls[n] \in Range(ls)
      BY DEF Range
    <2> QED
      BY <2>1
  <1>5. Len(ls) \in Nat
    BY <1>1
  <1>6. q \in Seq(Seq(Unit)) /\ Len(q) = Len(ls)
    <2>1. \A n \in 1..Len(ls) : Filtered[ls[n]] \in Seq(Unit)
      BY <1>3, <1>4
    <2> HIDE DEF Filtered
    <2> QED
      BY <1>5, <2>1
  <1> HIDE DEF q, ls
  <1>7. FlattenSeq(q) \in Seq(Unit) /\ MadeOf(q, FlattenSeq(q))
    BY <1>6, FlattenHas
  <1>8. \A u \in Range(FlattenSeq(q)) : Good(u)
    <2> SUFFICES ASSUME NEW u \in Range(FlattenSeq(q)) PROVE Good(u)
      OBVIOUS
    <2>1. PICK n \in 1..Len(FlattenSeq(q)) : u = FlattenSeq(q)[n]
      BY <1>7 DEF Range
    <2>2. PICK i \in 1..Len(q) : \E j \in 1..Len(q[i]) : u = q[i][j]
      BY <1>7, <2>1 DEF MadeOf
    <2> QED
      BY <1>3, <1>4, <1>6, <2>2
  <1> QED
    BY <1>2, <1>7, <1>8 DEF Good

\* A frame as text is as long, and has no other units but replacements.
LEMMA LossyIs ==
    ASSUME NEW f \in Seq(Unit)
    PROVE  Lossy(f) \in Seq(Unit) /\ Len(Lossy(f)) = Len(f)
  <1>1. Mark("bad") \in Unit
    BY DEF Mark, U, Unit, Kinds
  <1>2. Len(f) \in Nat
    OBVIOUS
  <1> DEFINE x(p) == IF \/ f[p] = WIDE[1] /\ (p = Len(f) \/ f[p + 1] # WIDE[2])
                        \/ f[p] = WIDE[2] /\ (p = 1 \/ f[p - 1] # WIDE[1])
                     THEN Mark("bad") ELSE f[p]
  <1>3. \A p \in 1..Len(f) : x(p) \in Unit
    BY <1>1
  <1>4. Lossy(f) = [p \in 1..Len(f) |-> x(p)]
    BY DEF Lossy
  <1> HIDE DEF x
  <1> QED
    BY <1>2, <1>3, <1>4

\* What is ready and what is held back of the part of a stream that has come.
LEMMA CutIsHalves ==
    ASSUME NEW S, NEW s \in Seq(S), NEW p \in 0..Len(s)
    PROVE  /\ CutAt(s, p).ready = SubSeq(s, 1, p) /\ CutAt(s, p).rest = SubSeq(s, p + 1, Len(s))
           /\ CutAt(s, p).ready \in Seq(S) /\ CutAt(s, p).rest \in Seq(S)
           /\ Len(CutAt(s, p).ready) = p /\ Len(CutAt(s, p).rest) = Len(s) - p
  BY Halves DEF CutAt

\* Where a chunk ends: at the last blank line, or nowhere, or where the stream is over the cap.
ChunkEnd(s, cap) ==
    IF BlankLines(s) # {} THEN Max(BlankLines(s)) ELSE IF Len(s) > cap THEN Len(s) ELSE 0

\* next_sse_chunk cuts at ChunkEnd: after the last blank line, or everything or nothing.
LEMMA NextChunkIs ==
    ASSUME NEW s \in Seq(Unit), NEW cap \in Nat
    PROVE  /\ next_sse_chunk(s, cap) = CutAt(s, ChunkEnd(s, cap))
           /\ ChunkEnd(s, cap) \in 0..Len(s)
           /\ BlankLines(s) # {} => ChunkEnd(s, cap) \in BlankLines(s)
           /\ \A p \in BlankLines(s) : p <= ChunkEnd(s, cap)
           /\ BlankLines(s) = {} => ChunkEnd(s, cap) = IF Len(s) > cap THEN Len(s) ELSE 0
  <1> DEFINE E == BlankLines(s)
             L == Len(s)
  <1>1. L \in Nat
    OBVIOUS
  <1>2. E \in SUBSET (0..L)
    BY DEF BlankLines
  <1> HIDE DEF E, L
  <1>3. CASE E # {}
    <2>1. Max(E) \in E /\ Max(E) \in 0..L /\ \A y \in E : y <= Max(E)
      BY <1>1, <1>2, <1>3, LastPlace
    <2>2. ChunkEnd(s, cap) = Max(E)
      BY <1>3 DEF ChunkEnd, E
    <2>3. next_sse_chunk(s, cap) = CutAt(s, Max(E))
      BY <1>3 DEF next_sse_chunk, E
    <2> QED
      BY <1>3, <2>1, <2>2, <2>3 DEF E, L
  <1>4. CASE E = {}
    <2>1. ChunkEnd(s, cap) = IF L > cap THEN L ELSE 0
      BY <1>4 DEF ChunkEnd, E, L
    <2>2. next_sse_chunk(s, cap) = CutAt(s, IF L > cap THEN L ELSE 0)
      BY <1>4 DEF next_sse_chunk, E, L
    <2> QED
      BY <1>1, <1>4, <2>1, <2>2 DEF E, L
  <1> QED
    BY <1>3, <1>4

\* What is held back has no blank line, and is within the cap or no longer than the frame.
LEMMA HeldBackIs ==
    ASSUME NEW s \in Seq(Unit), BlankLines(s) = {}, NEW f \in Seq(Unit), NEW cap \in Nat
    PROVE  LET held == next_sse_chunk(s \o f, cap).rest
           IN  /\ held \in Seq(Unit) /\ BlankLines(held) = {}
               /\ Len(held) <= cap \/ Len(held) <= Len(f)
  <1> DEFINE t == s \o f
             e == ChunkEnd(t, cap)
             held == SubSeq(t, e + 1, Len(t))
  <1>1. /\ t \in Seq(Unit) /\ Len(t) = Len(s) + Len(f)
        /\ \A p \in 1..Len(t) : t[p] = IF p <= Len(s) THEN s[p] ELSE f[p - Len(s)]
    BY ConcatProperties
  <1>2. Len(s) \in Nat /\ Len(f) \in Nat
    OBVIOUS
  <1> HIDE DEF t
  <1>3. /\ next_sse_chunk(t, cap) = CutAt(t, e) /\ e \in 0..Len(t)
        /\ BlankLines(t) # {} => e \in BlankLines(t)
        /\ \A p \in BlankLines(t) : p <= e
        /\ BlankLines(t) = {} => e = IF Len(t) > cap THEN Len(t) ELSE 0
    BY <1>1, NextChunkIs
  <1> HIDE DEF e
  <1>4. next_sse_chunk(t, cap).rest = held /\ held \in Seq(Unit) /\ Len(held) = Len(t) - e
    <2>1. t \in Seq(Unit) /\ e \in 0..Len(t)
      BY <1>1, <1>3
    <2>2. CutAt(t, e).rest = held /\ CutAt(t, e).rest \in Seq(Unit) /\ Len(CutAt(t, e).rest) = Len(t) - e
      BY <2>1, CutIsHalves
    <2> QED
      BY <1>3, <2>2
  <1>5. \A p \in 1..(Len(t) - e) : held[p] = t[e + p]
    BY <1>1, <1>3, Halves
  <1> HIDE DEF held
  <1>6. BlankLines(held) = {}
    <2> SUFFICES ASSUME NEW p \in BlankLines(held) PROVE FALSE
      OBVIOUS
    <2>1. p \in 2..(Len(t) - e) /\ held[p] = NL /\ held[p - 1] = NL
      BY <1>4 DEF BlankLines
    <2>2. t[e + p] = NL /\ t[e + (p - 1)] = NL /\ e + p \in 2..Len(t) /\ (e + p) - 1 = e + (p - 1)
      <3>1. e \in Nat /\ Len(t) \in Nat /\ p \in Nat /\ p >= 2 /\ p <= Len(t) - e
        BY <1>1, <1>3, <2>1
      <3>2. p \in 1..(Len(t) - e) /\ p - 1 \in 1..(Len(t) - e) /\ e + p \in 2..Len(t) /\ (e + p) - 1 = e + (p - 1)
        BY <3>1
      <3> QED
        BY <1>5, <2>1, <3>2
    <2>3. e + p \in BlankLines(t)
      BY <2>2 DEF BlankLines
    <2> QED
      BY <1>3, <2>1, <2>3
  <1>7. Len(held) <= cap \/ Len(held) <= Len(f)
    <2>1. CASE BlankLines(t) = {}
      BY <1>1, <1>2, <1>3, <1>4, <2>1
    <2>2. CASE BlankLines(t) # {}
      <3>1. e \in 2..Len(t) /\ t[e] = NL /\ t[e - 1] = NL
        BY <1>3, <2>2 DEF BlankLines
      <3>2. e > Len(s)
        <4> SUFFICES ASSUME e <= Len(s) PROVE FALSE
          BY <1>2, <3>1
        <4>1. e \in 2..Len(s) /\ s[e] = NL /\ s[e - 1] = NL
          BY <1>1, <1>2, <3>1
        <4>2. e \in BlankLines(s)
          BY <4>1 DEF BlankLines
        <4> QED
          BY <4>2
      <3> QED
        BY <1>1, <1>2, <1>4, <3>1, <3>2
    <2> QED
      BY <2>1, <2>2
  <1> QED
    BY <1>4, <1>6, <1>7 DEF t

\* What a transform does to a chunk.
Rewritten(t, r) ==
    IF t.is = "router" THEN rewrite(r.s, r.out, Origin, Client)
    ELSE IF governs(req.host) THEN [r EXCEPT !.out = filter_sse_chunk(req.host, @)] ELSE r

\* Units that are in the chunk or end a line, and may be seen or come from a line left alone.
FromChunk(chunk, out) == \A u \in Range(out) : u \in Range(chunk) \/ u = NL
Shown(chunk, out) == \A u \in Range(out) : MayShow(req.host, u) \/ LeftAlone(chunk, u)

\* One transform on a chunk: the filter adds nothing, and shows only what it may or had to leave alone.
LEMMA RewrittenIs ==
    ASSUME NEW t, NEW r \in Progress, NEW chunk
    PROVE  /\ Rewritten(t, r) \in Progress
           /\ t.is # "router" /\ FromChunk(chunk, r.out) => FromChunk(chunk, Rewritten(t, r).out)
           /\ t.is # "router" /\ Shown(chunk, r.out) => Shown(chunk, Rewritten(t, r).out)
           /\ t.is # "router" /\ governs(req.host) => Shown(r.out, Rewritten(t, r).out)
  <1> DEFINE w == filter_sse_chunk(req.host, r.out)
             q == [r EXCEPT !.out = w]
  <1>1. r.s \in Session /\ r.out \in Seq(Unit)
    BY ProgressHas
  <1>2. /\ w \in Seq(Unit)
        /\ \A u \in Range(w) : (u \in Range(r.out) \/ u = NL) /\ (MayShow(req.host, u) \/ LeftAlone(r.out, u))
    BY <1>1, FilterChunkIs
  <1>3. t.is # "router" /\ governs(req.host) => Rewritten(t, r) = q
    BY DEF Rewritten
  <1>4. t.is # "router" /\ ~governs(req.host) => Rewritten(t, r) = r
    BY DEF Rewritten
  <1>5. t.is = "router" => Rewritten(t, r) \in Progress
    BY <1>1, RewriteIs DEF Rewritten
  <1>6. MayShow(req.host, NL)
    BY DEF NL, Mark, U, MayShow
  <1> HIDE DEF w
  <1>7. q = [s |-> r.s, out |-> w]
    BY DEF Progress
  <1> HIDE DEF q
  <1>8. q \in Progress /\ q.out = w
    BY <1>1, <1>2, <1>7 DEF Progress
  <1>9. Rewritten(t, r) \in Progress
    BY <1>3, <1>4, <1>5, <1>8
  <1>10. ASSUME t.is # "router", FromChunk(chunk, r.out)
         PROVE  FromChunk(chunk, Rewritten(t, r).out)
    BY <1>2, <1>3, <1>4, <1>8, <1>10 DEF FromChunk
  <1>11. ASSUME t.is # "router", Shown(chunk, r.out)
         PROVE  Shown(chunk, Rewritten(t, r).out)
    BY <1>2, <1>3, <1>4, <1>6, <1>8, <1>11 DEF Shown
  <1>12. t.is # "router" /\ governs(req.host) => Shown(r.out, Rewritten(t, r).out)
    BY <1>2, <1>3, <1>8 DEF Shown
  <1> QED
    BY <1>9, <1>10, <1>11, <1>12

\* A chunk through all of them.
LEMMA StepsIs ==
    ASSUME NEW chunk \in Seq(Unit), setup.transforms \in Seq(Transform), sse \in Session
    PROVE  /\ Steps(chunk) \in Progress
           /\ /\ \A n \in 1..Len(setup.transforms) : setup.transforms[n].is # "router"
              /\ governs(req.host) /\ Len(setup.transforms) # 0
              => FromChunk(chunk, Steps(chunk).out) /\ Shown(chunk, Steps(chunk).out)
  <1> DEFINE N == Len(setup.transforms)
             V == Progress
             G(n, t) == Rewritten(setup.transforms[n], t)
             F == [n \in 1..N |-> [t \in V |-> G(n, t)]]
             first == [s |-> sse, out |-> chunk]
             Rec(f) == f = [n \in 0..N |-> IF n = 0 THEN first ELSE G(n, f[n - 1])]
             upto == CHOOSE f : Rec(f)
  <1>1. N \in Nat
    OBVIOUS
  <1>2. first \in V
    BY DEF Progress
  <1>3. \A n \in 1..N, t \in V : G(n, t) \in V
    <2> SUFFICES ASSUME NEW n \in 1..N, NEW t \in V PROVE G(n, t) \in V
      OBVIOUS
    <2>1. Rewritten(setup.transforms[n], t) \in Progress
      BY RewrittenIs
    <2> QED
      BY <2>1
  <1>4. Steps(chunk) = upto[N]
    BY DEF Steps, Rewritten
  <1> HIDE DEF N, G, V, first
  <1>5. F \in StepsOf(N, V)
    BY <1>3 DEF StepsOf
  <1>6. \A n \in 1..N, t \in V : F[n][t] = G(n, t)
    OBVIOUS
  <1> HIDE DEF F
  <1>7. PICK f \in [0..N -> V] : Stepwise(f, N, first, F)
    BY <1>1, <1>2, <1>5, Recursion
  <1>8. f[0] = first /\ \A n \in 1..N : f[n] = F[n][f[n - 1]]
    BY <1>7 DEF Stepwise
  <1>9. \A n \in 1..N : f[n] = G(n, f[n - 1])
    <2> SUFFICES ASSUME NEW n \in 1..N PROVE f[n] = G(n, f[n - 1])
      OBVIOUS
    <2>1. n - 1 \in 0..N
      BY <1>1
    <2>2. f[n - 1] \in V
      BY <2>1
    <2> QED
      BY <1>6, <1>8, <2>2
  <1>10. Rec(f)
    <2>1. \A n \in 0..N : f[n] = IF n = 0 THEN first ELSE G(n, f[n - 1])
      <3> SUFFICES ASSUME NEW n \in 0..N PROVE f[n] = IF n = 0 THEN first ELSE G(n, f[n - 1])
        OBVIOUS
      <3>1. CASE n = 0
        BY <1>8, <3>1
      <3>2. CASE n # 0
        <4>1. n \in 1..N
          BY <1>1, <3>2
        <4> QED
          BY <1>9, <3>2, <4>1
      <3> QED
        BY <3>1, <3>2
    <2> QED
      BY <2>1
  <1>11. Rec(upto)
    BY <1>10
  <1> HIDE DEF upto
  <1>12. upto[0] = first
    BY <1>1, <1>11
  <1>13. \A n \in 1..N : upto[n] = G(n, upto[n - 1])
    <2> SUFFICES ASSUME NEW n \in 1..N PROVE upto[n] = G(n, upto[n - 1])
      OBVIOUS
    <2>1. n \in 0..N /\ n # 0
      BY <1>1
    <2> QED
      BY <1>11, <2>1
  <1>14. \A n \in 0..N : upto[n] \in V
    <2> DEFINE T == {k \in 0..N : upto[k] \in V}
    <2>1. 0 \in T
      BY <1>1, <1>2, <1>12
    <2>2. ASSUME NEW k \in 0..(N - 1), k \in T PROVE k + 1 \in T
      <3>1. k + 1 \in 1..N /\ k + 1 \in 0..N /\ (k + 1) - 1 = k
        BY <1>1
      <3> QED
        BY <1>3, <1>13, <2>2, <3>1
    <2>3. \A k \in 0..N : k \in T
      <3> HIDE DEF T
      <3> QED
        BY <1>1, <2>1, <2>2, UpTo
    <2> QED
      BY <2>3
  <1>15. upto \in [0..N -> V]
    BY <1>11, <1>14
  <1>16. N \in 0..N
    BY <1>1
  <1>17. Steps(chunk) \in Progress
    BY <1>4, <1>14, <1>16 DEF V
  <1>18. ASSUME \A n \in 1..Len(setup.transforms) : setup.transforms[n].is # "router", governs(req.host),
                Len(setup.transforms) # 0
         PROVE  FromChunk(chunk, Steps(chunk).out) /\ Shown(chunk, Steps(chunk).out)
    <2> DEFINE A(r) == FromChunk(chunk, r.out)
               B(r) == Shown(chunk, r.out)
               T == {k \in 0..N : A(upto[k]) /\ (k # 0 => B(upto[k]))}
    <2>1. first.out = chunk
      BY DEF first
    <2>2. \A n \in 1..N : upto[n] = Rewritten(setup.transforms[n], upto[n - 1]) /\ setup.transforms[n].is # "router"
      BY <1>13, <1>18 DEF G, N
    <2>3. 0 \in T
      <3>1. A(upto[0])
        BY <1>12, <2>1 DEF FromChunk
      <3> QED
        BY <1>1, <3>1
    <2>4. ASSUME NEW k \in 0..(N - 1), k \in T PROVE k + 1 \in T
      <3> DEFINE t == setup.transforms[k + 1]
                 r == upto[k]
      <3>1. k + 1 \in 1..N /\ k + 1 \in 0..N /\ (k + 1) - 1 = k /\ k \in 0..N
        BY <1>1
      <3>2. r \in Progress /\ t.is # "router" /\ upto[k + 1] = Rewritten(t, r)
        BY <1>14, <2>2, <3>1 DEF V
      <3>3. A(r) /\ (k # 0 => B(r))
        BY <2>4
      <3> HIDE DEF r, t
      <3>4. A(Rewritten(t, r))
        BY <3>2, <3>3, RewrittenIs
      <3>5. B(Rewritten(t, r))
        <4>1. CASE k = 0
          <5>1. r.out = chunk
            BY <1>12, <2>1, <4>1 DEF r
          <5>2. Shown(r.out, Rewritten(t, r).out)
            BY <1>18, <3>2, RewrittenIs
          <5> QED
            BY <5>1, <5>2
        <4>2. CASE k # 0
          BY <3>2, <3>3, <4>2, RewrittenIs
        <4> QED
          BY <4>1, <4>2
      <3> QED
        BY <3>1, <3>2, <3>4, <3>5
    <2>5. \A k \in 0..N : k \in T
      <3> HIDE DEF T
      <3> QED
        BY <1>1, <2>3, <2>4, UpTo
    <2>6. N \in T /\ N # 0
      BY <1>16, <1>18, <2>5 DEF N
    <2> QED
      BY <1>4, <2>6
  <1> QED
    BY <1>17, <1>18

-----------------------------------------------------------------------------
(***************************************************************************)
(* Whole answers: their text, what limits it, and what the transforms make *)
(* of them.                                                                *)
(***************************************************************************)

\* Without raw bytes and halves of characters, anything is text.
LEMMA PlainIsEncoded ==
    ASSUME NEW s \in Seq(Unit), \A p \in 1..Len(s) : s[p].k \notin {"bin", "wide"}
    PROVE  WellEncoded(s)
  <1>1. WIDE[1].k = "wide" /\ WIDE[2].k = "wide"
    BY DEF WIDE, U
  <1> HIDE DEF WIDE
  <1> QED
    BY <1>1 DEF WellEncoded

\* Text put behind text is text.
LEMMA BothEncoded ==
    ASSUME NEW s \in Seq(Unit), NEW t \in Seq(Unit), WellEncoded(s), WellEncoded(t)
    PROVE  WellEncoded(s \o t)
  <1> DEFINE w == s \o t
             a == Len(s)
             b == Len(t)
  <1>1. a \in Nat /\ b \in Nat
    OBVIOUS
  <1>2. Len(w) = a + b /\ \A p \in 1..(a + b) : w[p] = IF p <= a THEN s[p] ELSE t[p - a]
    BY ConcatProperties
  <1> HIDE DEF w
  <1>3. ASSUME NEW p \in 1..Len(w)
        PROVE  /\ w[p].k # "bin"
               /\ w[p] = WIDE[1] => p < Len(w) /\ w[p + 1] = WIDE[2]
               /\ w[p] = WIDE[2] => p > 1 /\ w[p - 1] = WIDE[1]
    <2>1. CASE p <= a
      <3>1. p \in 1..a /\ w[p] = s[p]
        BY <1>1, <1>2, <2>1
      <3>2. /\ s[p].k # "bin"
            /\ s[p] = WIDE[1] => p < a /\ s[p + 1] = WIDE[2]
            /\ s[p] = WIDE[2] => p > 1 /\ s[p - 1] = WIDE[1]
        BY <3>1 DEF WellEncoded
      <3>3. p < a => p + 1 \in 1..(a + b) /\ p + 1 <= a
        BY <1>1, <3>1
      <3>4. p > 1 => p - 1 \in 1..(a + b) /\ p - 1 <= a
        BY <1>1, <3>1
      <3>5. p < a => w[p + 1] = s[p + 1]
        BY <1>2, <3>3
      <3>6. p > 1 => w[p - 1] = s[p - 1]
        BY <1>2, <3>4
      <3> HIDE DEF WIDE
      <3> QED
        BY <1>1, <1>2, <3>1, <3>2, <3>5, <3>6
    <2>2. CASE ~(p <= a)
      <3> DEFINE i == p - a
      <3>1. i \in 1..b /\ w[p] = t[i]
        BY <1>1, <1>2, <2>2
      <3>2. /\ t[i].k # "bin"
            /\ t[i] = WIDE[1] => i < b /\ t[i + 1] = WIDE[2]
            /\ t[i] = WIDE[2] => i > 1 /\ t[i - 1] = WIDE[1]
        <4> HIDE DEF i
        <4> QED
          BY <3>1 DEF WellEncoded
      <3>3. i < b => p + 1 \in 1..(a + b) /\ ~(p + 1 <= a) /\ (p + 1) - a = i + 1
        BY <1>1, <3>1, <2>2
      <3>4. i > 1 => p - 1 \in 1..(a + b) /\ ~(p - 1 <= a) /\ (p - 1) - a = i - 1
        BY <1>1, <3>1, <2>2
      <3>5. i < b => w[p + 1] = t[i + 1]
        BY <1>2, <3>3
      <3>6. i > 1 => w[p - 1] = t[i - 1] /\ p > 1
        BY <1>1, <1>2, <3>4
      <3>7. i < b => p < a + b
        BY <1>1, <3>1
      <3> HIDE DEF i
      <3> QED
        BY <1>2, <3>1, <3>2, <3>5, <3>6, <3>7
    <2> QED
      BY <2>1, <2>2
  <1> QED
    BY <1>3 DEF WellEncoded, w

\* A part of a text without some of its tools is text.
Halved(t) == t[Len(t)] = WIDE[1]
Encoding(t) ==
    /\ \A p \in 1..Len(t) : t[p].k # "bin" /\ (t[p] = WIDE[2] => p > 1 /\ t[p - 1] = WIDE[1])
    /\ \A p \in 1..(Len(t) - 1) : t[p] = WIDE[1] => t[p + 1] = WIDE[2]

\* Text is well encoded if its units are and it does not end in half a character.
LEMMA Encoded ==
    ASSUME NEW t \in Seq(Unit)
    PROVE  WellEncoded(t) <=> Encoding(t) /\ (t # << >> => ~Halved(t))
  <1>1. Len(t) \in Nat /\ (t = << >> <=> Len(t) = 0)
    BY EmptySeq
  <1> HIDE DEF WIDE
  <1>2. ASSUME WellEncoded(t) PROVE Encoding(t) /\ (t # << >> => ~Halved(t))
    <2>1. \A p \in 1..Len(t) :
            /\ t[p].k # "bin"
            /\ t[p] = WIDE[1] => p < Len(t) /\ t[p + 1] = WIDE[2]
            /\ t[p] = WIDE[2] => p > 1 /\ t[p - 1] = WIDE[1]
      BY <1>2 DEF WellEncoded
    <2>2. Encoding(t)
      BY <1>1, <2>1 DEF Encoding
    <2>3. t # << >> => ~Halved(t)
      <3> SUFFICES ASSUME t # << >>, Halved(t) PROVE FALSE
        OBVIOUS
      <3>1. Len(t) \in 1..Len(t) /\ ~(Len(t) < Len(t))
        BY <1>1
      <3> QED
        BY <2>1, <3>1 DEF Halved
    <2> QED
      BY <2>2, <2>3
  <1>3. ASSUME Encoding(t), t # << >> => ~Halved(t) PROVE WellEncoded(t)
    <2> SUFFICES ASSUME NEW p \in 1..Len(t)
                 PROVE  /\ t[p].k # "bin"
                        /\ t[p] = WIDE[1] => p < Len(t) /\ t[p + 1] = WIDE[2]
                        /\ t[p] = WIDE[2] => p > 1 /\ t[p - 1] = WIDE[1]
      BY DEF WellEncoded
    <2>1. t[p].k # "bin" /\ (t[p] = WIDE[2] => p > 1 /\ t[p - 1] = WIDE[1])
      BY <1>3 DEF Encoding
    <2>2. t[p] = WIDE[1] => p < Len(t) /\ t[p + 1] = WIDE[2]
      <3>1. CASE p = Len(t)
        BY <1>1, <1>3, <3>1 DEF Halved
      <3>2. CASE p # Len(t)
        <4>1. p \in 1..(Len(t) - 1) /\ p < Len(t)
          BY <1>1, <3>2
        <4> QED
          BY <1>3, <4>1 DEF Encoding
      <3> QED
        BY <3>1, <3>2
    <2> QED
      BY <2>1, <2>2
  <1> QED
    BY <1>2, <1>3

\* One more unit.
LEMMA LongerEncoding ==
    ASSUME NEW t \in Seq(Unit), Encoding(t), NEW u \in Unit, u.k # "bin",
           u = WIDE[2] <=> (t # << >> /\ Halved(t))
    PROVE  Encoding(Append(t, u)) /\ (Halved(Append(t, u)) <=> u = WIDE[1]) /\ Append(t, u) # << >>
  <1> DEFINE w == Append(t, u)
             n == Len(t)
  <1>1. n \in Nat /\ (t = << >> <=> n = 0)
    BY EmptySeq
  <1>2. Len(w) = n + 1 /\ w[n + 1] = u /\ \A p \in 1..n : w[p] = t[p]
    BY AppendProperties
  <1>3. w # << >>
    BY AppendProperties
  <1> HIDE DEF w, WIDE
  <1>4. ASSUME NEW p \in 1..Len(w)
        PROVE  w[p].k # "bin" /\ (w[p] = WIDE[2] => p > 1 /\ w[p - 1] = WIDE[1])
    <2>1. CASE p \in 1..n
      <3>1. t[p].k # "bin" /\ (t[p] = WIDE[2] => p > 1 /\ t[p - 1] = WIDE[1])
        BY <2>1 DEF Encoding
      <3>2. p > 1 => p - 1 \in 1..n
        BY <1>1, <2>1
      <3> QED
        BY <1>2, <2>1, <3>1, <3>2
    <2>2. CASE p \notin 1..n
      <3>1. p = n + 1 /\ p - 1 = n
        BY <1>1, <1>2, <2>2
      <3>2. u = WIDE[2] => n \in 1..n /\ t[n] = WIDE[1] /\ n + 1 > 1
        BY <1>1 DEF Halved
      <3> QED
        BY <1>2, <3>1, <3>2
    <2> QED
      BY <2>1, <2>2
  <1>5. ASSUME NEW p \in 1..(Len(w) - 1), w[p] = WIDE[1]
        PROVE  w[p + 1] = WIDE[2]
    <2>1. p \in 1..n /\ w[p] = t[p]
      BY <1>1, <1>2
    <2>2. CASE p = n
      BY <1>1, <1>2, <1>5, <2>1, <2>2 DEF Halved
    <2>3. CASE p # n
      <3>1. p \in 1..(n - 1) /\ p + 1 \in 1..n
        BY <1>1, <2>1, <2>3
      <3>2. t[p + 1] = WIDE[2]
        BY <1>5, <2>1, <3>1 DEF Encoding
      <3> QED
        BY <1>2, <3>1, <3>2
    <2> QED
      BY <2>2, <2>3
  <1>6. Halved(w) <=> u = WIDE[1]
    BY <1>2 DEF Halved
  <1> QED
    BY <1>3, <1>4, <1>5, <1>6 DEF Encoding, w

\* Taking tools out of text that is well encoded leaves such text.
LEMMA FilterEncoded ==
    ASSUME NEW s \in Seq(Unit), WellEncoded(s),
           NEW I, \A p \in 1..Len(s) : p \notin I => s[p].k = "tool"
    PROVE  WellEncoded(At(s, I))
  <1> DEFINE N == Len(s)
             A(k, t) == Encoding(t) /\ ((t # << >> /\ Halved(t)) <=> (k # 0 /\ s[k] = WIDE[1]))
  <1>1. N \in Nat
    OBVIOUS
  <1>2. PICK f \in [0..Len(s) -> Seq(Unit)] : Takes(f, s, I) /\ At(s, I) = f[Len(s)]
    BY AtSteps
  <1>3. f[0] = << >> /\ \A n \in 1..N : f[n] = IF n \in I THEN Append(f[n - 1], s[n]) ELSE f[n - 1]
    BY <1>2 DEF Takes
  <1>4. \A k \in 0..N : f[k] \in Seq(Unit)
    BY <1>2
  <1>5. WIDE[1].k = "wide" /\ WIDE[2].k = "wide" /\ WIDE[1] # WIDE[2]
    BY DEF WIDE, U
  <1>6. \A p \in 1..N : /\ s[p].k # "bin" /\ s[p] \in Unit
                        /\ s[p] = WIDE[1] => p < N /\ s[p + 1] = WIDE[2]
                        /\ s[p] = WIDE[2] => p > 1 /\ s[p - 1] = WIDE[1]
    BY DEF WellEncoded
  <1> HIDE DEF WIDE
  <1> DEFINE T == {k \in 0..N : A(k, f[k])}
  <1>7. 0 \in T
    <2>1. Encoding(<< >>)
      BY DEF Encoding
    <2> QED
      BY <1>1, <1>3, <2>1
  <1>8. ASSUME NEW k \in 0..(N - 1), k \in T PROVE k + 1 \in T
    <2>1. k + 1 \in 1..N /\ k + 1 \in 0..N /\ (k + 1) - 1 = k /\ k \in 0..N /\ (k # 0 => k \in 1..N) /\ k + 1 # 0
      BY <1>1
    <2> DEFINE t == f[k]
               u == s[k + 1]
    <2>2. A(k, t) /\ t \in Seq(Unit)
      BY <1>4, <1>8, <2>1
    <2>3. f[k + 1] = IF k + 1 \in I THEN Append(t, u) ELSE t
      BY <1>3, <2>1
    <2>4. u.k # "bin" /\ u \in Unit /\ (u = WIDE[2] => k + 1 > 1 /\ s[k] = WIDE[1])
      BY <1>6, <2>1
    <2>5. k # 0 /\ s[k] = WIDE[1] => u = WIDE[2]
      BY <1>6, <2>1
    <2>6. k + 1 > 1 => k # 0
      BY <2>1
    <2> HIDE DEF t, u
    <2>7. CASE k + 1 \in I
      <3>1. u = WIDE[2] <=> (t # << >> /\ Halved(t))
        BY <2>2, <2>4, <2>5, <2>6
      <3>2. Encoding(t)
        BY <2>2
      <3>3. Encoding(Append(t, u)) /\ (Halved(Append(t, u)) <=> u = WIDE[1]) /\ Append(t, u) # << >>
        BY <2>2, <2>4, <3>1, <3>2, LongerEncoding
      <3> QED
        BY <2>1, <2>3, <2>7, <3>3 DEF u
    <2>8. CASE k + 1 \notin I
      <3>1. u.k = "tool"
        BY <2>1, <2>8 DEF u
      <3>2. u # WIDE[1] /\ u # WIDE[2]
        BY <1>5, <3>1
      <3>3. ~(t # << >> /\ Halved(t))
        BY <2>2, <2>5, <3>2
      <3> QED
        BY <2>1, <2>2, <2>3, <2>8, <3>2, <3>3 DEF u
    <2> QED
      BY <2>7, <2>8
  <1>9. \A k \in 0..N : k \in T
    <2> HIDE DEF T
    <2> QED
      BY <1>1, <1>7, <1>8, UpTo
  <1>10. A(N, f[N]) /\ N \in 0..N
    BY <1>1, <1>9
  <1>11. ~(N # 0 /\ s[N] = WIDE[1])
    <2>1. N # 0 => N \in 1..N /\ ~(N < N)
      BY <1>1
    <2> QED
      BY <1>6, <2>1
  <1>12. f[N] \in Seq(Unit)
    BY <1>4, <1>10
  <1> QED
    BY <1>2, <1>10, <1>11, <1>12, Encoded

\* A response is translated into some of its own units.
LEMMA OnlyIs ==
    ASSUME NEW s \in Seq(Unit), NEW k
    PROVE  Only(s, k) \in Seq(Unit) /\ Range(Only(s, k)) \subseteq Range(s)
  <1> DEFINE I == {n \in 1..Len(s) : s[n].k = k}
  <1>1. Only(s, k) = At(s, I)
    BY DEF Only
  <1> HIDE DEF I
  <1>2. At(s, I) \in Seq(Unit) /\ \A n \in 1..Len(At(s, I)) : \E p \in 1..Len(s) : p \in I /\ At(s, I)[n] = s[p]
    BY AtHas
  <1> QED
    BY <1>1, <1>2 DEF Range

\* A translated response has nothing the response did not have.
LEMMA TranslateIs ==
    ASSUME NEW origin, NEW client, NEW s \in Seq(Unit)
    PROVE  /\ translate_response(origin, client, s) \in Seq(Unit)
           /\ Range(translate_response(origin, client, s)) \subseteq Range(s)
  <1> DEFINE a == Only(s, "text")
             b == Only(s, "call")
             w == a \o b
  <1>1. a \in Seq(Unit) /\ b \in Seq(Unit) /\ Range(a) \subseteq Range(s) /\ Range(b) \subseteq Range(s)
    BY OnlyIs
  <1>2. translate_response(origin, client, s) \in {s, w}
    BY DEF translate_response, openai_response_to_anthropic, anthropic_response_to_openai, TextThenCalls
  <1> HIDE DEF a, b
  <1>3. /\ w \in Seq(Unit) /\ Len(w) = Len(a) + Len(b)
        /\ \A p \in 1..Len(w) : w[p] = IF p <= Len(a) THEN a[p] ELSE b[p - Len(a)]
    BY <1>1, ConcatProperties
  <1> HIDE DEF w
  <1>4. Range(w) \subseteq Range(s)
    <2> SUFFICES ASSUME NEW p \in 1..Len(w) PROVE w[p] \in Range(s)
      BY DEF Range
    <2>1. Len(a) \in Nat /\ Len(b) \in Nat
      BY <1>1
    <2>2. CASE p <= Len(a)
      <3>1. p \in 1..Len(a) /\ w[p] = a[p]
        BY <1>3, <2>1, <2>2
      <3>2. a[p] \in Range(a)
        BY <3>1 DEF Range
      <3> QED
        BY <1>1, <3>1, <3>2
    <2>3. CASE ~(p <= Len(a))
      <3> DEFINE i == p - Len(a)
      <3>1. i \in 1..Len(b) /\ w[p] = b[i]
        BY <1>3, <2>1, <2>3
      <3> HIDE DEF i
      <3>2. b[i] \in Range(b)
        BY <3>1 DEF Range
      <3> QED
        BY <1>1, <3>1, <3>2
    <2> QED
      BY <2>2, <2>3
  <1> QED
    BY <1>2, <1>3, <1>4

\* The layers and transforms of a setup.
LEMMA TransformHas ==
    ASSUME NEW t \in Transform
    PROVE  /\ t.is \in {"router", "filter", "limit"} /\ t.cap \in Nat
           /\ t.is = "limit" => t.action \in {"fail", "truncate", "replace"} /\ t.marker \in Nat /\ t.utf8 \in BOOLEAN
  BY DEF Transform

\* An answer on its way.
Body == [is : {"empty", "streaming", "buffered", "over"}, units : Seq(Unit)]
Way == [h : Body, enc : BOOLEAN, err : BOOLEAN]

\* An answer with another body.
LEMMA ReplacedIs ==
    ASSUME NEW a \in Way, NEW s \in Seq(Unit)
    PROVE  /\ Replaced(a, s) \in Way /\ Replaced(a, s).h.is = "buffered" /\ Replaced(a, s).h.units = s
           /\ Replaced(a, s).err = a.err /\ Replaced(a, s).enc = FALSE
  <1> DEFINE h == Buffered(s)
             no == FALSE
             b == [a EXCEPT !.h = h]
  <1>1. h \in Body /\ h.is = "buffered" /\ h.units = s
    BY DEF Buffered, Body
  <1>2. a.enc \in BOOLEAN /\ a.err \in BOOLEAN
    BY DEF Way
  <1>3. Replaced(a, s) = [b EXCEPT !.enc = no]
    BY DEF Replaced
  <1>4. no \in BOOLEAN /\ no = FALSE
    OBVIOUS
  <1> HIDE DEF h, no
  <1>5. b = [h |-> h, enc |-> a.enc, err |-> a.err]
    BY DEF Way
  <1> HIDE DEF b
  <1>6. [b EXCEPT !.enc = no] = [h |-> h, enc |-> no, err |-> a.err]
    BY <1>5
  <1> QED
    BY <1>1, <1>2, <1>3, <1>4, <1>6 DEF Way

\* The notice is one unit of text.
LEMMA NoticeIs ==
    /\ Notice \in Seq(Unit) /\ Len(Notice) = 1 /\ WellEncoded(Notice)
    /\ \A p \in 1..Len(Notice) : Notice[p].k = "notice"
  <1> DEFINE u == Mark("notice")
  <1>1. u \in Unit /\ u.k = "notice"
    BY DEF Mark, U, Unit, Kinds
  <1>2. Notice = <<u>>
    BY DEF Notice
  <1> HIDE DEF u
  <1>3. Notice \in Seq(Unit) /\ Len(Notice) = 1 /\ Notice[1] = u
    BY <1>1, <1>2
  <1>4. \A p \in 1..Len(Notice) : Notice[p].k = "notice"
    BY <1>1, <1>3
  <1>5. WellEncoded(Notice)
    BY <1>3, <1>4, PlainIsEncoded
  <1> QED
    BY <1>3, <1>4, <1>5

\* The marker is text.
LEMMA MarkerIs ==
    ASSUME NEW n \in Nat
    PROVE  /\ Marker(n) \in Seq(Unit) /\ Len(Marker(n)) = n /\ WellEncoded(Marker(n))
           /\ \A p \in 1..n : Marker(n)[p].k = "mark"
  <1> DEFINE u == Mark("mark")
  <1>1. u \in Unit /\ u.k = "mark"
    BY DEF Mark, U, Unit, Kinds
  <1>2. Marker(n) = [p \in 1..n |-> u]
    BY DEF Marker
  <1> HIDE DEF u
  <1>3. Marker(n) \in Seq(Unit) /\ Len(Marker(n)) = n /\ \A p \in 1..n : Marker(n)[p] = u
    BY <1>1, <1>2
  <1>4. \A p \in 1..n : Marker(n)[p].k = "mark"
    BY <1>1, <1>3
  <1>5. WellEncoded(Marker(n))
    BY <1>3, <1>4, PlainIsEncoded
  <1> QED
    BY <1>3, <1>4, <1>5

\* utf8_prefix_len leaves text within the limit.
LEMMA PrefixIs ==
    ASSUME NEW s \in Seq(Unit), NEW limit \in Nat
    PROVE  /\ utf8_prefix_len(s, limit) \in 0..Len(s) /\ utf8_prefix_len(s, limit) <= limit
           /\ WellEncoded(SubSeq(s, 1, utf8_prefix_len(s, limit)))
           /\ Min({Len(s), limit}) \in 0..Len(s) /\ Min({Len(s), limit}) <= limit
  <1> DEFINE L == Len(s)
             m == Min({L, limit})
             P == {n \in 0..m : WellEncoded(SubSeq(s, 1, n))}
  <1>1. L \in Nat /\ L \in Int /\ limit \in Int
    OBVIOUS
  <1>2. WellEncoded(SubSeq(s, 1, 0))
    <2>1. SubSeq(s, 1, 0) \in Seq(Unit) /\ Len(SubSeq(s, 1, 0)) = 0
      BY Halves
    <2> QED
      BY <2>1 DEF WellEncoded
  <1>3. utf8_prefix_len(s, limit) = Max(P)
    BY DEF utf8_prefix_len
  <1> HIDE DEF L
  <1>4. m = IF L <= limit THEN L ELSE limit
    BY <1>1, TwoNumbers
  <1>5. m \in Nat /\ m <= L /\ m <= limit
    BY <1>1, <1>4
  <1> HIDE DEF m
  <1>6. P \in SUBSET (0..m) /\ 0 \in P /\ \A n \in P : WellEncoded(SubSeq(s, 1, n))
    BY <1>2, <1>5
  <1> HIDE DEF P
  <1>7. Max(P) \in P /\ Max(P) \in 0..m
    BY <1>5, <1>6, LastPlace
  <1>8. Max(P) \in 0..L /\ Max(P) <= limit
    BY <1>1, <1>5, <1>7
  <1>9. m \in 0..L /\ m <= limit
    BY <1>1, <1>5
  <1> QED
    BY <1>3, <1>6, <1>7, <1>8, <1>9 DEF L, m

\* What is cut short fits, is text where characters are kept whole, and shows nothing new.
LEMMA TruncateIs ==
    ASSUME NEW t \in Transform, t.is = "limit", NEW s \in Seq(Unit)
    PROVE  /\ truncate(t, s) \in Seq(Unit) /\ Len(truncate(t, s)) <= t.cap
           /\ t.utf8 => WellEncoded(truncate(t, s))
           /\ \A p \in 1..Len(truncate(t, s)) :
                 truncate(t, s)[p].k = "mark" \/ truncate(t, s)[p] \in Range(s)
  <1> DEFINE cap == t.cap
             marker == Min({t.marker, cap})
             room == cap - marker
             n == IF t.utf8 THEN utf8_prefix_len(s, room) ELSE Min({Len(s), room})
             a == SubSeq(s, 1, n)
             b == Marker(marker)
             w == a \o b
  <1>1. cap \in Nat /\ t.marker \in Nat /\ t.utf8 \in BOOLEAN
    BY TransformHas
  <1>2. truncate(t, s) = w
    BY DEF truncate
  <1> HIDE DEF cap
  <1>3. marker = IF t.marker <= cap THEN t.marker ELSE cap
    BY <1>1, TwoNumbers
  <1> HIDE DEF marker
  <1>4. marker \in Nat /\ marker <= cap /\ room \in Nat /\ room + marker = cap
    BY <1>1, <1>3
  <1> HIDE DEF room
  <1>5. /\ utf8_prefix_len(s, room) \in 0..Len(s) /\ utf8_prefix_len(s, room) <= room
        /\ WellEncoded(SubSeq(s, 1, utf8_prefix_len(s, room)))
        /\ Min({Len(s), room}) \in 0..Len(s) /\ Min({Len(s), room}) <= room
    BY <1>4, PrefixIs
  <1>6. n \in 0..Len(s) /\ n <= room /\ (t.utf8 => WellEncoded(SubSeq(s, 1, n)))
    BY <1>5
  <1> HIDE DEF n
  <1>7. a \in Seq(Unit) /\ Len(a) = n /\ \A p \in 1..n : a[p] = s[p]
    BY <1>6, Halves
  <1>8. b \in Seq(Unit) /\ Len(b) = marker /\ WellEncoded(b) /\ \A p \in 1..marker : b[p].k = "mark"
    BY <1>4, MarkerIs
  <1>9. t.utf8 => WellEncoded(a)
    BY <1>6
  <1> HIDE DEF a, b
  <1>10. /\ w \in Seq(Unit) /\ Len(w) = n + marker
         /\ \A p \in 1..Len(w) : w[p] = IF p <= n THEN a[p] ELSE b[p - n]
    <2>1. a \in Seq(Unit) /\ b \in Seq(Unit)
      BY <1>7, <1>8
    <2>2. /\ w \in Seq(Unit) /\ Len(w) = Len(a) + Len(b)
          /\ \A p \in 1..(Len(a) + Len(b)) : w[p] = IF p <= Len(a) THEN a[p] ELSE b[p - Len(a)]
      BY <2>1, ConcatProperties
    <2> QED
      BY <1>7, <1>8, <2>2
  <1>11. t.utf8 => WellEncoded(w)
    BY <1>7, <1>8, <1>9, BothEncoded
  <1> HIDE DEF w
  <1>12. n \in Nat /\ n <= Len(s) /\ Len(s) \in Nat
    BY <1>6
  <1>13. Len(w) <= cap
    BY <1>4, <1>6, <1>10, <1>12
  <1>14. \A p \in 1..Len(w) : w[p].k = "mark" \/ w[p] \in Range(s)
    <2> SUFFICES ASSUME NEW p \in 1..Len(w) PROVE w[p].k = "mark" \/ w[p] \in Range(s)
      OBVIOUS
    <2>1. CASE p <= n
      <3>1. p \in 1..n /\ p \in 1..Len(s) /\ w[p] = a[p]
        BY <1>4, <1>10, <1>12, <2>1
      <3> QED
        BY <1>7, <3>1 DEF Range
    <2>2. CASE ~(p <= n)
      <3>1. p - n \in 1..marker /\ w[p] = b[p - n]
        BY <1>4, <1>10, <1>12, <2>2
      <3> QED
        BY <1>8, <3>1
    <2> QED
      BY <2>1, <2>2
  <1> QED
    BY <1>2, <1>10, <1>11, <1>13, <1>14 DEF cap

\* What is promised of an answer on its way: it is there, it is text, it is short, it shows
\* nothing that it must not.
There(a) == a.h.is \in {"buffered", "over"}
Written(a) == ~a.err /\ a.h.is = "buffered" => WellEncoded(a.h.units)
Bound(c) == Max({c, Len(Notice)})
Short(a, c) == a.h.is = "buffered" /\ Len(a.h.units) <= Bound(c)
Clear(a) == a.h.is = "buffered" /\ \A u \in Range(a.h.units) : MayShow(req.host, u)

\* The bound of a limit.
LEMMA BoundIs ==
    ASSUME NEW c \in Nat
    PROVE  Bound(c) \in Nat /\ c <= Bound(c) /\ 1 <= Bound(c)
  <1>1. c \in Int /\ Len(Notice) = 1 /\ 1 \in Int
    BY NoticeIs
  <1>2. Bound(c) = Max({c, 1})
    BY <1>1 DEF Bound
  <1>3. Max({c, 1}) = IF c <= 1 THEN 1 ELSE c
    BY <1>1, TwoNumbers
  <1> QED
    BY <1>2, <1>3

\* response_limit keeps its own limit and those before it, cuts no character of text when it is to cut text, and shows nothing new.
LEMMA LimitIs ==
    ASSUME NEW t \in Transform, t.is = "limit", NEW a \in Way, There(a)
    PROVE  /\ response_limit(t, a) \in Way /\ response_limit(t, a).err = a.err
           /\ Short(response_limit(t, a), t.cap)
           /\ \A c \in Nat : Short(a, c) => Short(response_limit(t, a), c)
           /\ Written(a) /\ (t.action = "truncate" => t.utf8) => Written(response_limit(t, a))
           /\ Clear(a) => Clear(response_limit(t, a))
  <1> DEFINE over == (a.h.is = "buffered" /\ Len(a.h.units) > t.cap) \/ a.h.is = "over"
             r == response_limit(t, a)
             w == truncate(t, a.h.units)
             no == Replaced(a, Notice)
             cut == Replaced(a, w)
  <1>1. /\ a.h.units \in Seq(Unit) /\ Len(a.h.units) \in Nat /\ t.cap \in Nat
        /\ a.h.is \in {"buffered", "over"}
    BY TransformHas DEF Way, Body, There
  <1>2. \/ r = a /\ ~over
        \/ r = no
        \/ r = cut /\ over /\ t.action = "truncate"
    BY DEF response_limit
  <1>3. /\ no \in Way /\ no.h.is = "buffered" /\ no.h.units = Notice /\ no.err = a.err
        /\ Notice \in Seq(Unit) /\ Len(Notice) = 1 /\ WellEncoded(Notice)
        /\ \A u \in Range(Notice) : MayShow(req.host, u)
    <2>1. /\ Notice \in Seq(Unit) /\ Len(Notice) = 1 /\ WellEncoded(Notice)
          /\ \A p \in 1..Len(Notice) : Notice[p].k = "notice"
      BY NoticeIs
    <2>2. no \in Way /\ no.h.is = "buffered" /\ no.h.units = Notice /\ no.err = a.err
      BY <2>1, ReplacedIs
    <2>3. \A u \in Range(Notice) : MayShow(req.host, u)
      BY <2>1 DEF Range, MayShow
    <2> QED
      BY <2>1, <2>2, <2>3
  <1>4. /\ w \in Seq(Unit) /\ Len(w) <= t.cap /\ Len(w) \in Nat /\ (t.utf8 => WellEncoded(w))
        /\ \A u \in Range(w) : u.k = "mark" \/ u \in Range(a.h.units)
    <2>1. /\ w \in Seq(Unit) /\ Len(w) <= t.cap /\ (t.utf8 => WellEncoded(w))
          /\ \A p \in 1..Len(w) : w[p].k = "mark" \/ w[p] \in Range(a.h.units)
      BY <1>1, TruncateIs
    <2> HIDE DEF w
    <2>2. \A u \in Range(w) : \E p \in 1..Len(w) : u = w[p]
      BY DEF Range
    <2> QED
      BY <2>1, <2>2
  <1>5. cut \in Way /\ cut.h.is = "buffered" /\ cut.h.units = w /\ cut.err = a.err
    BY <1>4, ReplacedIs
  <1> HIDE DEF r, w, no, cut
  <1>6. r \in Way /\ r.err = a.err /\ r.h.is = "buffered"
    BY <1>1, <1>2, <1>3, <1>5
  <1>7. ASSUME NEW c \in Nat, c = t.cap \/ Short(a, c) PROVE Short(r, c)
    <2>1. Bound(c) \in Nat /\ c <= Bound(c) /\ 1 <= Bound(c)
      BY BoundIs
    <2>2. CASE r = a /\ ~over
      BY <1>1, <1>6, <1>7, <2>1, <2>2 DEF Short
    <2>3. CASE r = no
      BY <1>3, <2>1, <2>3 DEF Short
    <2>4. CASE r = cut /\ over /\ t.action = "truncate"
      <3>1. Len(w) <= Bound(c)
        <4>1. CASE c = t.cap
          BY <1>1, <1>4, <2>1, <4>1
        <4>2. CASE Short(a, c)
          BY <1>1, <1>4, <2>1, <2>4, <4>2 DEF Short
        <4> QED
          BY <1>7, <4>1, <4>2
      <3> QED
        BY <1>5, <2>4, <3>1 DEF Short
    <2> QED
      BY <1>2, <2>2, <2>3, <2>4
  <1>8. ASSUME Written(a), t.action = "truncate" => t.utf8 PROVE Written(r)
    BY <1>2, <1>3, <1>4, <1>5, <1>8 DEF Written
  <1>9. ASSUME Clear(a) PROVE Clear(r)
    <2>1. \A u \in Range(w) : MayShow(req.host, u)
      <3>1. \A u : u.k = "mark" => MayShow(req.host, u)
        BY DEF MayShow
      <3> QED
        BY <1>4, <1>9, <3>1 DEF Clear
    <2> QED
      BY <1>2, <1>3, <1>5, <1>9, <2>1 DEF Clear
  <1>10. Short(r, t.cap) /\ \A c \in Nat : Short(a, c) => Short(r, c)
    BY <1>1, <1>7
  <1> QED
    BY <1>6, <1>8, <1>9, <1>10 DEF r

\* A document is text.
LEMMA DocIs ==
    ASSUME NEW s, IsDoc(s)
    PROVE  WellEncoded(s)
  BY DEF IsDoc

\* mcp_tool_filter leaves a short, written or clear answer so, and clears a document it can read that is no batch.
LEMMA FilterAnswerIs ==
    ASSUME NEW a \in Way, There(a)
    PROVE  /\ mcp_tool_filter(a) \in Way /\ mcp_tool_filter(a).err = a.err
           /\ mcp_tool_filter(a).h.is = a.h.is
           /\ Written(a) => Written(mcp_tool_filter(a))
           /\ Clear(a) => Clear(mcp_tool_filter(a))
           /\ governs(req.host) /\ Readable(a) /\ ~HasBatch(a.h.units) => Clear(mcp_tool_filter(a))
  <1> DEFINE host == req.host
             s == a.h.units
             w == filter_tools_list(host, s)
             h == Buffered(w)
             q == [a EXCEPT !.h = h]
             r == mcp_tool_filter(a)
  <1>1. s \in Seq(Unit) /\ a.enc \in BOOLEAN /\ a.err \in BOOLEAN
    BY DEF Way, Body
  <1>2. CASE ~(governs(host) /\ Readable(a))
    BY <1>2 DEF mcp_tool_filter
  <1>3. CASE governs(host) /\ Readable(a)
    <2>1. r = q
      BY <1>3 DEF mcp_tool_filter
    <2>2. a.h.is = "buffered" /\ IsDoc(s)
      BY <1>3 DEF Readable
    <2>3. WellEncoded(s)
      BY <2>2, DocIs
    <2>4. WellEncoded(w)
      <3> DEFINE I == {p \in 1..Len(s) : s[p].k = "tool" => s[p].v # 0 /\ tool_is_visible(host, s[p].v)}
      <3>1. w = IF \E p \in 1..Len(s) : s[p].k = "batch" THEN s ELSE At(s, I)
        BY DEF filter_tools_list
      <3>2. \A p \in 1..Len(s) : p \notin I => s[p].k = "tool"
        OBVIOUS
      <3> HIDE DEF I, s, w
      <3>3. WellEncoded(At(s, I))
        BY <1>1, <2>3, <3>2, FilterEncoded
      <3> QED
        BY <2>3, <3>1, <3>3
    <2> HIDE DEF s
    <2>5. /\ w \in Seq(Unit)
          /\ \A n \in 1..Len(w) : (\E p \in 1..Len(s) : w[n] = s[p]) /\ (~HasBatch(s) => MayShow(host, w[n]))
      BY <1>1, FilterIs
    <2> HIDE DEF w
    <2>6. h \in Body /\ h.is = "buffered" /\ h.units = w
      BY <2>5 DEF Buffered, Body
    <2> HIDE DEF h
    <2>7. q = [h |-> h, enc |-> a.enc, err |-> a.err]
      BY DEF Way
    <2> HIDE DEF q, r
    <2>8. r \in Way /\ r.err = a.err /\ r.h.is = "buffered" /\ r.h.units = w
      BY <1>1, <2>1, <2>6, <2>7 DEF Way
    <2>9. Clear(a) => Clear(r)
      <3> SUFFICES ASSUME Clear(a) PROVE Clear(r)
        OBVIOUS
      <3>1. \A p \in 1..Len(s) : MayShow(host, s[p])
        BY DEF Clear, Range, s
      <3>2. \A n \in 1..Len(w) : MayShow(host, w[n])
        BY <2>5, <3>1
      <3>3. \A u \in Range(w) : \E n \in 1..Len(w) : u = w[n]
        BY DEF Range
      <3> QED
        BY <2>8, <3>2, <3>3 DEF Clear
    <2>10. ~HasBatch(s) => Clear(r)
      <3>3. \A u \in Range(w) : \E n \in 1..Len(w) : u = w[n]
        BY DEF Range
      <3> QED
        BY <2>5, <2>8, <3>3 DEF Clear
    <2>11. Written(r)
      BY <2>4, <2>8 DEF Written
    <2> QED
      BY <2>2, <2>8, <2>9, <2>10, <2>11 DEF r, s
  <1> QED
    BY <1>2, <1>3

\* A translated document is text.
LEMMA RouterIs ==
    ASSUME NEW a \in Way, There(a)
    PROVE  /\ llm_router(a) \in Way /\ There(llm_router(a))
           /\ a.h.is = "buffered" => llm_router(a).h.is = "buffered"
           /\ a.err => llm_router(a).err
           /\ Written(a) => Written(llm_router(a))
  <1> DEFINE s == a.h.units
             m == Members(s)
             x == translate_response(Origin, Client, m)
             open == <<OPEN>>
             close == <<CLOSE>>
             w == open \o x \o close
             yes == TRUE
             q == [a EXCEPT !.err = yes]
             r == llm_router(a)
  <1>1. s \in Seq(Unit) /\ a.enc \in BOOLEAN /\ a.err \in BOOLEAN /\ a.h \in Body /\ yes \in BOOLEAN /\ yes
    BY DEF Way, Body
  <1>2. \/ s = << >> /\ r = a
        \/ Readable(a) /\ r = Replaced(a, w)
        \/ r = q
    BY DEF llm_router
  <1>3. CASE s = << >> /\ r = a
    BY <1>3
  <1>4. CASE r = q
    <2> HIDE DEF yes
    <2>1. q = [h |-> a.h, enc |-> a.enc, err |-> yes]
      BY DEF Way
    <2> HIDE DEF q
    <2>2. q \in Way /\ q.h = a.h /\ q.err
      BY <1>1, <2>1 DEF Way
    <2> QED
      BY <1>4, <2>2 DEF There, Written
  <1>5. CASE Readable(a) /\ r = Replaced(a, w)
    <2>1. WellEncoded(s)
      BY <1>5, DocIs DEF Readable
    <2>2. m \in Seq(Unit) /\ \A n \in 1..Len(m) : m[n].k \notin {"bin", "wide"}
      <3>1. /\ m \in Seq(Unit)
            /\ \A n \in 1..Len(m) : \E p \in 1..Len(s) :
                  p \in 2..(Len(s) - 1) /\ s[p].k \notin {"pad", "wide", "bad"} /\ m[n].k = s[p].k
        BY <1>1, MembersAre
      <3>2. \A p \in 1..Len(s) : s[p].k # "bin"
        BY <2>1 DEF WellEncoded
      <3> HIDE DEF m, s
      <3> QED
        BY <3>1, <3>2
    <2> HIDE DEF m
    <2>3. x \in Seq(Unit) /\ Range(x) \subseteq Range(m)
      BY <2>2, TranslateIs
    <2> HIDE DEF x
    <2>4. \A n \in 1..Len(x) : x[n].k \notin {"bin", "wide"}
      <3> SUFFICES ASSUME NEW n \in 1..Len(x) PROVE x[n].k \notin {"bin", "wide"}
        OBVIOUS
      <3>1. x[n] \in Range(m)
        <4>1. x[n] \in Range(x)
          BY DEF Range
        <4> QED
          BY <2>3, <4>1
      <3>2. PICK p \in 1..Len(m) : x[n] = m[p]
        BY <3>1 DEF Range
      <3> QED
        BY <2>2, <3>2
    <2>5. WellEncoded(x)
      BY <2>3, <2>4, PlainIsEncoded
    <2>6. open \in Seq(Unit) /\ close \in Seq(Unit) /\ WellEncoded(open) /\ WellEncoded(close)
      <3>1. OPEN \in Unit /\ CLOSE \in Unit /\ OPEN.k = "open" /\ CLOSE.k = "close"
        BY DEF OPEN, CLOSE, Mark, U, Unit, Kinds
      <3> HIDE DEF OPEN, CLOSE
      <3>2. /\ open \in Seq(Unit) /\ close \in Seq(Unit)
            /\ \A p \in 1..Len(open) : open[p].k \notin {"bin", "wide"}
            /\ \A p \in 1..Len(close) : close[p].k \notin {"bin", "wide"}
        BY <3>1
      <3> HIDE DEF open, close
      <3> QED
        BY <3>2, PlainIsEncoded
    <2> HIDE DEF open, close
    <2>7. open \o x \in Seq(Unit) /\ WellEncoded(open \o x)
      BY <2>3, <2>5, <2>6, BothEncoded, ConcatProperties
    <2>8. w \in Seq(Unit) /\ WellEncoded(w)
      <3> DEFINE y == open \o x
      <3>1. y \in Seq(Unit) /\ WellEncoded(y)
        BY <2>7
      <3> HIDE DEF y
      <3>2. y \o close \in Seq(Unit) /\ WellEncoded(y \o close)
        BY <2>6, <3>1, BothEncoded, ConcatProperties
      <3> QED
        BY <3>2 DEF y
    <2> HIDE DEF w
    <2>9. r \in Way /\ r.h.is = "buffered" /\ r.h.units = w /\ r.err = a.err
      <3> DEFINE y == Replaced(a, w)
      <3>1. y \in Way /\ y.h.is = "buffered" /\ y.h.units = w /\ y.err = a.err
        BY <2>8, ReplacedIs
      <3> HIDE DEF y
      <3>2. r = y
        BY <1>5 DEF y
      <3> HIDE DEF r
      <3> QED
        BY <3>1, <3>2
    <2> HIDE DEF r
    <2>10. r \in Way /\ There(r) /\ (a.h.is = "buffered" => r.h.is = "buffered") /\ (a.err => r.err) /\ Written(r)
      BY <2>8, <2>9 DEF There, Written
    <2> QED
      BY <2>10 DEF r
  <1> QED
    BY <1>2, <1>3, <1>4, <1>5

\* One transform.
Applied(t, a) == CASE a.err -> a
                   [] ~a.err /\ t.is = "limit" -> response_limit(t, a)
                   [] ~a.err /\ t.is = "filter" -> mcp_tool_filter(a)
                   [] OTHER -> llm_router(a)

\* One transform: none undoes what another has done, and the filter clears what it can read.
LEMMA AppliedIs ==
    ASSUME NEW t \in Transform, NEW a \in Way, There(a)
    PROVE  /\ Applied(t, a) \in Way /\ There(Applied(t, a))
           /\ a.h.is = "buffered" => Applied(t, a).h.is = "buffered"
           /\ a.err => Applied(t, a).err
           /\ t.is = "limit" /\ ~Applied(t, a).err =>
                 /\ Short(Applied(t, a), t.cap)
                 /\ \A c \in Nat : Short(a, c) => Short(Applied(t, a), c)
           /\ Written(a) /\ (t.is = "limit" /\ t.action = "truncate" => t.utf8) => Written(Applied(t, a))
           /\ t.is # "router" =>
                 /\ ~a.err => ~Applied(t, a).err
                 /\ Clear(a) => Clear(Applied(t, a))
           /\ t.is = "filter" /\ governs(req.host) /\ ~a.err /\ Readable(a) /\ ~HasBatch(a.h.units) =>
                 Clear(Applied(t, a))
  <1>1. t.is \in {"router", "filter", "limit"} /\ a.err \in BOOLEAN
    BY TransformHas DEF Way
  <1>2. CASE a.err
    BY <1>2 DEF Applied
  <1>3. CASE ~a.err /\ t.is = "limit"
    <2> DEFINE r == response_limit(t, a)
    <2>1. Applied(t, a) = r
      BY <1>3 DEF Applied
    <2>2. /\ r \in Way /\ r.err = a.err
          /\ Short(r, t.cap)
          /\ \A c \in Nat : Short(a, c) => Short(r, c)
          /\ Written(a) /\ (t.action = "truncate" => t.utf8) => Written(r)
          /\ Clear(a) => Clear(r)
      BY <1>3, LimitIs
    <2> HIDE DEF r
    <2>3. r.h.is = "buffered" /\ There(r)
      BY <2>2 DEF Short, There
    <2> QED
      BY <1>3, <2>1, <2>2, <2>3
  <1>4. CASE ~a.err /\ t.is = "filter"
    <2>1. Applied(t, a) = mcp_tool_filter(a)
      BY <1>4 DEF Applied
    <2> QED
      BY <1>4, <2>1, FilterAnswerIs DEF There
  <1>5. CASE ~a.err /\ t.is = "router"
    <2>1. Applied(t, a) = llm_router(a)
      BY <1>5 DEF Applied
    <2> QED
      BY <1>5, <2>1, RouterIs
  <1> QED
    BY <1>1, <1>2, <1>3, <1>4, <1>5

\* All of them.
Limits(n) == setup.transforms[n].is = "limit"
CutsText(n) == Limits(n) /\ setup.transforms[n].action = "truncate"

\* All transforms: every limit is kept, text stays text, and a document the filter can read is clear.
LEMMA TransformedIs ==
    ASSUME NEW h \in Body, h.is \in {"buffered", "over"}, resp.enc \in BOOLEAN,
           setup.transforms \in Seq(Transform), InOrder(setup.transforms)
    PROVE  /\ Transformed(h) \in Way /\ There(Transformed(h))
           /\ h.is = "buffered" => Transformed(h).h.is = "buffered"
           /\ ~Transformed(h).err =>
                 \A n \in 1..Len(setup.transforms) :
                    Limits(n) => Short(Transformed(h), setup.transforms[n].cap)
           /\ /\ h.is = "buffered" => WellEncoded(h.units)
              /\ \A n \in 1..Len(setup.transforms) : CutsText(n) => setup.transforms[n].utf8
              => Written(Transformed(h))
           /\ /\ \A n \in 1..Len(setup.transforms) : setup.transforms[n].is # "router"
              /\ \E n \in 1..Len(setup.transforms) : setup.transforms[n].is = "filter"
              /\ governs(req.host)
              /\ h.is = "buffered" /\ ~resp.enc /\ IsDoc(h.units) /\ ~HasBatch(h.units)
              => Clear(Transformed(h))
  <1> DEFINE N == Len(setup.transforms)
             V == {a \in Way : There(a)}
             G(n, t) == Applied(setup.transforms[n], t)
             F == [n \in 1..N |-> [t \in V |-> G(n, t)]]
             first == [h |-> h, enc |-> resp.enc, err |-> FALSE]
             Rec(f) == f = [n \in 0..N |-> IF n = 0 THEN first ELSE G(n, f[n - 1])]
             upto == CHOOSE f : Rec(f)
  <1>1. N \in Nat
    OBVIOUS
  <1>2. first \in V
    <2>1. first \in Way
      BY DEF first, Way
    <2>2. There(first)
      BY DEF There
    <2> QED
      BY <2>1, <2>2
  <1>3. \A n \in 1..N, t \in V : G(n, t) \in V
    <2> SUFFICES ASSUME NEW n \in 1..N, NEW t \in V PROVE G(n, t) \in V
      OBVIOUS
    <2>1. setup.transforms[n] \in Transform
      OBVIOUS
    <2> QED
      BY <2>1, AppliedIs
  <1>4. Transformed(h) = upto[N]
    BY DEF Transformed, Applied
  <1> HIDE DEF N, G, V, first
  <1>5. F \in StepsOf(N, V)
    BY <1>3 DEF StepsOf
  <1>6. \A n \in 1..N, t \in V : F[n][t] = G(n, t)
    OBVIOUS
  <1> HIDE DEF F
  <1>7. PICK f \in [0..N -> V] : Stepwise(f, N, first, F)
    BY <1>1, <1>2, <1>5, Recursion
  <1>8. f[0] = first /\ \A n \in 1..N : f[n] = F[n][f[n - 1]]
    BY <1>7 DEF Stepwise
  <1>9. \A n \in 1..N : f[n] = G(n, f[n - 1])
    <2> SUFFICES ASSUME NEW n \in 1..N PROVE f[n] = G(n, f[n - 1])
      OBVIOUS
    <2>1. n - 1 \in 0..N
      BY <1>1
    <2>2. f[n - 1] \in V
      BY <2>1
    <2> QED
      BY <1>6, <1>8, <2>2
  <1>10. Rec(f)
    <2>1. \A n \in 0..N : f[n] = IF n = 0 THEN first ELSE G(n, f[n - 1])
      <3> SUFFICES ASSUME NEW n \in 0..N PROVE f[n] = IF n = 0 THEN first ELSE G(n, f[n - 1])
        OBVIOUS
      <3>1. CASE n = 0
        BY <1>8, <3>1
      <3>2. CASE n # 0
        <4>1. n \in 1..N
          BY <1>1, <3>2
        <4> QED
          BY <1>9, <3>2, <4>1
      <3> QED
        BY <3>1, <3>2
    <2> QED
      BY <2>1
  <1>11. Rec(upto)
    BY <1>10
  <1> HIDE DEF upto
  <1>12. upto[0] = first
    BY <1>1, <1>11
  <1>13. \A n \in 1..N : upto[n] = G(n, upto[n - 1])
    <2> SUFFICES ASSUME NEW n \in 1..N PROVE upto[n] = G(n, upto[n - 1])
      OBVIOUS
    <2>1. n \in 0..N /\ n # 0
      BY <1>1
    <2> QED
      BY <1>11, <2>1
  <1>14. \A n \in 0..N : upto[n] \in V
    <2> DEFINE T == {k \in 0..N : upto[k] \in V}
    <2>1. 0 \in T
      BY <1>1, <1>2, <1>12
    <2>2. ASSUME NEW k \in 0..(N - 1), k \in T PROVE k + 1 \in T
      <3>1. k + 1 \in 1..N /\ k + 1 \in 0..N /\ (k + 1) - 1 = k
        BY <1>1
      <3> QED
        BY <1>3, <1>13, <2>2, <3>1
    <2>3. \A k \in 0..N : k \in T
      <3> HIDE DEF T
      <3> QED
        BY <1>1, <2>1, <2>2, UpTo
    <2> QED
      BY <2>3
  <1>15. upto \in [0..N -> V]
    BY <1>11, <1>14
  <1>16. N \in 0..N
    BY <1>1
  <1> DEFINE ts == setup.transforms
  <1>17. /\ \A n \in 1..N : ts[n] \in Transform /\ upto[n] = Applied(ts[n], upto[n - 1])
         /\ \A n \in 0..N : upto[n] \in Way /\ There(upto[n])
    BY <1>13, <1>14 DEF G, N, V
  <1>18. first.h = h /\ first.enc = resp.enc /\ first.err = FALSE
    BY DEF first
  <1>19. \A n \in 1..N : n - 1 \in 0..N /\ n \in 0..N
    BY <1>1
  <1>20. N = Len(ts) /\ ts \in Seq(Transform)
    BY DEF N
  <1>21. InOrder(ts)
    OBVIOUS
  <1> HIDE DEF ts, N
  <1>22. ASSUME h.is = "buffered" PROVE upto[N].h.is = "buffered"
    <2> DEFINE T == {k \in 0..N : upto[k].h.is = "buffered"}
    <2>1. 0 \in T
      BY <1>1, <1>12, <1>18, <1>22
    <2>2. ASSUME NEW k \in 0..(N - 1), k \in T PROVE k + 1 \in T
      <3>1. k + 1 \in 1..N /\ k + 1 \in 0..N /\ (k + 1) - 1 = k /\ k \in 0..N
        BY <1>1
      <3>2. upto[k].h.is = "buffered"
        BY <2>2
      <3>3. upto[k + 1] = Applied(ts[k + 1], upto[k]) /\ ts[k + 1] \in Transform /\ upto[k] \in Way /\ There(upto[k])
        BY <1>17, <3>1
      <3>4. upto[k + 1].h.is = "buffered"
        BY <3>2, <3>3, AppliedIs
      <3> QED
        BY <3>1, <3>4
    <2> HIDE DEF T
    <2>3. \A k \in 0..N : k \in T
      BY <1>1, <2>1, <2>2, UpTo
    <2> QED
      BY <1>16, <2>3 DEF T
  <1>23. ASSUME ~upto[N].err, NEW i \in 1..N, Limits(i) PROVE Short(upto[N], ts[i].cap)
    <2> DEFINE c == ts[i].cap
               T == {k \in 0..N : k >= i /\ ~upto[k].err => Short(upto[k], c)}
    <2>1. c \in Nat /\ i \in Nat
      BY <1>1, <1>17, TransformHas
    <2> HIDE DEF c
    <2>2. 0 \in T
      BY <1>1
    <2>3. ASSUME NEW k \in 0..(N - 1), k \in T PROVE k + 1 \in T
      <3> SUFFICES ASSUME k + 1 >= i, ~upto[k + 1].err PROVE Short(upto[k + 1], c)
        BY <1>1
      <3>1. k + 1 \in 1..N /\ k + 1 \in 0..N /\ (k + 1) - 1 = k /\ k \in 0..N /\ k \in Nat
        BY <1>1
      <3>2. upto[k + 1] = Applied(ts[k + 1], upto[k]) /\ ts[k + 1] \in Transform /\ upto[k] \in Way /\ There(upto[k])
        BY <1>17, <3>1
      <3>3. ~upto[k].err
        BY <3>2, AppliedIs
      <3>4. ts[k + 1].is = "limit"
        <4>1. CASE i = k + 1
          BY <1>23, <4>1 DEF Limits, ts
        <4>2. CASE i # k + 1
          <5>1. i < k + 1 /\ i \in 1..Len(ts) /\ k + 1 \in 1..Len(ts)
            BY <1>20, <2>1, <3>1, <4>2
          <5>2. ts[i].is = "limit"
            BY <1>23 DEF Limits, ts
          <5> QED
            BY <1>21, <5>1, <5>2 DEF InOrder
        <4> QED
          BY <4>1, <4>2
      <3>5. /\ Short(Applied(ts[k + 1], upto[k]), ts[k + 1].cap)
            /\ \A x \in Nat : Short(upto[k], x) => Short(Applied(ts[k + 1], upto[k]), x)
        BY <3>2, <3>4, AppliedIs
      <3>6. CASE i = k + 1
        BY <3>2, <3>5, <3>6 DEF c
      <3>7. CASE i # k + 1
        <4>1. k >= i
          BY <2>1, <3>1, <3>7
        <4>2. Short(upto[k], c)
          BY <2>3, <3>3, <4>1
        <4> QED
          BY <2>1, <3>2, <3>5, <4>2
      <3> QED
        BY <3>6, <3>7
    <2> HIDE DEF T
    <2>4. \A k \in 0..N : k \in T
      BY <1>1, <2>2, <2>3, UpTo
    <2>5. N \in T /\ N >= i
      BY <1>1, <1>16, <2>4
    <2> QED
      BY <1>23, <2>5 DEF T, c
  <1>24. ASSUME h.is = "buffered" => WellEncoded(h.units), \A n \in 1..N : CutsText(n) => ts[n].utf8
         PROVE  Written(upto[N])
    <2> DEFINE T == {k \in 0..N : Written(upto[k])}
    <2>1. 0 \in T
      BY <1>1, <1>12, <1>18, <1>24 DEF Written
    <2>2. ASSUME NEW k \in 0..(N - 1), k \in T PROVE k + 1 \in T
      <3>1. k + 1 \in 1..N /\ k + 1 \in 0..N /\ (k + 1) - 1 = k /\ k \in 0..N
        BY <1>1
      <3>2. Written(upto[k])
        BY <2>2
      <3>3. upto[k + 1] = Applied(ts[k + 1], upto[k]) /\ ts[k + 1] \in Transform /\ upto[k] \in Way /\ There(upto[k])
        BY <1>17, <3>1
      <3>4. ts[k + 1].is = "limit" /\ ts[k + 1].action = "truncate" => ts[k + 1].utf8
        BY <1>24, <3>1 DEF CutsText, Limits, ts
      <3>5. Written(upto[k + 1])
        BY <3>2, <3>3, <3>4, AppliedIs
      <3> QED
        BY <3>1, <3>5
    <2> HIDE DEF T
    <2>3. \A k \in 0..N : k \in T
      BY <1>1, <2>1, <2>2, UpTo
    <2> QED
      BY <1>16, <2>3 DEF T
  <1>25. ASSUME \A n \in 1..N : ts[n].is # "router", \E n \in 1..N : ts[n].is = "filter", governs(req.host),
                h.is = "buffered", ~resp.enc, IsDoc(h.units), ~HasBatch(h.units)
         PROVE  Clear(upto[N])
    <2>1. PICK i \in 1..N : ts[i].is = "filter"
      BY <1>25
    <2>2. 1 \in 1..N /\ 1 - 1 = 0 /\ i \in Nat /\ 0 \in 0..N
      BY <1>1, <2>1
    <2>3. ts[1].is = "filter"
      <3>1. ts[1].is # "limit"
        <4> SUFFICES ASSUME ts[1].is = "limit" PROVE FALSE
          OBVIOUS
        <4>1. i # 1
          BY <2>1
        <4>2. 1 < i /\ i \in 1..Len(ts) /\ 1 \in 1..Len(ts)
          BY <1>20, <2>2, <4>1
        <4>3. ts[i].is = "limit"
          BY <1>21, <4>2 DEF InOrder
        <4> QED
          BY <2>1, <4>3
      <3>2. ts[1].is \in {"router", "filter", "limit"}
        BY <1>17, <2>2, TransformHas
      <3> QED
        BY <1>25, <2>2, <3>1, <3>2
    <2> DEFINE T == {k \in 0..N : ~upto[k].err /\ (k # 0 => Clear(upto[k]))}
    <2>4. 0 \in T
      BY <1>12, <1>18, <2>2
    <2>5. ASSUME NEW k \in 0..(N - 1), k \in T PROVE k + 1 \in T
      <3>1. k + 1 \in 1..N /\ k + 1 \in 0..N /\ (k + 1) - 1 = k /\ k \in 0..N
        BY <1>1
      <3>2. upto[k + 1] = Applied(ts[k + 1], upto[k]) /\ ts[k + 1] \in Transform /\ upto[k] \in Way /\ There(upto[k])
        BY <1>17, <3>1
      <3>3. ~upto[k].err /\ (k # 0 => Clear(upto[k]))
        BY <2>5
      <3>4. ts[k + 1].is # "router"
        BY <1>25, <3>1
      <3>5. ~upto[k + 1].err
        BY <3>2, <3>3, <3>4, AppliedIs
      <3>6. Clear(upto[k + 1])
        <4>1. CASE k # 0
          BY <3>2, <3>3, <3>4, <4>1, AppliedIs
        <4>2. CASE k = 0
          <5>1. Readable(upto[k]) /\ ~HasBatch(upto[k].h.units)
            BY <1>12, <1>18, <1>25, <4>2 DEF Readable
          <5>2. ts[k + 1].is = "filter"
            BY <2>3, <4>2
          <5> QED
            BY <1>25, <3>2, <3>3, <5>1, <5>2, AppliedIs
        <4> QED
          BY <4>1, <4>2
      <3> QED
        BY <3>1, <3>5, <3>6
    <2> HIDE DEF T
    <2>6. \A k \in 0..N : k \in T
      BY <1>1, <2>4, <2>5, UpTo
    <2> QED
      BY <1>16, <2>2, <2>6 DEF T
  <1>26. upto[N] \in Way /\ There(upto[N])
    BY <1>16, <1>17
  <1> QED
    BY <1>4, <1>22, <1>23, <1>24, <1>25, <1>26 DEF N, ts

-----------------------------------------------------------------------------
(***************************************************************************)
(* How much is read, and what the layers say of it.                        *)
(***************************************************************************)

Requirement == Nat \cup {Streaming}

\* A combined requirement is at least each of the two.
LEMMA CombineIs ==
    ASSUME NEW a \in Requirement, NEW b \in Requirement
    PROVE  combine(a, b) \in Requirement /\ a <= combine(a, b) /\ b <= combine(a, b)
  <1>1. Streaming = -1
    BY DEF Streaming
  <1>2. a \in Int /\ b \in Int /\ a >= -1 /\ b >= -1
    BY <1>1 DEF Requirement
  <1>3. Max({a, b}) = IF a <= b THEN b ELSE a
    BY <1>2, TwoNumbers
  <1>4. combine(a, b) = IF a = Streaming THEN b ELSE IF b = Streaming THEN a ELSE Max({a, b})
    BY DEF combine
  <1> QED
    BY <1>1, <1>2, <1>3, <1>4

\* As much is read as whoever asks for most needs.
LEMMA StrongestIs ==
    ASSUME NEW caps \in Seq(Requirement)
    PROVE  Strongest(caps) \in Requirement /\ \A n \in 1..Len(caps) : caps[n] <= Strongest(caps)
  <1> DEFINE N == Len(caps)
             V == Requirement
             G(n, t) == combine(t, caps[n])
             F == [n \in 1..N |-> [t \in V |-> G(n, t)]]
             first == Streaming
             Rec(f) == f = [n \in 0..N |-> IF n = 0 THEN first ELSE G(n, f[n - 1])]
             upto == CHOOSE f : Rec(f)
  <1>1. N \in Nat
    OBVIOUS
  <1>2. first \in V
    BY DEF Requirement
  <1>3. \A n \in 1..N, t \in V : G(n, t) \in V
    <2> SUFFICES ASSUME NEW n \in 1..N, NEW t \in V PROVE G(n, t) \in V
      OBVIOUS
    <2>1. caps[n] \in Requirement
      OBVIOUS
    <2> QED
      BY <2>1, CombineIs
  <1>4. Strongest(caps) = upto[N]
    BY DEF Strongest
  <1> HIDE DEF N, G, V, first
  <1>5. F \in StepsOf(N, V)
    BY <1>3 DEF StepsOf
  <1>6. \A n \in 1..N, t \in V : F[n][t] = G(n, t)
    OBVIOUS
  <1> HIDE DEF F
  <1>7. PICK f \in [0..N -> V] : Stepwise(f, N, first, F)
    BY <1>1, <1>2, <1>5, Recursion
  <1>8. f[0] = first /\ \A n \in 1..N : f[n] = F[n][f[n - 1]]
    BY <1>7 DEF Stepwise
  <1>9. \A n \in 1..N : f[n] = G(n, f[n - 1])
    <2> SUFFICES ASSUME NEW n \in 1..N PROVE f[n] = G(n, f[n - 1])
      OBVIOUS
    <2>1. n - 1 \in 0..N
      BY <1>1
    <2>2. f[n - 1] \in V
      BY <2>1
    <2> QED
      BY <1>6, <1>8, <2>2
  <1>10. Rec(f)
    <2>1. \A n \in 0..N : f[n] = IF n = 0 THEN first ELSE G(n, f[n - 1])
      <3> SUFFICES ASSUME NEW n \in 0..N PROVE f[n] = IF n = 0 THEN first ELSE G(n, f[n - 1])
        OBVIOUS
      <3>1. CASE n = 0
        BY <1>8, <3>1
      <3>2. CASE n # 0
        <4>1. n \in 1..N
          BY <1>1, <3>2
        <4> QED
          BY <1>9, <3>2, <4>1
      <3> QED
        BY <3>1, <3>2
    <2> QED
      BY <2>1
  <1>11. Rec(upto)
    BY <1>10
  <1> HIDE DEF upto
  <1>12. upto[0] = first
    BY <1>1, <1>11
  <1>13. \A n \in 1..N : upto[n] = G(n, upto[n - 1])
    <2> SUFFICES ASSUME NEW n \in 1..N PROVE upto[n] = G(n, upto[n - 1])
      OBVIOUS
    <2>1. n \in 0..N /\ n # 0
      BY <1>1
    <2> QED
      BY <1>11, <2>1
  <1>14. \A n \in 0..N : upto[n] \in V
    <2> DEFINE T == {k \in 0..N : upto[k] \in V}
    <2>1. 0 \in T
      BY <1>1, <1>2, <1>12
    <2>2. ASSUME NEW k \in 0..(N - 1), k \in T PROVE k + 1 \in T
      <3>1. k + 1 \in 1..N /\ k + 1 \in 0..N /\ (k + 1) - 1 = k
        BY <1>1
      <3> QED
        BY <1>3, <1>13, <2>2, <3>1
    <2>3. \A k \in 0..N : k \in T
      <3> HIDE DEF T
      <3> QED
        BY <1>1, <2>1, <2>2, UpTo
    <2> QED
      BY <2>3
  <1>15. upto \in [0..N -> V]
    BY <1>11, <1>14
  <1>16. N \in 0..N
    BY <1>1
  <1> DEFINE T == {k \in 0..N : \A n \in 1..k : caps[n] <= upto[k]}
  <1>17. 0 \in T
    BY <1>1
  <1>18. ASSUME NEW k \in 0..(N - 1), k \in T PROVE k + 1 \in T
    <2>1. k + 1 \in 1..N /\ k + 1 \in 0..N /\ (k + 1) - 1 = k /\ k \in 0..N
      BY <1>1
    <2>2. \A n \in 1..N : caps[n] \in Requirement
      BY DEF N
    <2>3. upto[k] \in Requirement /\ caps[k + 1] \in Requirement /\ upto[k + 1] \in Requirement
      BY <1>14, <2>1, <2>2 DEF V
    <2>4. upto[k + 1] = combine(upto[k], caps[k + 1])
      BY <1>13, <2>1 DEF G
    <2>5. upto[k] <= upto[k + 1] /\ caps[k + 1] <= upto[k + 1]
      BY <2>3, <2>4, CombineIs
    <2>6. \A x \in Requirement : x \in Int
      BY DEF Requirement, Streaming
    <2>7. ASSUME NEW n \in 1..(k + 1) PROVE caps[n] <= upto[k + 1]
      <3>1. CASE n = k + 1
        BY <2>5, <3>1
      <3>2. CASE n # k + 1
        <4>1. n \in 1..k /\ n \in 1..N
          BY <1>1, <2>1, <3>2
        <4>2. caps[n] <= upto[k]
          BY <1>18, <4>1
        <4>3. caps[n] \in Int /\ upto[k] \in Int /\ upto[k + 1] \in Int
          BY <2>2, <2>3, <2>6, <4>1
        <4> QED
          BY <2>5, <4>2, <4>3
      <3> QED
        BY <3>1, <3>2
    <2> QED
      BY <2>1, <2>7
  <1>19. \A k \in 0..N : k \in T
    <2> HIDE DEF T
    <2> QED
      BY <1>1, <1>17, <1>18, UpTo
  <1>20. \A n \in 1..N : caps[n] <= upto[N]
    BY <1>16, <1>19
  <1>21. upto[N] \in Requirement
    BY <1>14, <1>16 DEF V
  <1> QED
    BY <1>4, <1>20, <1>21 DEF N

\* What a layer is, and what it asks for.
LEMMA LayerHas ==
    ASSUME NEW l \in Layer
    PROVE  /\ l.is \in {"dlp", "mcp"} /\ l.cap \in Nat
           /\ l.is = "dlp" => /\ l.scan \in BOOLEAN /\ l.oversize \in {"pass", "deny"}
                              /\ l.on_match \in {"pass", "deny", "allow"}
           /\ LayerCap(l) \in Requirement
           /\ ~(l.is = "dlp" /\ ~l.scan) => LayerCap(l) = l.cap
  BY DEF Layer, LayerCap, Requirement

\* Every layer that looks at bodies is given as much as it asks for.
LEMMA RequirementIs ==
    ASSUME setup.layers \in Seq(Layer), NEW path
    PROVE  /\ body_requirement(path) \in Requirement
           /\ path # "upgrade" =>
                 \A n \in 1..Len(setup.layers) : LayerCap(setup.layers[n]) <= body_requirement(path)
  <1> DEFINE L == Len(setup.layers)
             caps == [n \in 1..L |-> LayerCap(setup.layers[n])]
  <1>1. \A n \in 1..L : LayerCap(setup.layers[n]) \in Requirement
    BY LayerHas
  <1>2. L \in Nat
    OBVIOUS
  <1>3. body_requirement(path) = IF path = "upgrade" THEN Streaming ELSE Strongest(caps)
    BY DEF body_requirement
  <1>4. caps \in Seq(Requirement) /\ Len(caps) = L /\ \A n \in 1..L : caps[n] = LayerCap(setup.layers[n])
    BY <1>1, <1>2
  <1> HIDE DEF caps
  <1>5. Strongest(caps) \in Requirement /\ \A n \in 1..Len(caps) : caps[n] <= Strongest(caps)
    BY <1>4, StrongestIs
  <1>6. Streaming \in Requirement
    BY DEF Requirement
  <1> QED
    BY <1>3, <1>4, <1>5, <1>6

\* The response requirement is at least every transform's cap.
LEMMA ResponseRequirementIs ==
    ASSUME setup.transforms \in Seq(Transform)
    PROVE  /\ response_body_requirement \in Requirement
           /\ \A n \in 1..Len(setup.transforms) : setup.transforms[n].cap <= response_body_requirement
           /\ setup.transforms # << >> => response_body_requirement \in Nat
  <1> DEFINE ts == setup.transforms
             L == Len(ts)
             caps == [n \in 1..L |-> ts[n].cap]
             most == Strongest(caps)
  <1>1. \A n \in 1..L : ts[n].cap \in Nat /\ ts[n].cap \in Requirement
    BY TransformHas DEF Requirement
  <1>2. L \in Nat /\ (ts # << >> => L # 0)
    BY EmptySeq
  <1>3. response_body_requirement = most
    BY DEF response_body_requirement
  <1>4. caps \in Seq(Requirement) /\ Len(caps) = L /\ \A n \in 1..L : caps[n] = ts[n].cap
    BY <1>1, <1>2
  <1> HIDE DEF caps
  <1>5. most \in Requirement /\ \A n \in 1..Len(caps) : caps[n] <= most
    BY <1>4, StrongestIs
  <1> HIDE DEF most
  <1>6. ts # << >> => most \in Nat
    <2> SUFFICES ASSUME ts # << >> PROVE most \in Nat
      OBVIOUS
    <2>1. 1 \in 1..L
      BY <1>2
    <2>2. ts[1].cap <= most /\ ts[1].cap \in Nat
      BY <1>1, <1>4, <1>5, <2>1
    <2>3. most \in Nat \/ most = -1
      BY <1>5 DEF Requirement, Streaming
    <2> QED
      BY <2>2, <2>3
  <1> QED
    BY <1>3, <1>4, <1>5, <1>6

\* What a layer says, and what is said of it.
FlagNames == {"BodyNotScanned", "annotated", "McpToolsList"}
Verdict == [is : {"pass", "deny", "allow"}, flags : SUBSET FlagNames]
Ruled(l, f) == IF l.is = "dlp" THEN dlp(l, f) ELSE mcp(f)

\* A layer loses no flag, and allows only if it allows matches.
LEMMA RuledIs ==
    ASSUME NEW l \in Layer, NEW f \in SUBSET FlagNames
    PROVE  /\ Ruled(l, f) \in Verdict /\ f \subseteq Ruled(l, f).flags
           /\ Ruled(l, f).is = "allow" => Allows(l)
  <1>1. \A g \in SUBSET FlagNames, x \in {"pass", "deny", "allow"} :
            /\ Answered(x, g) \in Verdict /\ Answered(x, g).is = x /\ Answered(x, g).flags = g
            /\ Pass(g) \in Verdict /\ Pass(g).is = "pass" /\ Pass(g).flags = g
    BY DEF Answered, Pass, Verdict
  <1>2. /\ f \cup {"annotated"} \in SUBSET FlagNames /\ f \cup {"BodyNotScanned"} \in SUBSET FlagNames
        /\ f \cup {"McpToolsList"} \in SUBSET FlagNames
    BY DEF FlagNames
  <1>3. CASE l.is = "dlp"
    <2>1. l.on_match \in {"pass", "deny", "allow"}
      BY <1>3, LayerHas
    <2>2. \/ dlp(l, f) = Answered(l.on_match, f)
          \/ dlp(l, f) = Answered(l.on_match, f \cup {"annotated"})
          \/ dlp(l, f) = Answered("deny", f)
          \/ dlp(l, f) = Pass(f \cup {"BodyNotScanned"})
          \/ dlp(l, f) = Pass(f)
      BY DEF dlp
    <2>3. Ruled(l, f) = dlp(l, f)
      BY <1>3 DEF Ruled
    <2>4. l.on_match = "allow" => Allows(l)
      BY <1>3 DEF Allows
    <2> QED
      BY <1>1, <1>2, <2>1, <2>2, <2>3, <2>4
  <1>4. CASE l.is # "dlp"
    <2>1. mcp(f) \in {Pass(f), Answered("deny", f), Pass(f \cup {"McpToolsList"})}
      BY DEF mcp
    <2>2. Ruled(l, f) = mcp(f)
      BY <1>4 DEF Ruled
    <2> QED
      BY <1>1, <1>2, <2>1, <2>2
  <1> QED
    BY <1>3, <1>4

\* The layer's turn.
Asked(l, v) == IF v.is # "pass" THEN v ELSE IF l.is = "dlp" THEN dlp(l, v.flags) ELSE mcp(v.flags)

\* A layer is asked only if those before it passed.
LEMMA AskedIs ==
    ASSUME NEW l \in Layer, NEW v \in Verdict
    PROVE  /\ Asked(l, v) \in Verdict /\ v.flags \subseteq Asked(l, v).flags
           /\ v.is # "pass" => Asked(l, v) = v
           /\ v.is = "pass" => Asked(l, v) = Ruled(l, v.flags)
           /\ v.is = "pass" /\ Asked(l, v).is = "allow" => Allows(l)
  <1>1. v.flags \in SUBSET FlagNames
    BY DEF Verdict
  <1>2. v.is # "pass" => Asked(l, v) = v
    BY DEF Asked
  <1>3. v.is = "pass" => Asked(l, v) = Ruled(l, v.flags)
    BY DEF Asked, Ruled
  <1>4. /\ Ruled(l, v.flags) \in Verdict /\ v.flags \subseteq Ruled(l, v.flags).flags
        /\ Ruled(l, v.flags).is = "allow" => Allows(l)
    BY <1>1, RuledIs
  <1> QED
    BY <1>2, <1>3, <1>4

\* A layer is reached unless one in front of it refuses or allows, and what it says stays said.
LEMMA DecisionIs ==
    ASSUME setup.layers \in Seq(Layer)
    PROVE  /\ Decision \in Verdict
           /\ \A n \in 1..Len(setup.layers) :
                 (\A m \in 1..(n - 1) : ~Allows(setup.layers[m])) /\ Decision.is # "deny"
                 => \E f \in SUBSET FlagNames :
                       /\ Ruled(setup.layers[n], f).is # "deny"
                       /\ Ruled(setup.layers[n], f).flags \subseteq Decision.flags
  <1> DEFINE N == Len(setup.layers)
             V == Verdict
             G(n, t) == Asked(setup.layers[n], t)
             F == [n \in 1..N |-> [t \in V |-> G(n, t)]]
             first == Pass({})
             Rec(f) == f = [n \in 0..N |-> IF n = 0 THEN first ELSE G(n, f[n - 1])]
             upto == CHOOSE f : Rec(f)
  <1>1. N \in Nat
    OBVIOUS
  <1>2. first \in V
    BY DEF Pass, Verdict
  <1>3. \A n \in 1..N, t \in V : G(n, t) \in V
    <2> SUFFICES ASSUME NEW n \in 1..N, NEW t \in V PROVE G(n, t) \in V
      OBVIOUS
    <2>1. setup.layers[n] \in Layer
      OBVIOUS
    <2> QED
      BY <2>1, AskedIs
  <1>4. Decision = upto[N]
    BY DEF Decision, Asked
  <1> HIDE DEF N, G, V, first
  <1>5. F \in StepsOf(N, V)
    BY <1>3 DEF StepsOf
  <1>6. \A n \in 1..N, t \in V : F[n][t] = G(n, t)
    OBVIOUS
  <1> HIDE DEF F
  <1>7. PICK f \in [0..N -> V] : Stepwise(f, N, first, F)
    BY <1>1, <1>2, <1>5, Recursion
  <1>8. f[0] = first /\ \A n \in 1..N : f[n] = F[n][f[n - 1]]
    BY <1>7 DEF Stepwise
  <1>9. \A n \in 1..N : f[n] = G(n, f[n - 1])
    <2> SUFFICES ASSUME NEW n \in 1..N PROVE f[n] = G(n, f[n - 1])
      OBVIOUS
    <2>1. n - 1 \in 0..N
      BY <1>1
    <2>2. f[n - 1] \in V
      BY <2>1
    <2> QED
      BY <1>6, <1>8, <2>2
  <1>10. Rec(f)
    <2>1. \A n \in 0..N : f[n] = IF n = 0 THEN first ELSE G(n, f[n - 1])
      <3> SUFFICES ASSUME NEW n \in 0..N PROVE f[n] = IF n = 0 THEN first ELSE G(n, f[n - 1])
        OBVIOUS
      <3>1. CASE n = 0
        BY <1>8, <3>1
      <3>2. CASE n # 0
        <4>1. n \in 1..N
          BY <1>1, <3>2
        <4> QED
          BY <1>9, <3>2, <4>1
      <3> QED
        BY <3>1, <3>2
    <2> QED
      BY <2>1
  <1>11. Rec(upto)
    BY <1>10
  <1> HIDE DEF upto
  <1>12. upto[0] = first
    BY <1>1, <1>11
  <1>13. \A n \in 1..N : upto[n] = G(n, upto[n - 1])
    <2> SUFFICES ASSUME NEW n \in 1..N PROVE upto[n] = G(n, upto[n - 1])
      OBVIOUS
    <2>1. n \in 0..N /\ n # 0
      BY <1>1
    <2> QED
      BY <1>11, <2>1
  <1>14. \A n \in 0..N : upto[n] \in V
    <2> DEFINE T == {k \in 0..N : upto[k] \in V}
    <2>1. 0 \in T
      BY <1>1, <1>2, <1>12
    <2>2. ASSUME NEW k \in 0..(N - 1), k \in T PROVE k + 1 \in T
      <3>1. k + 1 \in 1..N /\ k + 1 \in 0..N /\ (k + 1) - 1 = k
        BY <1>1
      <3> QED
        BY <1>3, <1>13, <2>2, <3>1
    <2>3. \A k \in 0..N : k \in T
      <3> HIDE DEF T
      <3> QED
        BY <1>1, <2>1, <2>2, UpTo
    <2> QED
      BY <2>3
  <1>15. upto \in [0..N -> V]
    BY <1>11, <1>14
  <1>16. N \in 0..N
    BY <1>1
  <1> DEFINE ls == setup.layers
  <1>17. /\ \A n \in 1..N : ls[n] \in Layer /\ upto[n] = Asked(ls[n], upto[n - 1])
         /\ \A n \in 0..N : upto[n] \in Verdict
    BY <1>13, <1>14 DEF G, N, V
  <1>18. first.is = "pass"
    BY DEF first, Pass
  <1> HIDE DEF ls
  <1>19. ASSUME NEW n \in 1..N, \A m \in 1..(n - 1) : ~Allows(ls[m]), upto[N].is # "deny"
         PROVE  \E fl \in SUBSET FlagNames :
                    Ruled(ls[n], fl).is # "deny" /\ Ruled(ls[n], fl).flags \subseteq upto[N].flags
    <2>0. n \in Nat /\ n - 1 \in 0..N /\ n \in 0..N
      BY <1>1
    <2> DEFINE later == {k \in 0..N : k >= n - 1 =>
                            /\ upto[n - 1].is = "deny" => upto[k].is = "deny"
                            /\ k >= n => /\ upto[n].is = "deny" => upto[k].is = "deny"
                                         /\ upto[n].flags \subseteq upto[k].flags}
               T == {k \in 0..N : k < n => upto[k].is \in {"pass", "deny"}}
    <2>1. 0 \in T
      BY <1>1, <1>12, <1>18
    <2>2. ASSUME NEW k \in 0..(N - 1), k \in T PROVE k + 1 \in T
      <3> SUFFICES ASSUME k + 1 < n PROVE upto[k + 1].is \in {"pass", "deny"}
        BY <1>1
      <3>1. k + 1 \in 1..N /\ k + 1 \in 0..N /\ (k + 1) - 1 = k /\ k \in 0..N /\ k < n /\ k + 1 \in 1..(n - 1)
        BY <1>1, <2>0
      <3>2. upto[k].is \in {"pass", "deny"}
        BY <2>2, <3>1
      <3>3. upto[k + 1] = Asked(ls[k + 1], upto[k]) /\ ls[k + 1] \in Layer /\ upto[k] \in Verdict
        BY <1>17, <3>1
      <3>4. upto[k + 1].is \in {"pass", "deny", "allow"}
        BY <1>17, <3>1 DEF Verdict
      <3>5. ~Allows(ls[k + 1])
        BY <1>19, <3>1
      <3> QED
        BY <3>2, <3>3, <3>4, <3>5, AskedIs
    <2>3. \A k \in 0..N : k \in T
      <3> HIDE DEF T
      <3> QED
        BY <1>1, <2>1, <2>2, UpTo
    <2>4. upto[n - 1].is \in {"pass", "deny"}
      BY <2>0, <2>3
    <2>5. 0 \in later
      BY <1>1, <2>0
    <2>6. ASSUME NEW k \in 0..(N - 1), k \in later PROVE k + 1 \in later
      <3>1. k + 1 \in 1..N /\ k + 1 \in 0..N /\ (k + 1) - 1 = k /\ k \in 0..N /\ k \in Nat
        BY <1>1
      <3>2. upto[k + 1] = Asked(ls[k + 1], upto[k]) /\ ls[k + 1] \in Layer /\ upto[k] \in Verdict
        BY <1>17, <3>1
      <3>3. upto[k].flags \subseteq upto[k + 1].flags /\ (upto[k].is # "pass" => upto[k + 1] = upto[k])
        BY <3>2, AskedIs
      <3>4. CASE k + 1 < n - 1
        BY <2>0, <3>1, <3>4
      <3>5. CASE k + 1 = n - 1
        BY <2>0, <3>1, <3>5
      <3>6. CASE k + 1 = n
        <4>1. k = n - 1
          BY <2>0, <3>1, <3>6
        <4> QED
          BY <3>1, <3>3, <3>6, <4>1
      <3>7. CASE k + 1 > n
        <4>1. k >= n /\ k >= n - 1
          BY <2>0, <3>1, <3>7
        <4>2. /\ upto[n - 1].is = "deny" => upto[k].is = "deny"
              /\ upto[n].is = "deny" => upto[k].is = "deny"
              /\ upto[n].flags \subseteq upto[k].flags
          BY <2>6, <4>1
        <4> QED
          BY <3>1, <3>3, <4>2
      <3> QED
        BY <2>0, <3>1, <3>4, <3>5, <3>6, <3>7
    <2>7. \A k \in 0..N : k \in later
      <3> HIDE DEF later
      <3> QED
        BY <1>1, <2>5, <2>6, UpTo
    <2>8. N >= n /\ N >= n - 1 /\ N \in later
      BY <1>1, <1>16, <2>0, <2>7
    <2>9. upto[n - 1].is # "deny" /\ upto[n].is # "deny" /\ upto[n].flags \subseteq upto[N].flags
      BY <1>19, <2>8
    <2>10. upto[n - 1].is = "pass"
      BY <2>4, <2>9
    <2> DEFINE given == upto[n - 1].flags
    <2>11. upto[n] = Asked(ls[n], upto[n - 1]) /\ ls[n] \in Layer /\ upto[n - 1] \in Verdict
      BY <1>17, <2>0
    <2>12. upto[n] = Ruled(ls[n], given)
      BY <2>10, <2>11, AskedIs
    <2>13. given \in SUBSET FlagNames
      BY <2>11 DEF Verdict
    <2> HIDE DEF given
    <2> QED
      BY <2>9, <2>12, <2>13
  <1>20. upto[N] \in Verdict
    BY <1>16, <1>17
  <1> QED
    BY <1>4, <1>19, <1>20 DEF N, ls

-----------------------------------------------------------------------------
(***************************************************************************)
(* What a routed origin streams.                                           *)
(***************************************************************************)

\* Pieces made of one sequence.
LEMMA EachIs ==
    ASSUME NEW S, NEW N \in Nat, NEW g \in [1..N -> Seq(S)]
    PROVE  FlattenSeq(g) \in Seq(S)
  <1>1. g \in Seq(Seq(S))
    OBVIOUS
  <1> QED
    BY <1>1, FlattenHas

Spoken == {u \in Unit : u.k \in {"text", "call"}}

\* The events of a turn are units.
LEMMA EventsOfIs ==
    ASSUME NEW turn \in Seq(Spoken), NEW dialect, NEW style
    PROVE  EventsOf(dialect, turn, style) \in Seq(Unit)
  <1> DEFINE N == Len(turn)
             calls == Only(turn, "call")
             Index(b) == CHOOSE n \in 0..(Len(calls) - 1) : calls[n + 1] = b
             Openai(b) ==
                CASE b.k = "text" -> <<Text(b.v)>>
                  [] b.k = "call" /\ style = "at once" -> <<U("callargs", Index(b), b.v)>>
                  [] b.k = "call" /\ style = "together" -> <<U("call", Index(b), b.v)>>
                  [] OTHER -> <<U("call", Index(b), b.v), U("args", Index(b), b.v)>>
             Late(b) == IF style = "together" /\ b.k = "call" THEN <<U("args", Index(b), b.v)>> ELSE << >>
             Anthropic(n) ==
                <<IF turn[n].k = "text" THEN U("text_start", n - 1, 0) ELSE U("tool_start", n - 1, turn[n].v),
                  IF turn[n].k = "text" THEN U("text_delta", n - 1, turn[n].v) ELSE U("json_delta", n - 1, turn[n].v),
                  U("block_stop", n - 1, 0)>>
             a == [n \in 1..N |-> Openai(turn[n])]
             b == [n \in 1..N |-> Late(turn[n])]
             c == [n \in 1..N |-> Anthropic(n)]
             stop == IF calls = << >> THEN 0 ELSE 1
             role == <<Mark("role")>>
             done == <<U("finish", 0, stop), Mark("done")>>
             start == <<Mark("message_start")>>
             end == <<U("message_delta", 0, stop), Mark("message_stop")>>
  <1>1. EventsOf(dialect, turn, style) =
            IF dialect = "openai" THEN role \o FlattenSeq(a) \o FlattenSeq(b) \o done
            ELSE start \o FlattenSeq(c) \o end
    BY DEF EventsOf
  <1>2. N \in Nat /\ turn \in Seq(Unit)
    <2>1. \A n \in 1..Len(turn) : turn[n] \in Unit
      BY DEF Spoken
    <2> QED
      BY <2>1
  <1>3. ASSUME NEW n \in 1..N
        PROVE  turn[n].k \in {"text", "call"} /\ turn[n].v \in Int /\ (turn[n].k = "call" => Index(turn[n]) \in Int)
    <2>1. turn[n] \in Spoken /\ turn[n] \in Unit
      BY DEF Spoken
    <2>2. turn[n].k \in {"text", "call"} /\ turn[n].v \in Int
      BY <2>1 DEF Spoken, Unit
    <2>3. turn[n].k = "call" => Index(turn[n]) \in Int
      <3> SUFFICES ASSUME turn[n].k = "call" PROVE Index(turn[n]) \in Int
        OBVIOUS
      <3> DEFINE I == {m \in 1..N : turn[m].k = "call"}
      <3>1. n \in I /\ calls = At(turn, I)
        BY DEF Only
      <3> HIDE DEF I, calls
      <3> DEFINE t == At(turn, I)
      <3>a. t \in Seq(Unit) /\ \A p \in 1..Len(turn) : p \in I => \E m \in 1..Len(t) : t[m] = turn[p]
        BY <1>2, AtHas
      <3> HIDE DEF t
      <3>2. calls \in Seq(Unit) /\ \A p \in 1..N : p \in I => \E m \in 1..Len(calls) : calls[m] = turn[p]
        BY <3>1, <3>a DEF t
      <3>3. PICK m \in 1..Len(calls) : calls[m] = turn[n]
        BY <3>1, <3>2
      <3>4. m - 1 \in 0..(Len(calls) - 1) /\ (m - 1) + 1 = m
        BY <3>2
      <3> DEFINE Is(i) == calls[i + 1] = turn[n]
                 R == 0..(Len(calls) - 1)
      <3>5. \E i \in R : Is(i)
        BY <3>3, <3>4
      <3>6. Index(turn[n]) = CHOOSE i \in R : Is(i)
        OBVIOUS
      <3>7. \A i \in R : i \in Int
        OBVIOUS
      <3> HIDE DEF Index, R, Is
      <3>8. (CHOOSE i \in R : Is(i)) \in R
        BY <3>5
      <3> QED
        BY <3>6, <3>7, <3>8
    <2> QED
      BY <2>2, <2>3
  <1> HIDE DEF Index
  <1>4. \A k \in Kinds, i \in Int, v \in Int : U(k, i, v) \in Unit
    BY UnitIs
  <1>5. {"text", "call", "args", "callargs", "text_start", "tool_start", "text_delta", "json_delta", "block_stop",
         "finish", "done", "role", "message_start", "message_delta", "message_stop"} \subseteq Kinds
    BY DEF Kinds
  <1> HIDE DEF calls
  <1>6. ASSUME NEW n \in 1..N
        PROVE  Openai(turn[n]) \in Seq(Unit) /\ Late(turn[n]) \in Seq(Unit) /\ Anthropic(n) \in Seq(Unit)
    <2> DEFINE u == turn[n]
               i == Index(u)
    <2>1. u.k \in {"text", "call"} /\ u.v \in Int /\ (u.k = "call" => i \in Int) /\ n - 1 \in Int
      BY <1>3
    <2> HIDE DEF i
    <2>2. Text(u.v) \in Unit
      BY <1>4, <1>5, <2>1 DEF Text
    <2>3. u.k = "call" => U("callargs", i, u.v) \in Unit /\ U("call", i, u.v) \in Unit /\ U("args", i, u.v) \in Unit
      BY <1>4, <1>5, <2>1
    <2>4. Openai(u) \in Seq(Unit)
      <3>1. u.k = "text" => Openai(u) = <<Text(u.v)>>
        OBVIOUS
      <3>2. u.k # "text" => \/ Openai(u) = <<U("callargs", i, u.v)>>
                            \/ Openai(u) = <<U("call", i, u.v)>>
                            \/ Openai(u) = <<U("call", i, u.v), U("args", i, u.v)>>
        BY DEF i
      <3> DEFINE x == Text(u.v)
                 y1 == U("callargs", i, u.v)
                 y2 == U("call", i, u.v)
                 y3 == U("args", i, u.v)
                 o == Openai(u)
                 call == u.k # "text"
      <3>3. x \in Unit /\ (call => y1 \in Unit /\ y2 \in Unit /\ y3 \in Unit)
        BY <2>1, <2>2, <2>3
      <3>4. (~call => o = <<x>>) /\ (call => o = <<y1>> \/ o = <<y2>> \/ o = <<y2, y3>>)
        BY <3>1, <3>2
      <3> HIDE DEF x, y1, y2, y3, o, call
      <3>5. <<x>> \in Seq(Unit)
        BY <3>3
      <3>6. call => <<y1>> \in Seq(Unit)
        BY <3>3
      <3>7. call => <<y2>> \in Seq(Unit)
        BY <3>3
      <3>8. call => <<y2, y3>> \in Seq(Unit)
        BY <3>3
      <3>9. o \in Seq(Unit)
        BY <3>4, <3>5, <3>6, <3>7, <3>8
      <3> QED
        BY <3>9 DEF o
    <2>5. Late(u) \in Seq(Unit)
      <3>1. \/ Late(u) = << >>
            \/ u.k = "call" /\ Late(u) = <<U("args", i, u.v)>>
        BY DEF i
      <3> DEFINE y == U("args", i, u.v)
                 o == Late(u)
      <3>2. o = << >> \/ (y \in Unit /\ o = <<y>>)
        BY <2>3, <3>1
      <3> HIDE DEF y, o
      <3>3. y \in Unit => <<y>> \in Seq(Unit)
        OBVIOUS
      <3>4. << >> \in Seq(Unit)
        OBVIOUS
      <3>5. o \in Seq(Unit)
        BY <3>2, <3>3, <3>4
      <3> QED
        BY <3>5 DEF o
    <2>6. Anthropic(n) \in Seq(Unit)
      <3> DEFINE x == IF u.k = "text" THEN U("text_start", n - 1, 0) ELSE U("tool_start", n - 1, u.v)
                 y == IF u.k = "text" THEN U("text_delta", n - 1, u.v) ELSE U("json_delta", n - 1, u.v)
                 z == U("block_stop", n - 1, 0)
      <3>1. x \in Unit /\ y \in Unit /\ z \in Unit
        BY <1>4, <1>5, <2>1
      <3>2. Anthropic(n) = <<x, y, z>>
        OBVIOUS
      <3> HIDE DEF Anthropic, x, y, z
      <3> QED
        BY <3>1, <3>2
    <2> QED
      BY <2>4, <2>5, <2>6
  <1> HIDE DEF Openai, Late, Anthropic
  <1>7. FlattenSeq(a) \in Seq(Unit) /\ FlattenSeq(b) \in Seq(Unit) /\ FlattenSeq(c) \in Seq(Unit)
    <2>1. a \in [1..N -> Seq(Unit)] /\ b \in [1..N -> Seq(Unit)] /\ c \in [1..N -> Seq(Unit)]
      BY <1>6
    <2> HIDE DEF a, b, c, N
    <2> QED
      BY <1>2, <2>1, EachIs
  <1>8. role \in Seq(Unit) /\ done \in Seq(Unit) /\ start \in Seq(Unit) /\ end \in Seq(Unit)
    <2>1. stop \in Int
      OBVIOUS
    <2> HIDE DEF stop
    <2>2. /\ Mark("role") \in Unit /\ U("finish", 0, stop) \in Unit /\ Mark("done") \in Unit
          /\ Mark("message_start") \in Unit /\ U("message_delta", 0, stop) \in Unit /\ Mark("message_stop") \in Unit
      BY <1>4, <1>5, <2>1 DEF Mark
    <2> HIDE DEF Mark, U
    <2> QED
      BY <2>2
  <1> HIDE DEF a, b, c, role, done, start, end
  <1>9. role \o FlattenSeq(a) \in Seq(Unit) /\ start \o FlattenSeq(c) \in Seq(Unit)
    BY <1>7, <1>8, ConcatProperties
  <1>10. role \o FlattenSeq(a) \o FlattenSeq(b) \in Seq(Unit) /\ start \o FlattenSeq(c) \o end \in Seq(Unit)
    BY <1>7, <1>8, <1>9, ConcatProperties
  <1>11. role \o FlattenSeq(a) \o FlattenSeq(b) \o done \in Seq(Unit)
    BY <1>8, <1>10, ConcatProperties
  <1> QED
    BY <1>1, <1>10, <1>11

\* A streamed turn is text.
LEMMA StreamedIs ==
    ASSUME NEW turn \in Seq(Spoken), NEW dialect, NEW style
    PROVE  Streamed(dialect, turn, style) \in Seq(Unit)
  <1> DEFINE es == EventsOf(dialect, turn, style)
             pads == [n \in 1..SseCap |-> PAD]
             tail == <<CLOSE, NL, NL>>
             Ev(e) ==
                CASE Padded(e, style) -> <<OPEN, e>> \o pads \o tail
                  [] Broad(e, style) -> <<OPEN, e>> \o WIDE \o tail
                  [] OTHER -> Event(e)
             q == [n \in 1..Len(es) |-> Ev(es[n])]
  <1>1. Streamed(dialect, turn, style) = FlattenSeq(q)
    BY DEF Streamed
  <1>2. es \in Seq(Unit)
    BY EventsOfIs
  <1> HIDE DEF es
  <1>3. OPEN \in Unit /\ CLOSE \in Unit /\ NL \in Unit /\ PAD \in Unit /\ U("wide", 1, 0) \in Unit /\ U("wide", 2, 0) \in Unit
    BY DEF OPEN, CLOSE, NL, PAD, Mark, U, Unit, Kinds
  <1>4. pads \in Seq(Unit) /\ tail \in Seq(Unit) /\ WIDE \in Seq(Unit)
    <2>1. SseCap \in Nat
      BY SizesAssumption DEF SizesAssumption
    <2> HIDE DEF PAD, CLOSE, NL, U
    <2> QED
      BY <1>3, <2>1 DEF WIDE
  <1> HIDE DEF pads, tail, WIDE, OPEN
  <1>5. ASSUME NEW e \in Unit PROVE Ev(e) \in Seq(Unit)
    <2>1. <<OPEN, e>> \in Seq(Unit)
      BY <1>3
    <2> DEFINE head == <<OPEN, e>>
    <2> HIDE DEF head
    <2>2. head \o pads \in Seq(Unit) /\ head \o WIDE \in Seq(Unit)
      BY <1>4, <2>1, ConcatProperties DEF head
    <2>3. head \o pads \o tail \in Seq(Unit) /\ head \o WIDE \o tail \in Seq(Unit)
      BY <1>4, <2>2, ConcatProperties
    <2>4. Event(e) \in Seq(Unit)
      BY EventIs
    <2> QED
      BY <2>3, <2>4 DEF head
  <1> HIDE DEF Ev
  <1>6. q \in [1..Len(es) -> Seq(Unit)] /\ Len(es) \in Nat
    BY <1>2, <1>5
  <1> HIDE DEF q
  <1>7. FlattenSeq(q) \in Seq(Unit)
    <2> DEFINE N == Len(es)
    <2>1. q \in [1..N -> Seq(Unit)] /\ N \in Nat
      BY <1>6
    <2> HIDE DEF N
    <2> QED
      BY <2>1, EachIs
  <1> QED
    BY <1>1, <1>7

-----------------------------------------------------------------------------
(***************************************************************************)
(* What is always so of one exchange.                                      *)
(***************************************************************************)

Paths == {"none", "mitm", "upgrade", "plain"}
Typed ==
    /\ setup \in Setups
    /\ phase \in {"idle", "reading", "deciding", "forwarding", "asking",
                  "passing", "gathering", "streaming", "done"}
    /\ ended \in {"no", "refused", "failed", "broken", "whole"}
    /\ req \in [path : Paths, host : Hosts \cup {"none"}, hdr : BOOLEAN, units : Seq(Unit)]
    /\ resp \in [type : {"none", "json", "sse"}, enc : BOOLEAN, units : Seq(Unit)]
    /\ handle \in Body /\ flags \in SUBSET FlagNames
    /\ read \in Seq(Unit) /\ sent \in Seq(Unit) /\ rest \in Seq(Unit)
    /\ pending \in Seq(Unit) /\ got \in Seq(Unit)
    /\ sse \in Session /\ torn \in SUBSET {"character", "event"}

\* Where the body is while the request is dealt with.
Held ==
    \/ handle.is = "empty" /\ req.path = "plain" /\ read = << >>
    \/ /\ handle.is = "streaming" /\ req.path \in {"mitm", "upgrade"} /\ read = << >>
       /\ body_requirement(req.path) = Streaming
    \/ handle.is = "buffered" /\ req.path = "mitm" /\ handle.units = req.units
    \/ /\ handle.is = "over" /\ req.path = "mitm" /\ read \o rest = req.units
       /\ Len(req.units) > body_requirement("mitm")
Requested ==
    /\ phase = "idle" => read = << >>
    /\ phase = "reading" => /\ req.path = "mitm" /\ read \in Fronts(req.units)
                            /\ body_requirement("mitm") # Streaming
    /\ phase = "deciding" => Held
    /\ phase = "forwarding" => sent \o rest = req.units
    /\ sent # << >> => phase = "forwarding" \/ (phase = "done" /\ ended \in {"refused", "broken"})
    /\ Routes => req.host = "none"

\* Where it is while the answer is.
Responded ==
    /\ phase \in {"idle", "reading", "deciding", "forwarding", "asking", "gathering"} => got = << >>
    /\ phase = "passing" => got \o rest = resp.units
    /\ phase = "gathering" =>
            /\ read \o rest = resp.units
            /\ setup.transforms # << >> /\ req.path # "plain" /\ resp.type # "sse"
    /\ phase = "streaming" =>
            /\ setup.transforms # << >> /\ req.path # "plain" /\ resp.type = "sse"
            /\ \A n \in 1..Len(setup.transforms) : ~Limits(n)
    /\ phase = "passing" /\ req.path # "plain" =>
            \A n \in 1..Len(setup.transforms) :
                ~Limits(n) /\ Len(resp.units) > setup.transforms[n].cap

HeldBack == BlankLines(pending) = {} /\ HeldBackIsBounded

BInv ==
    /\ Typed /\ Requested /\ Responded /\ HeldBack
    /\ (phase = "done") = (ended # "no")

\* What a profile is, and when it routes.
LEMMA SetupHas ==
    ASSUME Typed
    PROVE  /\ setup.layers \in Seq(Layer) /\ setup.transforms \in Seq(Transform)
           /\ InOrder(setup.transforms) /\ setup.router \subseteq [client : Dialects, origin : Dialects]
           /\ Routes <=> \E n \in 1..Len(setup.transforms) : setup.transforms[n].is = "router"
  BY SetupsAssumption DEF SetupsAssumption, Typed, Routes

\* The same profile asks for the same.
LEMMA SameSetup ==
    ASSUME setup' = setup
    PROVE  /\ \A p : body_requirement(p)' = body_requirement(p)
           /\ \A n : Limits(n)' <=> Limits(n)
           /\ Routes' <=> Routes
  <1>1. \A p : body_requirement(p)' = body_requirement(p)
    BY DEF body_requirement
  <1>2. \A n : Limits(n)' <=> Limits(n)
    BY DEF Limits
  <1>3. Routes' <=> Routes
    BY DEF Routes
  <1> QED
    BY <1>1, <1>2, <1>3

\* A frame of what is still to come.
LEMMA FrameHas ==
    ASSUME NEW s \in Seq(Unit), s # << >>, NEW f \in Frame(s)
    PROVE  /\ f \in Seq(Unit) /\ After(f, s) \in Seq(Unit) /\ f \o After(f, s) = s
           /\ \E n \in FrameSizes : Len(f) <= n
           /\ f # << >>
  <1>1. f \in Fronts(s) /\ f # << >> /\ \E n \in FrameSizes : Len(f) <= n
    BY FrameIsFront
  <1> QED
    BY <1>1, FrontIs

\* It is moved on.
LEMMA Moved ==
    ASSUME NEW a \in Seq(Unit), NEW s \in Seq(Unit), s # << >>, NEW f \in Frame(s), NEW w, a \o s = w
    PROVE  a \o f \in Seq(Unit) /\ (a \o f) \o After(f, s) = w
  <1>1. f \in Seq(Unit) /\ After(f, s) \in Seq(Unit) /\ f \o After(f, s) = s
    BY FrameHas
  <1> DEFINE b == After(f, s)
  <1>2. b \in Seq(Unit) /\ f \o b = s
    BY <1>1
  <1> HIDE DEF b
  <1>3. (a \o f) \o b = a \o (f \o b)
    <2>1. a \in Seq(Unit) /\ f \in Seq(Unit) /\ b \in Seq(Unit)
      BY <1>1, <1>2
    <2> QED
      BY <2>1, ConcatAssociative, SMTT(30)
  <1>4. a \o f \in Seq(Unit)
    BY <1>1, ConcatProperties
  <1> QED
    BY <1>2, <1>3, <1>4 DEF b

\* Nothing before or after changes nothing.
LEMMA NothingLeft ==
    ASSUME NEW S, NEW a \in Seq(S)
    PROVE  a \o << >> = a /\ << >> \o a = a
  BY ConcatEmptySeq

\* The three bodies that are within their caps.
LEMMA BodiesAre ==
    /\ Empty \in Body /\ InFlight \in Body
    /\ \A s \in Seq(Unit) : Buffered(s) \in Body
  BY DEF Empty, InFlight, Buffered, Body

\* A body over its cap.
LEMMA OverIs ==
    ASSUME NEW s \in Seq(Unit), NEW cap \in Nat, Len(s) > cap
    PROVE  OverLimit(s, cap) \in Body /\ OverLimit(s, cap).is = "over"
  <1>1. cap \in 0..Len(s)
    OBVIOUS
  <1> DEFINE a == SubSeq(s, 1, cap)
  <1>2. a \in Seq(Unit)
    BY <1>1, Halves
  <1>3. OverLimit(s, cap) = [is |-> "over", units |-> a]
    BY DEF OverLimit
  <1> HIDE DEF a
  <1> QED
    BY <1>2, <1>3 DEF Body

\* A session begins.
LEMMA NewSessionIs ==
    NewSession \in Session
  <1> DEFINE none == << >>
  <1>1. none \in Tables
    <2>1. none \in [{} -> Int]
      OBVIOUS
    <2> QED
      BY <2>1 DEF Tables
  <1>2. none \in Seq(Int) /\ NoBlock \in Int
    BY DEF NoBlock
  <1>3. NewSession = [started |-> FALSE, text |-> NoBlock, next |-> 0, tools |-> none, open |-> none]
    BY DEF NewSession
  <1> HIDE DEF none
  <1> QED
    BY <1>1, <1>2, <1>3 DEF Session

\* Nothing is held back.
LEMMA NothingHeld ==
    BlankLines(<< >>) = {} /\ Len(<< >>) <= Max({SseCap} \cup FrameSizes)
  <1> DEFINE S == {SseCap} \cup FrameSizes
  <1>1. S \in SUBSET Nat /\ IsFiniteSet(S) /\ S # {}
    BY SizesAssumption, FS_Union, FS_Singleton DEF SizesAssumption
  <1> HIDE DEF S
  <1>2. S \in SUBSET Int
    BY <1>1
  <1>3. Max(S) \in S
    BY <1>1, <1>2, MaxOf
  <1>4. Max(S) \in Nat
    BY <1>1, <1>3
  <1>5. BlankLines(<< >>) = {}
    BY DEF BlankLines
  <1> QED
    BY <1>4, <1>5 DEF S

\* The invariant is so at first.
LEMMA InitBInv ==
    Init => BInv
  <1> SUFFICES ASSUME Init PROVE BInv
    OBVIOUS
  <1>1. << >> \in Seq(Unit) /\ Empty \in Body
    BY DEF Empty, Body
  <1>2. NoReq \in [path : Paths, host : Hosts \cup {"none"}, hdr : BOOLEAN, units : Seq(Unit)]
    BY <1>1 DEF NoReq, Paths
  <1>3. NoResp \in [type : {"none", "json", "sse"}, enc : BOOLEAN, units : Seq(Unit)]
    BY <1>1 DEF NoResp
  <1>4. Typed
    <2>1. NewSession \in Session
      BY NewSessionIs
    <2> QED
      BY <1>1, <1>2, <1>3, <2>1 DEF Init, Typed
  <1>5. Requested
    BY DEF Init, Requested, NoReq
  <1>6. Responded
    BY DEF Init, Responded
  <1>7. HeldBack
    BY NothingHeld DEF Init, HeldBack, HeldBackIsBounded
  <1> QED
    BY <1>4, <1>5, <1>6, <1>7 DEF BInv, Init

\* A request comes: nothing of it has been read.
LEMMA ArriveBInv ==
    ASSUME BInv, Arrive
    PROVE  BInv'
  <1>1. PICK path \in {"mitm", "upgrade", "plain"}, host \in Hosts, hdr \in BOOLEAN, s \in Bodies :
            /\ req' = [path |-> path, host |-> host, hdr |-> hdr, units |-> s]
            /\ handle' = IF path = "plain" THEN Empty ELSE InFlight
            /\ phase' = IF path # "plain" /\ body_requirement(path) # Streaming THEN "reading" ELSE "deciding"
    BY DEF Arrive
  <1>2. /\ phase = "idle" /\ ~Routes
        /\ UNCHANGED <<setup, ended, read, flags, sent, resp, rest, pending, sse, torn, got>>
    BY DEF Arrive, response
  <1>3. Typed /\ Requested /\ Responded /\ HeldBack /\ (phase = "done") = (ended # "no")
    BY DEF BInv
  <1>4. s \in Seq(Unit) /\ read = << >> /\ sent = << >> /\ got = << >>
    BY <1>2, <1>3, UnitsAssumption DEF UnitsAssumption, Requested, Responded
  <1>5. Typed'
    <2>1. req' \in [path : Paths, host : Hosts \cup {"none"}, hdr : BOOLEAN, units : Seq(Unit)]
      BY <1>1, <1>4 DEF Paths
    <2>2. handle' \in Body
      BY <1>1, BodiesAre
    <2> QED
      BY <1>1, <1>2, <1>3, <2>1, <2>2 DEF Typed
  <1>6. Requested'
    <2>1. \A p : body_requirement(p)' = body_requirement(p)
      BY <1>2, SameSetup
    <2>2. phase' = "reading" => req'.path = "mitm" /\ read' \in Fronts(req'.units) /\ body_requirement("mitm") # Streaming
      <3> SUFFICES ASSUME phase' = "reading"
                   PROVE  req'.path = "mitm" /\ read' \in Fronts(req'.units) /\ body_requirement("mitm") # Streaming
        OBVIOUS
      <3>1. path # "plain" /\ body_requirement(path) # Streaming
        BY <1>1
      <3>2. path = "mitm"
        BY <3>1 DEF body_requirement
      <3>3. << >> \in Fronts(s)
        <4>1. << >> \o s = s /\ << >> \in Seq(Unit)
          BY <1>4, NothingLeft
        <4>2. << >> \in Fronts(<< >> \o s)
          BY <1>4, <4>1, IsFront
        <4> QED
          BY <4>1, <4>2
      <3> QED
        BY <1>1, <1>2, <1>4, <3>1, <3>2, <3>3
    <2>3. phase' = "deciding" => Held'
      <3> SUFFICES ASSUME phase' = "deciding" PROVE Held'
        OBVIOUS
      <3>1. CASE path = "plain"
        <4>1. handle'.is = "empty" /\ req'.path = "plain" /\ read' = << >>
          BY <1>1, <1>2, <1>4, <3>1 DEF Empty
        <4> QED
          BY <4>1 DEF Held
      <3>2. CASE path # "plain"
        <4>1. handle'.is = "streaming" /\ req'.path = path /\ path \in {"mitm", "upgrade"} /\ read' = << >>
          BY <1>1, <1>2, <1>4, <3>2 DEF InFlight
        <4>2. body_requirement(path) = Streaming
          BY <1>1, <3>2
        <4> QED
          BY <2>1, <4>1, <4>2 DEF Held
      <3> QED
        BY <3>1, <3>2
    <2>4. ~Routes'
      BY <1>2, SameSetup
    <2>5. phase' \in {"reading", "deciding"} /\ sent' = << >>
      BY <1>1, <1>2, <1>4
    <2> QED
      BY <2>1, <2>2, <2>3, <2>4, <2>5 DEF Requested
  <1>7. Responded'
    <2>1. phase' \in {"reading", "deciding"} /\ got' = << >>
      BY <1>1, <1>2, <1>4
    <2> QED
      BY <2>1 DEF Responded
  <1>8. HeldBack'
    BY <1>2, <1>3 DEF HeldBack, HeldBackIsBounded
  <1>9. (phase' = "done") = (ended' # "no")
    BY <1>1, <1>2, <1>3
  <1> QED
    BY <1>5, <1>6, <1>7, <1>8, <1>9 DEF BInv

\* Over the cap, what was read and what was not are the body.
LEMMA ReadFrameBInv ==
    ASSUME BInv, ReadFrame
    PROVE  BInv'
  <1> DEFINE cap == body_requirement(req.path)
             left == After(read, req.units)
  <1>1. PICK f \in Frame(left) :
            /\ read' = read \o f
            /\ IF Len(read \o f) > cap
               THEN /\ handle' = OverLimit(read \o f, cap) /\ phase' = "deciding"
                    /\ rest' = After(read \o f, req.units)
               ELSE UNCHANGED <<handle, phase, rest>>
    BY DEF ReadFrame, Collected
  <1>2. /\ phase = "reading" /\ Len(read) < Len(req.units)
        /\ UNCHANGED <<setup, ended, req, flags, sent, resp, pending, sse, torn, got>>
    BY DEF ReadFrame
  <1>3. Typed /\ Requested /\ Responded /\ HeldBack /\ (phase = "done") = (ended # "no")
    BY DEF BInv
  <1> DEFINE s == req.units
             r == read \o f
  <1>4. /\ s \in Seq(Unit) /\ read \in Fronts(s) /\ req.path = "mitm" /\ cap \in Nat /\ cap = body_requirement("mitm")
        /\ sent = << >> /\ got = << >> /\ (Routes => req.host = "none")
    <2>1. s \in Seq(Unit)
      BY <1>3 DEF Typed
    <2>2. /\ read \in Fronts(s) /\ req.path = "mitm" /\ body_requirement("mitm") # Streaming
          /\ sent = << >> /\ (Routes => req.host = "none")
      BY <1>2, <1>3 DEF Requested
    <2>3. body_requirement("mitm") \in Requirement
      BY <1>3, SetupHas, RequirementIs
    <2>4. got = << >>
      BY <1>2, <1>3 DEF Responded
    <2> QED
      BY <2>1, <2>2, <2>3, <2>4 DEF Requirement
  <1> HIDE DEF cap
  <1>5. /\ r \in Fronts(s) /\ r \in Seq(Unit) /\ After(r, s) \in Seq(Unit) /\ r \o After(r, s) = s
        /\ Len(r) <= Len(s)
    <2>0. s \in Seq(Unit) /\ read \in Fronts(s) /\ left = After(read, s)
      BY <1>4
    <2> HIDE DEF s, left
    <2>a. After(read, s) \in Seq(Unit) /\ Len(After(read, s)) = Len(s) - Len(read)
      BY <2>0, FrontIs
    <2>1. left \in Seq(Unit) /\ Len(left) = Len(s) - Len(read)
      BY <2>0, <2>a
    <2>2. left # << >>
      <3>1. Len(left) # 0
        BY <1>2, <1>4, <2>1 DEF s
      <3> QED
        BY <2>1, <3>1, EmptySeq
    <2>3. f \in Fronts(left)
      BY <2>1, <2>2, FrameIsFront
    <2>4. r \in Fronts(s)
      BY <2>0, <2>3, LongerFront
    <2> HIDE DEF r
    <2> QED
      BY <2>0, <2>4, FrontIs
  <1>6. read' = r /\ req' = req /\ setup' = setup
    BY <1>1, <1>2
  <1> HIDE DEF r, s
  <1>7. CASE Len(r) > cap
    <2>1. handle' = OverLimit(r, cap) /\ phase' = "deciding" /\ rest' = After(r, s)
      BY <1>1, <1>7 DEF r, s
    <2>2. handle' \in Body /\ handle'.is = "over"
      BY <1>4, <1>5, <1>7, <2>1, OverIs
    <2>3. Typed'
      BY <1>2, <1>3, <1>5, <1>6, <2>1, <2>2 DEF Typed
    <2>4. Held'
      <3>1. Len(s) > cap
        <4>1. Len(s) \in Nat /\ Len(r) \in Nat
          BY <1>4, <1>5
        <4> QED
          BY <1>4, <1>5, <1>7, <4>1
      <3>2. body_requirement("mitm")' = cap
        BY <1>4, <1>6, SameSetup
      <3>3. read' \o rest' = req'.units /\ Len(req'.units) > cap /\ req'.path = "mitm"
        BY <1>4, <1>5, <1>6, <2>1, <3>1 DEF s
      <3> QED
        BY <2>2, <3>2, <3>3 DEF Held
    <2>5. Requested'
      <3>1. sent' = << >> /\ (Routes' => req'.host = "none")
        BY <1>2, <1>4, <1>6, SameSetup
      <3> QED
        BY <2>1, <2>4, <3>1 DEF Requested
    <2>6. Responded'
      BY <1>2, <1>4, <2>1 DEF Responded
    <2> QED
      BY <1>2, <1>3, <2>1, <2>3, <2>5, <2>6 DEF BInv, HeldBack, HeldBackIsBounded
  <1>8. CASE ~(Len(r) > cap)
    <2>1. UNCHANGED <<handle, phase, rest>>
      BY <1>1, <1>8 DEF r
    <2>2. Typed'
      BY <1>2, <1>3, <1>5, <1>6, <2>1 DEF Typed
    <2>3. Requested'
      <3>1. body_requirement("mitm")' = body_requirement("mitm") /\ (Routes' => req'.host = "none")
        BY <1>4, <1>6, SameSetup
      <3>2. body_requirement("mitm") # Streaming /\ req.path = "mitm"
        BY <1>2, <1>3 DEF Requested
      <3>3. read' \in Fronts(req'.units)
        BY <1>5, <1>6 DEF s
      <3> QED
        BY <1>2, <1>4, <1>6, <2>1, <3>1, <3>2, <3>3 DEF Requested
    <2>4. Responded'
      BY <1>2, <1>4, <2>1 DEF Responded
    <2> QED
      BY <1>2, <1>3, <2>1, <2>2, <2>3, <2>4 DEF BInv, HeldBack, HeldBackIsBounded
  <1> QED
    BY <1>7, <1>8

\* What was read is the body.
LEMMA ReadAllBInv ==
    ASSUME BInv, ReadAll
    PROVE  BInv'
  <1>1. /\ phase = "reading" /\ read = req.units /\ handle' = Buffered(read) /\ phase' = "deciding"
        /\ UNCHANGED <<setup, ended, req, read, flags, sent, resp, rest, pending, sse, torn, got>>
    BY DEF ReadAll, response
  <1>2. Typed /\ Requested /\ Responded /\ HeldBack /\ (phase = "done") = (ended # "no")
    BY DEF BInv
  <1>3. /\ req.path = "mitm" /\ sent = << >> /\ got = << >> /\ (Routes => req.host = "none")
    BY <1>1, <1>2 DEF Requested, Responded
  <1>4. handle' \in Body /\ handle'.is = "buffered" /\ handle'.units = req.units
    BY <1>1, <1>2, BodiesAre DEF Typed, Buffered
  <1>5. Typed'
    BY <1>1, <1>2, <1>4 DEF Typed
  <1>6. Requested'
    <2>1. Held'
      BY <1>1, <1>3, <1>4 DEF Held
    <2>2. Routes' => req'.host = "none"
      BY <1>1, <1>3, SameSetup
    <2> QED
      BY <1>1, <1>3, <2>1, <2>2 DEF Requested
  <1>7. Responded'
    BY <1>1, <1>3 DEF Responded
  <1> QED
    BY <1>1, <1>2, <1>5, <1>6, <1>7 DEF BInv, HeldBack, HeldBackIsBounded

\* What is sent ahead and what is left are the body, however it was held.
LEMMA DecideBInv ==
    ASSUME BInv, Decide
    PROVE  BInv'
  <1>1. /\ phase = "deciding" /\ flags' = Decision.flags
        /\ IF Decision.is = "deny"
           THEN phase' = "done" /\ ended' = "refused" /\ UNCHANGED <<sent, rest>>
           ELSE /\ phase' = "forwarding"
                /\ sent' = IF handle.is = "buffered" THEN handle.units ELSE read
                /\ rest' = IF handle.is = "over" THEN rest
                           ELSE IF handle.is = "buffered" THEN << >> ELSE req.units
                /\ UNCHANGED ended
        /\ UNCHANGED <<setup, req, read, handle, resp, pending, sse, torn, got>>
    BY DEF Decide
  <1>2. Typed /\ Requested /\ Responded /\ HeldBack /\ (phase = "done") = (ended # "no")
    BY DEF BInv
  <1>3. Held /\ sent = << >> /\ got = << >> /\ (Routes => req.host = "none")
    BY <1>1, <1>2 DEF Requested, Responded
  <1>4. flags' \in SUBSET FlagNames
    <2>1. Decision \in Verdict
      BY <1>2, SetupHas, DecisionIs
    <2> QED
      BY <1>1, <2>1 DEF Verdict
  <1>5. req.units \in Seq(Unit) /\ handle.units \in Seq(Unit) /\ << >> \in Seq(Unit) /\ read \in Seq(Unit) /\ rest \in Seq(Unit)
    BY <1>2 DEF Typed, Body
  <1>6. Typed'
    BY <1>1, <1>2, <1>4, <1>5 DEF Typed
  <1>7. Routes' => req'.host = "none"
    BY <1>1, <1>3, SameSetup
  <1>8. CASE Decision.is = "deny"
    BY <1>1, <1>2, <1>3, <1>6, <1>7, <1>8 DEF BInv, HeldBack, HeldBackIsBounded, Requested, Responded
  <1>9. CASE Decision.is # "deny"
    <2>1. sent' \o rest' = req'.units
      <3>1. req.units \o << >> = req.units /\ << >> \o req.units = req.units
        BY <1>5, NothingLeft
      <3> QED
        BY <1>1, <1>3, <1>9, <3>1 DEF Held
    <2>2. Requested'
      BY <1>1, <1>7, <1>9, <2>1 DEF Requested
    <2>3. Responded'
      BY <1>1, <1>3, <1>9 DEF Responded
    <2> QED
      BY <1>1, <1>2, <1>6, <1>9, <2>2, <2>3 DEF BInv, HeldBack, HeldBackIsBounded
  <1> QED
    BY <1>8, <1>9

\* What is sent and what is left stay the body.
LEMMA ForwardBInv ==
    ASSUME BInv, Forward
    PROVE  BInv'
  <1>1. PICK f \in Frame(rest) : sent' = sent \o f /\ rest' = After(f, rest)
    BY DEF Forward
  <1>2. /\ phase = "forwarding" /\ rest # << >>
        /\ UNCHANGED <<setup, phase, ended, req, read, handle, flags, resp, pending, sse, torn, got>>
    BY DEF Forward
  <1>3. Typed /\ Requested /\ Responded /\ HeldBack /\ (phase = "done") = (ended # "no")
    BY DEF BInv
  <1>4. rest \in Seq(Unit) /\ sent \in Seq(Unit) /\ sent \o rest = req.units
    BY <1>2, <1>3 DEF Typed, Requested
  <1>5. sent' \in Seq(Unit) /\ rest' \in Seq(Unit) /\ sent' \o rest' = req.units
    <2>1. rest # << >>
      BY <1>2
    <2>2. After(f, rest) \in Seq(Unit)
      BY <1>4, <2>1, FrameHas
    <2> DEFINE w == req.units
    <2>3. sent \o rest = w
      BY <1>4
    <2> HIDE DEF w
    <2>4. sent \o f \in Seq(Unit) /\ (sent \o f) \o After(f, rest) = w
      BY <1>4, <2>1, <2>3, Moved
    <2> QED
      BY <1>1, <1>2, <2>2, <2>4 DEF w
  <1>6. Routes' => req'.host = "none"
    BY <1>2, <1>3, SameSetup DEF Requested
  <1>7. Typed'
    BY <1>2, <1>3, <1>5 DEF Typed
  <1>8. Requested'
    BY <1>2, <1>5, <1>6 DEF Requested
  <1>9. Responded'
    BY <1>2, <1>3 DEF Responded
  <1> QED
    BY <1>2, <1>3, <1>7, <1>8, <1>9 DEF BInv, HeldBack, HeldBackIsBounded

\* The answer begins.
AnswerType == [type : {"json", "sse"}, enc : BOOLEAN, units : Seq(Unit)]

\* An answer begins: nothing of it has been read.
LEMMA BeginBInv ==
    ASSUME BInv, phase \in {"forwarding", "asking"}, NEW r \in AnswerType, Begin(r)
    PROVE  BInv'
  <1>1. /\ resp' = r /\ rest' = r.units /\ phase' = Routing(r.type)
        /\ IF phase' = "done" THEN ended' = "failed" /\ got' = Notice ELSE UNCHANGED <<ended, got>>
        /\ req' = [req EXCEPT !.units = << >>, !.hdr = FALSE]
        /\ read' = << >> /\ handle' = Empty /\ flags' = {} /\ sent' = << >>
        /\ UNCHANGED <<setup, pending, sse, torn>>
    BY DEF Begin
  <1>2. Typed /\ Requested /\ Responded /\ HeldBack /\ (phase = "done") = (ended # "no")
    BY DEF BInv
  <1>3. ended = "no" /\ got = << >> /\ (Routes => req.host = "none")
    BY <1>2 DEF Requested, Responded
  <1>4. r.type \in {"json", "sse"} /\ r.enc \in BOOLEAN /\ r.units \in Seq(Unit)
    BY DEF AnswerType
  <1>5. /\ req' \in [path : Paths, host : Hosts \cup {"none"}, hdr : BOOLEAN, units : Seq(Unit)]
        /\ req'.host = req.host /\ req'.path = req.path
    <2> DEFINE none == << >>
               no == FALSE
               q == [req EXCEPT !.units = none]
    <2>1. none \in Seq(Unit) /\ no \in BOOLEAN
      OBVIOUS
    <2>2. req' = [q EXCEPT !.hdr = no]
      BY <1>1
    <2> HIDE DEF none, no
    <2>3. q \in [path : Paths, host : Hosts \cup {"none"}, hdr : BOOLEAN, units : Seq(Unit)]
          /\ q.host = req.host /\ q.path = req.path
      BY <1>2, <2>1 DEF Typed
    <2> HIDE DEF q
    <2> QED
      BY <2>1, <2>2, <2>3
  <1>6. CASE req.path = "plain" \/ setup.transforms = << >>
    <2>1. phase' = "passing" /\ got' = << >> /\ ended' = "no"
      BY <1>1, <1>3, <1>6 DEF Routing
    <2>2. Typed'
      BY <1>1, <1>2, <1>3, <1>4, <1>5, <2>1, BodiesAre DEF Typed, AnswerType
    <2>3. Requested'
      BY <1>1, <1>3, <1>5, <2>1, SameSetup DEF Requested
    <2>4. Responded'
      <3>1. << >> \o r.units = r.units
        BY <1>4, NothingLeft
      <3>2. setup.transforms = << >> => Len(setup'.transforms) = 0
        BY <1>1
      <3> QED
        BY <1>1, <1>5, <1>6, <2>1, <3>1, <3>2 DEF Responded
    <2> QED
      BY <1>1, <1>2, <2>1, <2>2, <2>3, <2>4 DEF BInv, HeldBack, HeldBackIsBounded
  <1>7. CASE ~(req.path = "plain" \/ setup.transforms = << >>) /\ r.type = "sse"
    <2>1. \/ /\ phase' = "streaming" /\ got' = << >> /\ ended' = "no"
             /\ \A n \in 1..Len(setup.transforms) : ~Limits(n)
          \/ phase' = "done" /\ got' = Notice /\ ended' = "failed"
      <3>1. \/ /\ phase' = "streaming"
               /\ \A n \in 1..Len(setup.transforms) : supports_streaming(setup.transforms[n])
            \/ phase' = "done"
        BY <1>1, <1>7 DEF Routing
      <3> QED
        BY <1>1, <1>3, <3>1 DEF supports_streaming, Limits
    <2>2. Typed'
      BY <1>1, <1>2, <1>3, <1>4, <1>5, <2>1, BodiesAre, NoticeIs DEF Typed, AnswerType
    <2>3. Requested'
      BY <1>1, <1>3, <1>5, <2>1, SameSetup DEF Requested
    <2>4. Responded'
      BY <1>1, <1>5, <1>7, <2>1, SameSetup DEF Responded
    <2> QED
      BY <1>1, <1>2, <2>1, <2>2, <2>3, <2>4 DEF BInv, HeldBack, HeldBackIsBounded
  <1>8. CASE ~(req.path = "plain" \/ setup.transforms = << >>) /\ r.type # "sse"
    <2>1. phase' = "gathering" /\ got' = << >> /\ ended' = "no"
      BY <1>1, <1>3, <1>8 DEF Routing
    <2>2. Typed'
      BY <1>1, <1>2, <1>3, <1>4, <1>5, <2>1, BodiesAre DEF Typed, AnswerType
    <2>3. Requested'
      BY <1>1, <1>3, <1>5, <2>1, SameSetup DEF Requested
    <2>4. Responded'
      <3>1. << >> \o r.units = r.units
        BY <1>4, NothingLeft
      <3> QED
        BY <1>1, <1>5, <1>8, <2>1, <3>1 DEF Responded
    <2> QED
      BY <1>1, <1>2, <2>1, <2>2, <2>3, <2>4 DEF BInv, HeldBack, HeldBackIsBounded
  <1> QED
    BY <1>6, <1>7, <1>8

\* A server's answer is one that can begin.
LEMMA AnswerBInv ==
    ASSUME BInv, Answer
    PROVE  BInv'
  <1>1. PICK r \in Answers : Begin(r)
    BY DEF Answer
  <1>2. r \in AnswerType
    BY UnitsAssumption DEF UnitsAssumption, AnswerType
  <1>3. phase = "forwarding"
    BY DEF Answer
  <1> QED
    BY <1>1, <1>2, <1>3, BeginBInv

\* A routed origin's turn is one that can begin.
LEMMA TurnBInv ==
    ASSUME BInv, Turn
    PROVE  BInv'
  <1> DEFINE json(t) == <<OPEN>> \o t \o <<CLOSE>>
             error == <<OPEN, Mark("error"), CLOSE>>
             Said(t, style) == CASE style = "json" -> json(t)
                                 [] style = "error" -> error
                                 [] OTHER -> Streamed(Origin, t, style)
             a(t, style) == [type |-> IF style \in Styles THEN "sse" ELSE "json", enc |-> FALSE, units |-> Said(t, style)]
  <1>1. PICK t \in Turns, style \in (IF said = << >> THEN Styles ELSE {}) \cup {"json", "error"} : Begin(a(t, style))
    BY DEF Turn
  <1>2. t \in Seq(Spoken)
    BY UnitsAssumption DEF UnitsAssumption, Spoken
  <1>3. Streamed(Origin, t, style) \in Seq(Unit)
    BY <1>2, StreamedIs
  <1>4. json(t) \in Seq(Unit) /\ error \in Seq(Unit)
    <2> DEFINE x == <<OPEN>>
               y == <<CLOSE>>
    <2>1. OPEN \in Unit /\ CLOSE \in Unit /\ Mark("error") \in Unit
      BY DEF OPEN, CLOSE, Mark, U, Unit, Kinds
    <2> HIDE DEF OPEN, CLOSE, Mark
    <2>2. x \in Seq(Unit) /\ y \in Seq(Unit) /\ error \in Seq(Unit)
      BY <2>1
    <2>3. t \in Seq(Unit)
      BY <1>2 DEF Spoken
    <2> HIDE DEF x, y
    <2>4. x \o t \in Seq(Unit)
      BY <2>2, <2>3, ConcatProperties
    <2>5. x \o t \o y \in Seq(Unit)
      BY <2>2, <2>4, ConcatProperties
    <2> QED
      BY <2>2, <2>5 DEF x, y
  <1> HIDE DEF json, error
  <1> DEFINE u == Said(t, style)
  <1>5. u \in Seq(Unit)
    BY <1>3, <1>4
  <1>6. a(t, style) = [type |-> IF style \in Styles THEN "sse" ELSE "json", enc |-> FALSE, units |-> u]
    OBVIOUS
  <1> HIDE DEF u, a
  <1>7. a(t, style) \in AnswerType
    BY <1>5, <1>6 DEF AnswerType
  <1>8. phase = "asking"
    BY DEF Turn
  <1> QED
    BY <1>1, <1>7, <1>8, BeginBInv

\* What is passed on and what is left stay the answer.
LEMMA PassOnBInv ==
    ASSUME BInv, PassOn
    PROVE  BInv'
  <1>1. PICK f \in Frame(rest) : got' = got \o f /\ rest' = After(f, rest)
    BY DEF PassOn
  <1>2. /\ phase = "passing" /\ rest # << >>
        /\ UNCHANGED <<setup, phase, ended, req, read, handle, flags, sent, resp, pending, sse, torn>>
    BY DEF PassOn, request
  <1>3. Typed /\ Requested /\ Responded /\ HeldBack /\ (phase = "done") = (ended # "no")
    BY DEF BInv
  <1>4. rest \in Seq(Unit) /\ got \in Seq(Unit) /\ got \o rest = resp.units
    BY <1>2, <1>3 DEF Typed, Responded
  <1>5. got' \in Seq(Unit) /\ rest' \in Seq(Unit) /\ got' \o rest' = resp.units
    <2>1. rest # << >>
      BY <1>2
    <2>2. After(f, rest) \in Seq(Unit)
      BY <1>4, <2>1, FrameHas
    <2> DEFINE w == resp.units
    <2>3. got \o rest = w
      BY <1>4
    <2> HIDE DEF w
    <2>4. got \o f \in Seq(Unit) /\ (got \o f) \o After(f, rest) = w
      BY <1>4, <2>1, <2>3, Moved
    <2> QED
      BY <1>1, <2>2, <2>4 DEF w
  <1>6. Typed'
    BY <1>2, <1>3, <1>5 DEF Typed
  <1>7. Requested'
    BY <1>2, <1>3, SameSetup DEF Requested
  <1>8. Responded'
    BY <1>2, <1>3, <1>5, SameSetup DEF Responded
  <1> QED
    BY <1>2, <1>3, <1>6, <1>7, <1>8 DEF BInv, HeldBack, HeldBackIsBounded

\* All has been passed on.
LEMMA PassedOnBInv ==
    ASSUME BInv, PassedOn
    PROVE  BInv'
  <1>1. /\ phase = "passing" /\ phase' = "done" /\ ended' = "whole"
        /\ UNCHANGED <<setup, req, read, handle, flags, sent, resp, rest, pending, sse, torn, got>>
    BY DEF PassedOn, request, response
  <1>2. Typed /\ Requested /\ Responded /\ HeldBack
    BY DEF BInv
  <1>3. Typed'
    BY <1>1, <1>2 DEF Typed
  <1>4. Requested'
    BY <1>1, <1>2, SameSetup DEF Requested
  <1>5. Responded'
    BY <1>1, <1>2 DEF Responded
  <1> QED
    BY <1>1, <1>2, <1>3, <1>4, <1>5 DEF BInv, HeldBack, HeldBackIsBounded

\* How a gathered answer goes on.
Failed == phase' = "done" /\ ended' = "failed" /\ got' = Notice
Sent(h) ==
    /\ phase' = "done" /\ ended' = "whole" /\ got' = Transformed(h).h.units
    /\ ~Transformed(h).err /\ Transformed(h).h.is = "buffered"
Passed(h, s) ==
    /\ phase' = "passing" /\ got' = s /\ ended' = ended
    /\ h.is = "over" /\ \A n \in 1..Len(setup.transforms) : ~Limits(n)

\* A gathered answer fails, is sent or is passed on; it is passed on only if it was over and nothing limits it.
LEMMA FinishIs ==
    ASSUME BInv, NEW h \in Body, h.is \in {"buffered", "over"}, NEW s, Finish(h, s)
    PROVE  (Failed \/ Sent(h) \/ Passed(h, s)) /\ Transformed(h).h.units \in Seq(Unit)
  <1> DEFINE a == Transformed(h)
  <1>1. Typed
    BY DEF BInv
  <1>2. resp.enc \in BOOLEAN
    BY <1>1 DEF Typed
  <1>3. /\ a \in Way /\ There(a) /\ (h.is = "buffered" => a.h.is = "buffered")
        /\ ~a.err => \A n \in 1..Len(setup.transforms) : Limits(n) => Short(a, setup.transforms[n].cap)
    BY <1>1, <1>2, SetupHas, TransformedIs
  <1>4. CASE a.err
    BY <1>3, <1>4 DEF Finish, Failed, Way, Body
  <1>5. CASE ~a.err /\ a.h.is = "buffered"
    BY <1>3, <1>5 DEF Finish, Sent, Way, Body
  <1>6. CASE ~a.err /\ a.h.is # "buffered"
    <2>1. h.is = "over"
      BY <1>3, <1>6
    <2>2. \A n \in 1..Len(setup.transforms) : ~Limits(n)
      BY <1>3, <1>6 DEF Short
    <2>3. phase' = "passing" /\ got' = s /\ ended' = ended
      BY <1>6 DEF Finish
    <2> QED
      BY <1>3, <2>1, <2>2, <2>3 DEF Passed, Way, Body
  <1> QED
    BY <1>4, <1>5, <1>6

\* What was gathered and what was not stay the answer.
LEMMA GatherFrameBInv ==
    ASSUME BInv, GatherFrame
    PROVE  BInv'
  <1> DEFINE cap == response_body_requirement
  <1>1. PICK f \in Frame(rest) :
            /\ read' = read \o f /\ rest' = After(f, rest)
            /\ IF Len(read \o f) > cap THEN Finish(OverLimit(read \o f, cap), read \o f)
               ELSE UNCHANGED <<phase, ended, got>>
    BY DEF GatherFrame
  <1>2. /\ phase = "gathering" /\ rest # << >>
        /\ UNCHANGED <<setup, req, handle, flags, sent, resp, pending, sse, torn>>
    BY DEF GatherFrame
  <1>3. Typed /\ Requested /\ Responded /\ HeldBack /\ (phase = "done") = (ended # "no")
    BY DEF BInv
  <1>4. /\ rest \in Seq(Unit) /\ read \in Seq(Unit) /\ read \o rest = resp.units /\ got = << >> /\ ended = "no"
        /\ setup.transforms # << >> /\ req.path # "plain" /\ resp.type # "sse" /\ resp.units \in Seq(Unit)
    BY <1>2, <1>3 DEF Typed, Responded
  <1> DEFINE r == read \o f
             w == resp.units
  <1>5. r \in Seq(Unit) /\ rest' \in Seq(Unit) /\ r \o rest' = w
    <2>1. rest # << >>
      BY <1>2
    <2>2. After(f, rest) \in Seq(Unit)
      BY <1>4, <2>1, FrameHas
    <2>3. read \o rest = w
      BY <1>4
    <2> HIDE DEF w
    <2>4. read \o f \in Seq(Unit) /\ (read \o f) \o After(f, rest) = w
      BY <1>4, <2>1, <2>3, Moved
    <2> QED
      BY <1>1, <2>2, <2>4
  <1>6. cap \in Nat /\ \A n \in 1..Len(setup.transforms) : setup.transforms[n].cap <= cap
    BY <1>3, <1>4, SetupHas, ResponseRequirementIs
  <1>7. \A n \in 1..Len(setup.transforms) : setup.transforms[n].cap \in Nat
    BY <1>3, SetupHas, TransformHas
  <1>8. Len(w) >= Len(r) /\ Len(r) \in Nat /\ Len(w) \in Nat
    <2> HIDE DEF r, w
    <2>1. Len(r \o rest') = Len(r) + Len(rest')
      BY <1>5, ConcatProperties
    <2> QED
      BY <1>5, <2>1
  <1>9. read' = r
    BY <1>1
  <1> HIDE DEF cap, r
  <1>10. CASE Len(r) > cap
    <2> DEFINE h == OverLimit(r, cap)
    <2>1. h \in Body /\ h.is = "over"
      BY <1>5, <1>6, <1>10, OverIs
    <2>2. Finish(h, r)
      BY <1>1, <1>10 DEF r
    <2> HIDE DEF h
    <2>3. (Failed \/ Sent(h) \/ Passed(h, r)) /\ Transformed(h).h.units \in Seq(Unit)
      BY <2>1, <2>2, FinishIs
    <2>4. Typed'
      BY <1>2, <1>3, <1>5, <1>9, <2>3, NoticeIs DEF Typed, Failed, Sent, Passed
    <2>5. Requested'
      BY <1>2, <1>3, <2>3, SameSetup DEF Requested, Failed, Sent, Passed
    <2>6. Responded'
      <3>1. CASE phase' = "done"
        BY <3>1 DEF Responded
      <3>2. CASE Passed(h, r)
        <4>1. \A n \in 1..Len(setup.transforms) : Len(w) > setup.transforms[n].cap
          BY <1>6, <1>7, <1>8, <1>10
        <4> QED
          BY <1>2, <1>5, <1>9, <3>2, <4>1, SameSetup DEF Responded, Passed
      <3> QED
        BY <2>3, <3>1, <3>2 DEF Failed, Sent
    <2>7. (phase' = "done") = (ended' # "no")
      BY <1>4, <2>3 DEF Failed, Sent, Passed
    <2> QED
      BY <1>2, <1>3, <2>4, <2>5, <2>6, <2>7 DEF BInv, HeldBack, HeldBackIsBounded
  <1>11. CASE ~(Len(r) > cap)
    <2>1. UNCHANGED <<phase, ended, got>>
      BY <1>1, <1>11 DEF r
    <2>2. Typed'
      BY <1>2, <1>3, <1>5, <1>9, <2>1 DEF Typed
    <2>3. Requested'
      BY <1>2, <1>3, <2>1, SameSetup DEF Requested
    <2>4. Responded'
      BY <1>2, <1>4, <1>5, <1>9, <2>1 DEF Responded
    <2> QED
      BY <1>2, <1>3, <2>1, <2>2, <2>3, <2>4 DEF BInv, HeldBack, HeldBackIsBounded
  <1> QED
    BY <1>10, <1>11

\* What was gathered is the answer.
LEMMA GatherAllBInv ==
    ASSUME BInv, GatherAll
    PROVE  BInv'
  <1> DEFINE h == Buffered(read)
  <1>1. /\ phase = "gathering" /\ rest = << >> /\ Finish(h, << >>)
        /\ UNCHANGED <<setup, req, read, handle, flags, sent, resp, rest, pending, sse, torn>>
    BY DEF GatherAll, request
  <1>2. Typed /\ Requested /\ Responded /\ HeldBack /\ (phase = "done") = (ended # "no")
    BY DEF BInv
  <1>3. h \in Body /\ h.is = "buffered"
    <2>1. read \in Seq(Unit)
      BY <1>2 DEF Typed
    <2> QED
      BY <2>1, BodiesAre DEF Buffered
  <1> HIDE DEF h
  <1>4. (Failed \/ Sent(h)) /\ Transformed(h).h.units \in Seq(Unit)
    <2>1. (Failed \/ Sent(h) \/ Passed(h, << >>)) /\ Transformed(h).h.units \in Seq(Unit)
      BY <1>1, <1>3, FinishIs
    <2> QED
      BY <1>3, <2>1 DEF Passed
  <1>5. Typed'
    BY <1>1, <1>2, <1>4, NoticeIs DEF Typed, Failed, Sent
  <1>6. Requested'
    BY <1>1, <1>2, <1>4, SameSetup DEF Requested, Failed, Sent
  <1>7. Responded'
    BY <1>4 DEF Responded, Failed, Sent
  <1> QED
    BY <1>1, <1>2, <1>4, <1>5, <1>6, <1>7 DEF BInv, HeldBack, HeldBackIsBounded, Failed, Sent

\* The room there is for what is held back.
LEMMA RoomIs ==
    /\ Max({SseCap} \cup FrameSizes) \in Nat /\ SseCap <= Max({SseCap} \cup FrameSizes)
    /\ \A n \in FrameSizes : n <= Max({SseCap} \cup FrameSizes)
  <1> DEFINE S == {SseCap} \cup FrameSizes
  <1>1. S \in SUBSET Nat /\ IsFiniteSet(S) /\ S # {} /\ SseCap \in S /\ FrameSizes \subseteq S
    BY SizesAssumption, FS_Union, FS_Singleton DEF SizesAssumption
  <1> HIDE DEF S
  <1>2. S \in SUBSET Int
    BY <1>1
  <1>3. Max(S) \in S /\ \A y \in S : y <= Max(S)
    BY <1>1, <1>2, MaxOf
  <1>4. Max(S) \in Nat
    BY <1>1, <1>3
  <1> QED
    BY <1>1, <1>3, <1>4 DEF S

\* What is held back has no blank line, and is bounded.
LEMMA StreamFrameBInv ==
    ASSUME BInv, StreamFrame
    PROVE  BInv'
  <1> DEFINE chunk(f) == next_sse_chunk(pending \o Lossy(f), SseCap)
             out(f) == Steps(chunk(f).ready)
  <1>1. PICK f \in Frame(rest) :
            /\ rest' = After(f, rest) /\ torn' = torn \cup Severed(f, chunk(f).ready)
            /\ pending' = chunk(f).rest /\ got' = got \o out(f).out /\ sse' = out(f).s
    <2>1. PICK f \in Frame(rest) :
            /\ rest' = After(f, rest)
            /\ \E cut \in {chunk(f)} :
                /\ pending' = cut.rest
                /\ torn' = torn \cup Severed(f, cut.ready)
                /\ \E r \in {Steps(cut.ready)} : got' = got \o r.out /\ sse' = r.s
      BY DEF StreamFrame
    <2> HIDE DEF chunk
    <2> QED
      BY <2>1
  <1>2. /\ phase = "streaming" /\ rest # << >>
        /\ UNCHANGED <<setup, phase, ended, req, read, handle, flags, sent, resp>>
    BY DEF StreamFrame, request
  <1>3. Typed /\ Requested /\ Responded /\ HeldBack /\ (phase = "done") = (ended # "no")
    BY DEF BInv
  <1>4. rest \in Seq(Unit) /\ pending \in Seq(Unit) /\ got \in Seq(Unit) /\ sse \in Session /\ BlankLines(pending) = {}
    BY <1>3 DEF Typed, HeldBack
  <1>5. f \in Seq(Unit) /\ rest' \in Seq(Unit) /\ \E n \in FrameSizes : Len(f) <= n
    <2>1. rest # << >>
      BY <1>2
    <2> QED
      BY <1>1, <1>4, <2>1, FrameHas
  <1>6. Lossy(f) \in Seq(Unit) /\ Len(Lossy(f)) = Len(f)
    BY <1>5, LossyIs
  <1> DEFINE g == Lossy(f)
             s == pending \o g
             e == ChunkEnd(s, SseCap)
  <1>7. SseCap \in Nat
    BY SizesAssumption DEF SizesAssumption
  <1>8. s \in Seq(Unit)
    BY <1>4, <1>6, ConcatProperties
  <1>9. chunk(f) = next_sse_chunk(s, SseCap)
    OBVIOUS
  <1>10. chunk(f).ready \in Seq(Unit)
    <2> HIDE DEF s, chunk
    <2>1. next_sse_chunk(s, SseCap) = CutAt(s, ChunkEnd(s, SseCap)) /\ ChunkEnd(s, SseCap) \in 0..Len(s)
      BY <1>7, <1>8, NextChunkIs
    <2> HIDE DEF e
    <2>2. e \in 0..Len(s) /\ chunk(f) = CutAt(s, e)
      BY <1>9, <2>1 DEF e
    <2>3. CutAt(s, e).ready \in Seq(Unit)
      BY <1>8, <2>2, CutIsHalves
    <2> QED
      BY <2>2, <2>3
  <1>11. /\ pending' \in Seq(Unit) /\ BlankLines(pending') = {}
         /\ Len(pending') <= SseCap \/ Len(pending') <= Len(f)
    <2>1. g \in Seq(Unit) /\ Len(g) = Len(f)
      BY <1>6
    <2>2. pending' = next_sse_chunk(pending \o g, SseCap).rest
      BY <1>1
    <2> HIDE DEF g
    <2> QED
      BY <1>4, <1>7, <2>1, <2>2, HeldBackIs
  <1> DEFINE ready == chunk(f).ready
  <1>12. ready \in Seq(Unit) /\ got' = got \o Steps(ready).out /\ sse' = Steps(ready).s
    BY <1>1, <1>10
  <1> HIDE DEF ready, chunk
  <1>13. got' \in Seq(Unit) /\ sse' \in Session
    <2>1. setup.transforms \in Seq(Transform)
      BY <1>3, SetupHas
    <2>2. Steps(ready) \in Progress
      BY <1>4, <1>12, <2>1, StepsIs
    <2>3. Steps(ready).s \in Session /\ Steps(ready).out \in Seq(Unit)
      BY <2>2 DEF Progress
    <2> DEFINE o == Steps(ready).out
    <2>4. o \in Seq(Unit) /\ got' = got \o o
      BY <1>12, <2>3
    <2> HIDE DEF o
    <2>5. got' \in Seq(Unit)
      BY <1>4, <2>4, ConcatProperties
    <2> QED
      BY <1>12, <2>3, <2>5
  <1>14. torn' \in SUBSET {"character", "event"}
    <2>1. \A x : Severed(f, x) \subseteq {"character", "event"}
      BY DEF Severed
    <2> QED
      BY <1>1, <1>3, <2>1 DEF Typed
  <1>15. Typed'
    BY <1>2, <1>3, <1>5, <1>11, <1>13, <1>14 DEF Typed
  <1>16. Requested'
    BY <1>2, <1>3, SameSetup DEF Requested
  <1>17. Responded'
    BY <1>2, <1>3, SameSetup DEF Responded
  <1>18. HeldBack'
    <2>1. Len(pending') \in Nat /\ Len(f) \in Nat
      BY <1>5, <1>11
    <2>2. PICK n \in FrameSizes : Len(f) <= n
      BY <1>5
    <2>3. n \in Nat
      BY SizesAssumption DEF SizesAssumption
    <2>4. Len(pending') <= Max({SseCap} \cup FrameSizes)
      <3> DEFINE m == Max({SseCap} \cup FrameSizes)
      <3>1. m \in Nat /\ SseCap <= m /\ n <= m
        BY RoomIs
      <3> HIDE DEF m
      <3> QED
        BY <1>7, <1>11, <2>1, <2>2, <2>3, <3>1 DEF m
    <2> QED
      BY <1>11, <2>4 DEF HeldBack, HeldBackIsBounded
  <1> QED
    BY <1>2, <1>3, <1>15, <1>16, <1>17, <1>18 DEF BInv

\* Nothing is held back at the end.
LEMMA StreamEndBInv ==
    ASSUME BInv, StreamEnd
    PROVE  BInv'
  <1>1. /\ phase = "streaming" /\ rest = << >> /\ got' = got \o pending /\ pending' = << >>
        /\ phase' = "done" /\ ended' = "whole"
        /\ UNCHANGED <<setup, req, read, handle, flags, sent, resp, rest, sse, torn>>
    BY DEF StreamEnd, request
  <1>2. Typed /\ Requested /\ Responded /\ HeldBack
    BY DEF BInv
  <1>3. got' \in Seq(Unit) /\ pending' \in Seq(Unit)
    <2>1. got \in Seq(Unit) /\ pending \in Seq(Unit)
      BY <1>2 DEF Typed
    <2>2. got \o pending \in Seq(Unit)
      BY <2>1, ConcatProperties
    <2>3. << >> \in Seq(Unit)
      OBVIOUS
    <2> QED
      BY <1>1, <2>2, <2>3
  <1>4. Typed'
    BY <1>1, <1>2, <1>3 DEF Typed
  <1>5. Requested'
    BY <1>1, <1>2, SameSetup DEF Requested
  <1>6. Responded'
    BY <1>1 DEF Responded
  <1>7. HeldBack'
    <2>1. BlankLines(pending') = {} /\ Len(pending') <= Max({SseCap} \cup FrameSizes)
      BY <1>1, NothingHeld
    <2> QED
      BY <2>1 DEF HeldBack, HeldBackIsBounded
  <1> QED
    BY <1>1, <1>4, <1>5, <1>6, <1>7 DEF BInv

\* A sender breaks off.
LEMMA BreakOffBInv ==
    ASSUME BInv, BreakOff
    PROVE  BInv'
  <1>1. /\ phase \in {"reading", "forwarding", "passing", "gathering", "streaming"}
        /\ phase' = "done" /\ ended' = "broken"
        /\ UNCHANGED <<setup, req, read, handle, flags, sent, resp, rest, pending, sse, torn, got>>
    BY DEF BreakOff, request, response
  <1>2. Typed /\ Requested /\ Responded /\ HeldBack
    BY DEF BInv
  <1>3. Typed'
    BY <1>1, <1>2 DEF Typed
  <1>4. Requested'
    BY <1>1, <1>2, SameSetup DEF Requested
  <1>5. Responded'
    BY <1>1 DEF Responded
  <1> QED
    BY <1>1, <1>2, <1>3, <1>4, <1>5 DEF BInv, HeldBack, HeldBackIsBounded

\* A routed request has no server's host.
LEMMA AskBInv ==
    ASSUME BInv, NEW c, Ask(c), sent = << >>
    PROVE  BInv'
  <1> DEFINE mitm == "mitm"
             q == [NoReq EXCEPT !.path = mitm]
  <1>1. /\ phase' = "asking" /\ ended' = "no" /\ req' = q
        /\ resp' = NoResp /\ rest' = << >> /\ got' = << >> /\ sse' = NewSession
        /\ UNCHANGED <<setup, read, handle, flags, sent, pending, torn>>
    BY DEF Ask
  <1>2. Typed /\ Requested /\ Responded /\ HeldBack
    BY DEF BInv
  <1>3. << >> \in Seq(Unit)
    OBVIOUS
  <1>4. NoReq \in [path : Paths, host : Hosts \cup {"none"}, hdr : BOOLEAN, units : Seq(Unit)] /\ NoReq.host = "none"
    BY <1>3 DEF NoReq, Paths
  <1>5. req' \in [path : Paths, host : Hosts \cup {"none"}, hdr : BOOLEAN, units : Seq(Unit)] /\ req'.host = "none"
    <2>1. mitm \in Paths
      BY DEF Paths
    <2> HIDE DEF mitm
    <2> QED
      BY <1>1, <1>4, <2>1
  <1>6. resp' \in [type : {"none", "json", "sse"}, enc : BOOLEAN, units : Seq(Unit)]
    BY <1>1, <1>3 DEF NoResp
  <1>7. Typed'
    BY <1>1, <1>2, <1>3, <1>5, <1>6, NewSessionIs DEF Typed
  <1>8. Requested'
    BY <1>1, <1>5 DEF Requested
  <1>9. Responded'
    BY <1>1 DEF Responded
  <1> QED
    BY <1>1, <1>2, <1>7, <1>8, <1>9 DEF BInv, HeldBack, HeldBackIsBounded

\* The conversation is opened.
LEMMA AskFirstBInv ==
    ASSUME BInv, AskFirst
    PROVE  BInv'
  <1>1. phase = "idle" /\ Ask(Opening(Client))
    BY DEF AskFirst
  <1>2. sent = << >>
    BY <1>1 DEF BInv, Requested
  <1> QED
    BY <1>1, <1>2, AskBInv

\* The conversation goes on.
LEMMA AskNextBInv ==
    ASSUME BInv, AskNext
    PROVE  BInv'
  <1> DEFINE c(more) == [talk EXCEPT !.messages = Append(@, Msg("assistant", Heard)) \o Reply(Client, Heard, more)]
  <1>1. phase = "done" /\ ended = "whole" /\ \E more \in BOOLEAN : Ask(c(more))
    BY DEF AskNext
  <1>2. sent = << >>
    BY <1>1 DEF BInv, Requested
  <1> HIDE DEF c
  <1>3. PICK more \in BOOLEAN : Ask(c(more))
    BY <1>1
  <1> QED
    BY <1>2, <1>3, AskBInv

\* The next exchange has nothing of this one.
LEMMA AgainBInv ==
    ASSUME BInv, Again
    PROVE  BInv'
  <1>1. /\ phase' = "idle" /\ ended' = "no"
        /\ req' = NoReq /\ read' = << >> /\ handle' = Empty /\ flags' = {} /\ sent' = << >>
        /\ resp' = NoResp /\ rest' = << >> /\ pending' = << >> /\ sse' = NewSession /\ torn' = {}
        /\ got' = << >> /\ setup' = setup
    BY DEF Again
  <1>2. << >> \in Seq(Unit) /\ setup \in Setups
    BY DEF BInv, Typed
  <1>3. req' \in [path : Paths, host : Hosts \cup {"none"}, hdr : BOOLEAN, units : Seq(Unit)] /\ req'.host = "none"
    BY <1>1, <1>2 DEF Paths, NoReq
  <1>4. resp' \in [type : {"none", "json", "sse"}, enc : BOOLEAN, units : Seq(Unit)]
    BY <1>1, <1>2 DEF NoResp
  <1>5. Typed'
    BY <1>1, <1>2, <1>3, <1>4, NewSessionIs, BodiesAre DEF Typed
  <1>6. Requested'
    BY <1>1, <1>3 DEF Requested
  <1>7. Responded'
    BY <1>1 DEF Responded
  <1>8. HeldBack'
    <2>1. BlankLines(pending') = {} /\ Len(pending') <= Max({SseCap} \cup FrameSizes)
      BY <1>1, NothingHeld
    <2> QED
      BY <2>1 DEF HeldBack, HeldBackIsBounded
  <1> QED
    BY <1>1, <1>5, <1>6, <1>7, <1>8 DEF BInv

\* Every step keeps the invariant.
LEMMA NextBInv ==
    BInv /\ [Next]_vars => BInv'
  <1> SUFFICES ASSUME BInv, [Next]_vars PROVE BInv'
    OBVIOUS
  <1>1. CASE Agent
    BY <1>1, ArriveBInv, AskFirstBInv, AskNextBInv, AgainBInv DEF Agent
  <1>2. CASE Frames
    BY <1>2, ReadFrameBInv, ForwardBInv, PassOnBInv, GatherFrameBInv, StreamFrameBInv DEF Frames
  <1>3. CASE Proxys
    BY <1>3, ReadAllBInv, DecideBInv, PassedOnBInv, GatherAllBInv, StreamEndBInv DEF Proxys
  <1>4. CASE Server
    BY <1>4, AnswerBInv, TurnBInv DEF Server
  <1>5. CASE BreakOff
    BY <1>5, BreakOffBInv
  <1>6. CASE UNCHANGED vars
    <2>1. UNCHANGED <<setup, phase, ended, req, read, handle, flags, sent, resp, rest, pending, sse, torn, got>>
      BY <1>6 DEF vars, request, response
    <2>2. Typed /\ Requested /\ Responded /\ HeldBack /\ (phase = "done") = (ended # "no")
      BY DEF BInv
    <2>3. Typed'
      BY <2>1, <2>2 DEF Typed
    <2>4. Requested'
      <3>1. \A p : body_requirement(p)' = body_requirement(p)
        BY <2>1, SameSetup
      <3>2. Held => Held'
        BY <2>1, <3>1 DEF Held
      <3> QED
        BY <2>1, <2>2, <3>1, <3>2, SameSetup DEF Requested
    <2>5. Responded'
      BY <2>1, <2>2, SameSetup DEF Responded
    <2> QED
      BY <2>1, <2>2, <2>3, <2>4, <2>5 DEF BInv, HeldBack, HeldBackIsBounded
  <1> QED
    BY <1>1, <1>2, <1>3, <1>4, <1>5, <1>6 DEF Next

\* The invariant holds.
THEOREM Exchanged == Spec => []BInv
  <1>1. Init => BInv
    BY InitBInv
  <1>2. BInv /\ [Next]_vars => BInv'
    BY NextBInv
  <1> QED
    BY <1>1, <1>2, PTL DEF Spec

\* Of it follow the types and that a body arrives whole.
LEMMA WholeByBInv ==
    BInv => BodyArrivesWhole
  <1> SUFFICES ASSUME BInv PROVE BodyArrivesWhole
    OBVIOUS
  <1>1. Typed /\ Requested /\ Responded /\ (phase = "done") = (ended # "no")
    BY DEF BInv
  <1>2. sse.started \in BOOLEAN /\ sse.text \in Int /\ sse.next \in Nat
    BY <1>1 DEF Typed, Session
  <1>3. TypeOK
    BY <1>1, <1>2 DEF Typed, TypeOK, Body, FlagNames
  <1> QED
    BY <1>1, <1>3 DEF BodyArrivesWhole, Requested, Responded

\* However a body is cut into frames, and whether or not it went over the cap on the way, what has
\* been passed on followed by what is still to come is the body.
THEOREM BodiesArrive == Spec => []BodyArrivesWhole
  <1>1. BInv => BodyArrivesWhole
    BY WholeByBInv
  <1> QED
    BY <1>1, Exchanged, PTL

-----------------------------------------------------------------------------
(***************************************************************************)
(* What leaves has passed the layers.                                      *)
(***************************************************************************)

\* A layer's scan has stopped a credential or said that it has not.
Scanned(n) ==
    LET l == setup.layers[n]
    IN  (/\ req.path # "plain" /\ l.is = "dlp" /\ l.scan
         /\ \A m \in 1..(n - 1) : ~Allows(setup.layers[m])
         /\ Matches(req.units) /\ WellEncoded(req.units))
        => CASE l.on_match = "deny" ->
                    /\ Len(req.units) > l.cap \/ req.path = "upgrade"
                    /\ l.oversize = "pass" /\ "BodyNotScanned" \in flags
             [] l.on_match = "pass" -> flags \cap {"annotated", "BodyNotScanned"} # {}
             [] OTHER -> TRUE

Granted ==
    (/\ req.path # "plain" /\ Layers("mcp") # {} /\ governs(req.host)
     /\ \A n \in 1..Len(setup.layers) : ~Allows(setup.layers[n])
     /\ parse_request(req.units).is = "call")
    => LET m == parse_request(req.units)
       IN  \E n \in 1..Len(Entries(req.host)) :
              LET e == Entries(req.host)[n]
              IN  /\ m.tool \in e.names
                  /\ \A c \in 1..Len(e.when) : m.args # << >> /\ m.args[1] \in e.when[c]

Judged == (phase = "forwarding" \/ sent # << >>) => Granted /\ \A n \in 1..Len(setup.layers) : Scanned(n)

\* What was decided stays so while the request, the flags and the profile do.
LEMMA SameJudged ==
    ASSUME Judged, setup' = setup, req' = req, flags' = flags,
           phase' = "forwarding" \/ sent' # << >> => phase = "forwarding" \/ sent # << >>
    PROVE  Judged'
  <1>1. Granted' <=> Granted
    BY DEF Granted, Layers
  <1>2. \A n : Scanned(n)' <=> Scanned(n)
    BY DEF Scanned
  <1> QED
    BY <1>1, <1>2 DEF Judged

\* A layer that scans and did not refuse.
LEMMA ScanIs ==
    ASSUME NEW l \in Layer, l.is = "dlp", l.scan, NEW f \in SUBSET FlagNames, dlp(l, f).is # "deny",
           Matches(req.units), WellEncoded(req.units),
           \/ handle.is \in {"streaming", "over"}
           \/ handle.is = "buffered" /\ handle.units = req.units
    PROVE  /\ l.on_match = "deny" => /\ handle.is \in {"streaming", "over"} /\ l.oversize = "pass"
                                     /\ "BodyNotScanned" \in dlp(l, f).flags
           /\ l.on_match = "pass" => dlp(l, f).flags \cap {"annotated", "BodyNotScanned"} # {}
  <1> DEFINE hit == req.hdr \/ handle.is = "buffered"
  <1>1. l.oversize \in {"pass", "deny"} /\ l.on_match \in {"pass", "deny", "allow"}
    BY LayerHas
  <1>2. CASE hit
    <2>1. dlp(l, f) = Answered(l.on_match, IF l.on_match = "pass" THEN f \cup {"annotated"} ELSE f)
      BY <1>2 DEF dlp
    <2>2. dlp(l, f).is = l.on_match
      BY <2>1 DEF Answered
    <2>3. l.on_match = "pass" => "annotated" \in dlp(l, f).flags
      BY <2>1 DEF Answered
    <2> QED
      BY <2>2, <2>3
  <1>3. CASE ~hit
    <2>1. req.hdr = FALSE /\ handle.is \in {"streaming", "over"}
      <3>1. ~req.hdr /\ handle.is \in {"streaming", "over"}
        BY <1>3
      <3> QED
        BY <3>1
    <2>2. dlp(l, f) = IF l.oversize = "deny" THEN Answered("deny", f) ELSE Pass(f \cup {"BodyNotScanned"})
      BY <1>3, <2>1 DEF dlp
    <2>3. l.oversize = "pass" /\ "BodyNotScanned" \in dlp(l, f).flags
      BY <1>1, <2>2 DEF Answered, Pass
    <2> QED
      BY <2>1, <2>3
  <1> QED
    BY <1>2, <1>3

\* The mcp layer did not refuse a call.
LEMMA CallIs ==
    ASSUME NEW f \in SUBSET FlagNames, mcp(f).is # "deny", governs(req.host),
           parse_request(req.units).is = "call",
           \/ handle.is \in {"streaming", "over"}
           \/ handle.is = "buffered" /\ handle.units = req.units
    PROVE  LET m == parse_request(req.units)
           IN  \E n \in 1..Len(Entries(req.host)) :
                  LET e == Entries(req.host)[n]
                  IN  /\ m.tool \in e.names
                      /\ \A c \in 1..Len(e.when) : m.args # << >> /\ m.args[1] \in e.when[c]
  <1> DEFINE m == parse_request(req.units)
             deny == Answered("deny", f)
  <1>1. deny.is = "deny"
    BY DEF Answered
  <1>2. handle.is = "buffered" /\ handle.units = req.units
    <2> SUFFICES ASSUME handle.is \in {"streaming", "over"} PROVE FALSE
      OBVIOUS
    <2>1. mcp(f) = deny
      BY DEF mcp
    <2> QED
      BY <1>1, <2>1
  <1>3. check_call(req.host, m.tool, m.args)
    <2> HIDE DEF m
    <2> SUFFICES ASSUME ~check_call(req.host, m.tool, m.args) PROVE FALSE
      OBVIOUS
    <2>1. mcp(f) = CASE m.is = "list" -> Pass(f \cup {"McpToolsList"})
                     [] m.is = "call" /\ ~check_call(req.host, m.tool, m.args) -> deny
                     [] OTHER -> Pass(f)
      BY <1>2 DEF mcp, m
    <2>2. m.is = "call"
      BY DEF m
    <2>3. mcp(f) = deny
      BY <2>1, <2>2
    <2> QED
      BY <1>1, <2>3
  <1> HIDE DEF m
  <1> SUFFICES \E n \in 1..Len(Entries(req.host)) :
                  m.tool \in Entries(req.host)[n].names /\ check_constraints(Entries(req.host)[n], m.args)
    BY DEF check_constraints, m
  <1> DEFINE es == Entries(req.host)
             Named(n) == m.tool \in es[n].names
             Free(n) == check_constraints(es[n], m.args)
             Other(n) == no_other_match(req.host, m.tool, m.args, n)
             Said(n) == CASE Named(n) /\ Free(n) -> "ok"
                          [] Named(n) /\ ~Free(n) /\ Other(n) -> "constraint"
                          [] OTHER -> "next"
  <1>4. PICK n \in 1..Len(es) : Said(n) = "ok"
    BY <1>3 DEF check_call
  <1>5. Named(n) /\ Free(n)
    <2> HIDE DEF Named, Free, Other
    <2> QED
      BY <1>4
  <1> QED
    BY <1>5

\* What Decide lets go was scanned and granted.
LEMMA DecideJudged ==
    ASSUME BInv, Decide
    PROVE  Judged'
  <1> SUFFICES ASSUME Decision.is # "deny"
               PROVE  Judged'
    <2>1. Requested
      BY DEF BInv
    <2>2. Decision.is = "deny" => phase' = "done" /\ sent' = << >>
      BY <2>1 DEF Decide, Requested
    <2> QED
      BY <2>2 DEF Judged
  <1>1. phase = "deciding" /\ flags' = Decision.flags /\ setup' = setup /\ req' = req
    BY DEF Decide
  <1>2. Typed /\ Requested
    BY DEF BInv
  <1>3. Held
    BY <1>1, <1>2 DEF Requested
  <1>4. setup.layers \in Seq(Layer)
    BY <1>2, SetupHas
  <1>5. req.path # "plain" => \/ handle.is \in {"streaming", "over"}
                              \/ handle.is = "buffered" /\ handle.units = req.units
    BY <1>3 DEF Held
  <1>6. ASSUME NEW n \in 1..Len(setup.layers), \A m \in 1..(n - 1) : ~Allows(setup.layers[m])
        PROVE  \E f \in SUBSET FlagNames :
                  Ruled(setup.layers[n], f).is # "deny" /\ Ruled(setup.layers[n], f).flags \subseteq flags'
    BY <1>1, <1>4, <1>6, DecisionIs
  <1>7. Granted'
    <2> SUFFICES ASSUME req.path # "plain", Layers("mcp") # {}, governs(req.host),
                        \A n \in 1..Len(setup.layers) : ~Allows(setup.layers[n]),
                        parse_request(req.units).is = "call"
                 PROVE  LET m == parse_request(req.units)
                        IN  \E n \in 1..Len(Entries(req.host)) :
                               LET e == Entries(req.host)[n]
                               IN  /\ m.tool \in e.names
                                   /\ \A c \in 1..Len(e.when) : m.args # << >> /\ m.args[1] \in e.when[c]
      BY <1>1 DEF Granted, Layers
    <2>1. PICK n \in 1..Len(setup.layers) : setup.layers[n].is = "mcp"
      BY DEF Layers
    <2>2. \A m \in 1..(n - 1) : ~Allows(setup.layers[m])
      <3>1. \A m \in 1..(n - 1) : m \in 1..Len(setup.layers)
        BY <1>4
      <3> QED
        BY <3>1
    <2>3. PICK f \in SUBSET FlagNames : Ruled(setup.layers[n], f).is # "deny"
      BY <1>6, <2>2
    <2>4. mcp(f).is # "deny"
      BY <2>1, <2>3 DEF Ruled
    <2> QED
      BY <1>5, <2>4, CallIs
  <1>8. ASSUME NEW n \in 1..Len(setup.layers) PROVE Scanned(n)'
    <2> DEFINE l == setup.layers[n]
               g == flags'
    <2> SUFFICES ASSUME req.path # "plain", l.is = "dlp", l.scan,
                        \A m \in 1..(n - 1) : ~Allows(setup.layers[m]),
                        Matches(req.units), WellEncoded(req.units)
                 PROVE  CASE l.on_match = "deny" ->
                               /\ Len(req.units) > l.cap \/ req.path = "upgrade"
                               /\ l.oversize = "pass" /\ "BodyNotScanned" \in g
                          [] l.on_match = "pass" -> g \cap {"annotated", "BodyNotScanned"} # {}
                          [] OTHER -> TRUE
      BY <1>1 DEF Scanned
    <2>1. PICK f \in SUBSET FlagNames : Ruled(l, f).is # "deny" /\ Ruled(l, f).flags \subseteq g
      BY <1>6
    <2>2. l \in Layer
      BY <1>4
    <2> HIDE DEF l, g
    <2>3. dlp(l, f).is # "deny" /\ dlp(l, f).flags \subseteq g
      BY <2>1 DEF Ruled
    <2>4. /\ l.on_match = "deny" => /\ handle.is \in {"streaming", "over"} /\ l.oversize = "pass"
                                    /\ "BodyNotScanned" \in dlp(l, f).flags
          /\ l.on_match = "pass" => dlp(l, f).flags \cap {"annotated", "BodyNotScanned"} # {}
      BY <1>5, <2>2, <2>3, ScanIs
    <2>5. handle.is \in {"streaming", "over"} => Len(req.units) > l.cap \/ req.path = "upgrade"
      <3>1. l.cap \in Nat /\ LayerCap(l) = l.cap
        BY <2>2, LayerHas
      <3>2. req.path = "mitm" => LayerCap(l) <= body_requirement("mitm")
        BY <1>4, RequirementIs DEF l
      <3>3. body_requirement("mitm") \in Requirement
        BY <1>4, RequirementIs
      <3>4. Len(req.units) \in Nat
        BY <1>2 DEF Typed
      <3>5. CASE handle.is = "over"
        <4>1. req.path = "mitm" /\ Len(req.units) > body_requirement("mitm")
          BY <1>3, <3>5 DEF Held
        <4> QED
          BY <3>1, <3>2, <3>3, <3>4, <4>1 DEF Requirement, Streaming
      <3>6. CASE handle.is = "streaming"
        <4>1. req.path = "upgrade" \/ (req.path = "mitm" /\ body_requirement("mitm") = Streaming)
          BY <1>3, <3>6 DEF Held
        <4> QED
          BY <3>1, <3>2, <4>1 DEF Streaming
      <3> QED
        BY <3>5, <3>6
    <2> QED
      BY <2>3, <2>4, <2>5
  <1> QED
    BY <1>1, <1>7, <1>8 DEF Judged

\* Every step keeps what was decided.
LEMMA NextJudged ==
    BInv /\ Judged /\ [Next]_vars => Judged'
  <1> SUFFICES ASSUME BInv, Judged, [Next]_vars PROVE Judged'
    OBVIOUS
  <1>1. Requested
    BY DEF BInv
  <1>2. CASE Agent
    <2>1. ASSUME Arrive PROVE Judged'
      BY <1>1, <2>1 DEF Arrive, Requested, Judged
    <2>2. ASSUME NEW c, Ask(c), sent = << >> PROVE Judged'
      BY <2>2 DEF Ask, Judged
    <2>3. ASSUME AskFirst PROVE Judged'
      <3>1. Ask(Opening(Client)) /\ sent = << >>
        BY <1>1, <2>3 DEF AskFirst, Requested
      <3> QED
        BY <2>2, <3>1
    <2>4. ASSUME AskNext PROVE Judged'
      <3> DEFINE c(more) == [talk EXCEPT !.messages = Append(@, Msg("assistant", Heard)) \o Reply(Client, Heard, more)]
      <3>1. \E more \in BOOLEAN : Ask(c(more))
        BY <2>4 DEF AskNext
      <3>2. sent = << >>
        BY <1>1, <2>4 DEF AskNext, Requested
      <3> HIDE DEF c
      <3> QED
        BY <2>2, <3>1, <3>2
    <2>5. ASSUME Again PROVE Judged'
      BY <2>5 DEF Again, Judged
    <2> QED
      BY <1>2, <2>1, <2>3, <2>4, <2>5 DEF Agent
  <1>3. CASE Server
    <2>1. ASSUME NEW r, Begin(r) PROVE Judged'
      BY <2>1 DEF Begin, Routing, Judged
    <2>2. ASSUME Answer PROVE Judged'
      BY <2>1, <2>2 DEF Answer
    <2>3. ASSUME Turn PROVE Judged'
      <3> DEFINE a(t, style) ==
                   [type |-> IF style \in Styles THEN "sse" ELSE "json", enc |-> FALSE,
                    units |-> CASE style = "json" -> <<OPEN>> \o t \o <<CLOSE>>
                                [] style = "error" -> <<OPEN, Mark("error"), CLOSE>>
                                [] OTHER -> Streamed(Origin, t, style)]
      <3>1. PICK t \in Turns, style \in (IF said = << >> THEN Styles ELSE {}) \cup {"json", "error"} : Begin(a(t, style))
        BY <2>3 DEF Turn
      <3> HIDE DEF a
      <3> QED
        BY <2>1, <3>1
    <2> QED
      BY <1>3, <2>2, <2>3 DEF Server
  <1>4. CASE Decide
    BY <1>4, DecideJudged
  <1>5. CASE UNCHANGED vars
    BY <1>5, SameJudged DEF vars, request
  <1>6. CASE BreakOff
    BY <1>6, SameJudged DEF BreakOff, request
  <1>7. CASE Frames
    <2>1. /\ setup' = setup /\ req' = req /\ flags' = flags
          /\ phase' = "forwarding" \/ sent' # << >> => phase = "forwarding" \/ sent # << >>
      <3>1. ASSUME ReadFrame
            PROVE  /\ setup' = setup /\ req' = req /\ flags' = flags /\ sent' = sent
                   /\ phase' # "forwarding"
        BY <3>1 DEF ReadFrame
      <3>2. ASSUME Forward
            PROVE  setup' = setup /\ req' = req /\ flags' = flags /\ phase = "forwarding"
        BY <3>2 DEF Forward
      <3>3. ASSUME PassOn \/ StreamFrame
            PROVE  setup' = setup /\ req' = req /\ flags' = flags /\ phase' = phase /\ sent' = sent
        BY <3>3 DEF PassOn, StreamFrame, request
      <3>4. ASSUME GatherFrame
            PROVE  setup' = setup /\ req' = req /\ flags' = flags /\ phase' # "forwarding" /\ sent' = sent
        BY <3>4 DEF GatherFrame, Finish
      <3> QED
        BY <1>7, <3>1, <3>2, <3>3, <3>4 DEF Frames
    <2> QED
      BY <2>1, SameJudged
  <1>8. CASE Proxys
    <2>1. ASSUME ReadAll \/ PassedOn \/ GatherAll \/ StreamEnd
          PROVE  /\ setup' = setup /\ req' = req /\ flags' = flags /\ sent' = sent
                 /\ phase' # "forwarding"
      BY <2>1 DEF ReadAll, PassedOn, GatherAll, StreamEnd, Finish, request
    <2> QED
      BY <1>8, <1>4, <2>1, SameJudged DEF Proxys
  <1> QED
    BY <1>2, <1>3, <1>5, <1>6, <1>7, <1>8 DEF Next

\* What the layers say of a request they let go holds of it from then on.
THEOREM LetGo == Spec => []Judged
  <1>1. Init => Judged
    BY DEF Init, Judged
  <1>2. BInv /\ Judged /\ [Next]_vars => Judged'
    BY NextJudged
  <1> QED
    BY <1>1, <1>2, Exchanged, PTL DEF Spec

\* No credential leaves past a layer that denies matches, unless it was not scanned and that is said.
THEOREM CredentialsAreStopped == Spec => []CredentialIsStoppedOrSaid
  <1>1. Judged => CredentialIsStoppedOrSaid
    BY DEF Judged, Scanned, CredentialIsStoppedOrSaid
  <1> QED
    BY <1>1, LetGo, PTL

\* A call reaches a governed server only if an entry permits it.
THEOREM CallsArePermitted == Spec => []CallIsPermitted
  <1>1. Judged => CallIsPermitted
    BY DEF Judged, Granted, CallIsPermitted
  <1> QED
    BY <1>1, LetGo, PTL

-----------------------------------------------------------------------------
(***************************************************************************)
(* What is gathered stays within its limits.                               *)
(***************************************************************************)

\* The transforms of a kind.
LEMMA TransformsAre ==
    ASSUME NEW k, NEW t
    PROVE  t \in Transforms(k) <=> \E n \in 1..Len(setup.transforms) : setup.transforms[n].is = k /\ t = setup.transforms[n]
  BY DEF Transforms

\* An answer g is as short as every limit, and is text if it was and the limiters cut text.
Within(g) ==
    /\ \A t \in Transforms("limit") : Len(g) <= Max({t.cap, Len(Notice)})
    /\ /\ \A t \in Transforms("limit") : t.action = "truncate" => t.utf8
       /\ WellEncoded(resp.units)
       => WellEncoded(g)

\* The limits are on what the agent has been given.
LEMMA StillWithin ==
    ASSUME setup' = setup, req' = req, resp' = resp
    PROVE  LimitedIsBounded' <=> (/\ phase' = "done" /\ ended' = "whole" /\ req.path # "plain" /\ resp.type = "json"
                                  /\ Transforms("limit") # {}
                                  => Within(got'))
  <1>1. Transforms("limit")' = Transforms("limit")
    BY DEF Transforms
  <1> QED
    BY <1>1 DEF LimitedIsBounded, Within

\* What Finish sends is within the limits.
LEMMA SentIsWithin ==
    ASSUME BInv, NEW h \in Body, h.is \in {"buffered", "over"}, h.is = "buffered" => h.units = resp.units,
           Sent(h)
    PROVE  Within(got')
  <1> DEFINE a == Transformed(h)
             g == a.h.units
  <1>1. Typed
    BY DEF BInv
  <1>2. setup.transforms \in Seq(Transform) /\ InOrder(setup.transforms) /\ resp.enc \in BOOLEAN
    BY <1>1, SetupHas DEF Typed
  <1>3. ~a.err /\ a.h.is = "buffered" /\ got' = g
    BY DEF Sent
  <1>4. /\ \A n \in 1..Len(setup.transforms) : Limits(n) => Short(a, setup.transforms[n].cap)
        /\ /\ h.is = "buffered" => WellEncoded(h.units)
           /\ \A n \in 1..Len(setup.transforms) : CutsText(n) => setup.transforms[n].utf8
           => Written(a)
    BY <1>2, <1>3, TransformedIs
  <1> HIDE DEF a
  <1>5. \A t \in Transforms("limit") : Len(g) <= Max({t.cap, Len(Notice)})
    <2> SUFFICES ASSUME NEW t \in Transforms("limit") PROVE Len(g) <= Max({t.cap, Len(Notice)})
      OBVIOUS
    <2>1. PICK n \in 1..Len(setup.transforms) : setup.transforms[n].is = "limit" /\ t = setup.transforms[n]
      BY TransformsAre
    <2>2. Short(a, t.cap)
      BY <1>4, <2>1 DEF Limits
    <2> QED
      BY <2>2 DEF Short, Bound
  <1>6. ASSUME \A t \in Transforms("limit") : t.action = "truncate" => t.utf8, WellEncoded(resp.units)
        PROVE  WellEncoded(g)
    <2>1. \A n \in 1..Len(setup.transforms) : CutsText(n) => setup.transforms[n].utf8
      BY <1>6, TransformsAre DEF CutsText, Limits
    <2>2. Written(a)
      BY <1>4, <1>6, <2>1
    <2> QED
      BY <1>3, <2>2 DEF Written
  <1> QED
    BY <1>3, <1>5, <1>6 DEF Within

\* When a gathered answer is sent it has been read to the end, or was over the cap.
LEMMA GatheredIs ==
    ASSUME BInv, GatherFrame \/ GatherAll
    PROVE  /\ setup' = setup /\ req' = req /\ resp' = resp
           /\ \/ UNCHANGED <<phase, ended, got>>
              \/ \E h \in Body : \E s :
                    /\ Failed \/ Sent(h) \/ Passed(h, s)
                    /\ \/ h.is = "buffered" /\ h.units = resp.units
                       \/ h.is = "over" /\ \A n \in 1..Len(setup.transforms) : Len(resp.units) > setup.transforms[n].cap
  <1>1. Typed /\ Responded
    BY DEF BInv
  <1>2. phase = "gathering" /\ read \in Seq(Unit) /\ rest \in Seq(Unit) /\ resp.units \in Seq(Unit)
        /\ read \o rest = resp.units /\ setup.transforms # << >>
    BY <1>1 DEF GatherFrame, GatherAll, Typed, Responded
  <1>3. ASSUME GatherAll
        PROVE  \E h \in Body : \E s :
                  /\ Failed \/ Sent(h) \/ Passed(h, s)
                  /\ h.is = "buffered" /\ h.units = resp.units
    <2> DEFINE h == Buffered(read)
               none == << >>
    <2>1. rest = << >> /\ Finish(h, none)
      BY <1>3 DEF GatherAll
    <2>2. read = resp.units
      BY <1>2, <2>1, NothingLeft
    <2>3. h \in Body /\ h.is = "buffered" /\ h.units = resp.units
      BY <1>2, <2>2, BodiesAre DEF Buffered
    <2> HIDE DEF h, none
    <2>4. Failed \/ Sent(h) \/ Passed(h, none)
      BY <2>1, <2>3, FinishIs
    <2> QED
      BY <2>3, <2>4
  <1>4. ASSUME GatherFrame
        PROVE  \/ UNCHANGED <<phase, ended, got>>
               \/ \E h \in Body : \E s :
                     /\ Failed \/ Sent(h) \/ Passed(h, s)
                     /\ h.is = "over" /\ \A n \in 1..Len(setup.transforms) : Len(resp.units) > setup.transforms[n].cap
    <2> DEFINE cap == response_body_requirement
               w == resp.units
    <2>1. PICK f \in Frame(rest) :
              IF Len(read \o f) > cap THEN Finish(OverLimit(read \o f, cap), read \o f)
              ELSE UNCHANGED <<phase, ended, got>>
      BY <1>4 DEF GatherFrame
    <2>2. rest # << >>
      BY <1>4 DEF GatherFrame
    <2> DEFINE r == read \o f
               l == After(f, rest)
    <2>3. r \in Seq(Unit) /\ l \in Seq(Unit) /\ r \o l = w
      <3>1. l \in Seq(Unit)
        BY <1>2, <2>2, FrameHas
      <3>2. read \o rest = w
        BY <1>2
      <3> HIDE DEF w
      <3> QED
        BY <1>2, <2>2, <3>1, <3>2, Moved
    <2>4. cap \in Nat /\ \A n \in 1..Len(setup.transforms) : setup.transforms[n].cap <= cap /\ setup.transforms[n].cap \in Nat
      BY <1>1, <1>2, SetupHas, ResponseRequirementIs, TransformHas
    <2>5. Len(w) >= Len(r) /\ Len(r) \in Nat /\ Len(w) \in Nat
      <3> HIDE DEF r, w, l
      <3>1. Len(r \o l) = Len(r) + Len(l)
        BY <2>3, ConcatProperties
      <3> QED
        BY <2>3, <3>1
    <2> HIDE DEF cap, r, l
    <2>6. CASE Len(r) > cap
      <3> DEFINE h == OverLimit(r, cap)
      <3>1. h \in Body /\ h.is = "over"
        BY <2>3, <2>4, <2>6, OverIs
      <3>2. Finish(h, r)
        BY <2>1, <2>6 DEF r
      <3> HIDE DEF h
      <3>3. Failed \/ Sent(h) \/ Passed(h, r)
        BY <3>1, <3>2, FinishIs
      <3>4. \A n \in 1..Len(setup.transforms) : Len(w) > setup.transforms[n].cap
        BY <2>4, <2>5, <2>6
      <3> QED
        BY <3>1, <3>3, <3>4
    <2>7. CASE ~(Len(r) > cap)
      BY <2>1, <2>7 DEF r
    <2> QED
      BY <2>6, <2>7
  <1>5. setup' = setup /\ req' = req /\ resp' = resp
    BY DEF GatherFrame, GatherAll, request
  <1> QED
    BY <1>3, <1>4, <1>5

\* Every step keeps the limits.
LEMMA NextLimited ==
    BInv /\ LimitedIsBounded /\ [Next]_vars => LimitedIsBounded'
  <1> SUFFICES ASSUME BInv, LimitedIsBounded, [Next]_vars PROVE LimitedIsBounded'
    OBVIOUS
  <1>1. Typed /\ Responded
    BY DEF BInv
  <1>2. ASSUME phase' # "done" \/ ended' # "whole" PROVE LimitedIsBounded'
    BY <1>2 DEF LimitedIsBounded
  <1>3. ASSUME GatherFrame \/ GatherAll PROVE LimitedIsBounded'
    <2>1. setup' = setup /\ req' = req /\ resp' = resp
      BY <1>3, GatheredIs
    <2>2. CASE UNCHANGED <<phase, ended, got>>
      <3>1. phase' # "done"
        BY <1>3, <2>2 DEF GatherFrame, GatherAll
      <3> QED
        BY <1>2, <3>1
    <2>3. ASSUME NEW h \in Body, NEW s, Failed \/ Sent(h) \/ Passed(h, s),
                 \/ h.is = "buffered" /\ h.units = resp.units
                 \/ h.is = "over"
          PROVE  LimitedIsBounded'
      <3>1. CASE Failed
        BY <1>2, <3>1 DEF Failed
      <3>2. CASE Passed(h, s)
        BY <1>2, <3>2 DEF Passed
      <3>3. CASE Sent(h)
        <4>1. Within(got')
          BY <2>3, <3>3, SentIsWithin
        <4> QED
          BY <2>1, <4>1, StillWithin
      <3> QED
        BY <2>3, <3>1, <3>2, <3>3
    <2> QED
      BY <1>3, <2>2, <2>3, GatheredIs
  <1>4. ASSUME PassedOn PROVE LimitedIsBounded'
    <2>1. setup' = setup /\ req' = req /\ resp' = resp
      BY <1>4 DEF PassedOn, request, response
    <2>2. req.path # "plain" => Transforms("limit") = {}
      <3>1. req.path # "plain" => \A n \in 1..Len(setup.transforms) : ~Limits(n)
        BY <1>1, <1>4 DEF PassedOn, Responded
      <3> QED
        BY <3>1 DEF Transforms, Limits
    <2> QED
      BY <2>1, <2>2, StillWithin
  <1>5. ASSUME StreamEnd PROVE LimitedIsBounded'
    <2>1. setup' = setup /\ req' = req /\ resp' = resp
      BY <1>5 DEF StreamEnd, request
    <2>2. resp.type = "sse"
      BY <1>1, <1>5 DEF StreamEnd, Responded
    <2> QED
      BY <2>1, <2>2, StillWithin
  <1>6. ASSUME UNCHANGED vars PROVE LimitedIsBounded'
    <2>1. UNCHANGED <<setup, req, resp, phase, ended, got>>
      BY <1>6 DEF vars, request, response
    <2>2. LimitedIsBounded <=> (/\ phase = "done" /\ ended = "whole" /\ req.path # "plain" /\ resp.type = "json"
                                /\ Transforms("limit") # {}
                                => Within(got))
      BY DEF LimitedIsBounded, Within
    <2> QED
      BY <2>1, <2>2, StillWithin
  <1>7. ASSUME NEW r, Begin(r) PROVE LimitedIsBounded'
    <2>1. phase' = "done" => ended' = "failed"
      BY <1>7 DEF Begin
    <2> QED
      BY <1>2, <2>1
  <1>8. ASSUME Answer \/ Turn PROVE LimitedIsBounded'
    <2> DEFINE a(t, style) ==
                 [type |-> IF style \in Styles THEN "sse" ELSE "json", enc |-> FALSE,
                  units |-> CASE style = "json" -> <<OPEN>> \o t \o <<CLOSE>>
                              [] style = "error" -> <<OPEN, Mark("error"), CLOSE>>
                              [] OTHER -> Streamed(Origin, t, style)]
    <2>1. Answer => \E r \in Answers : Begin(r)
      BY DEF Answer
    <2>2. Turn => \E t \in Turns, style \in (IF said = << >> THEN Styles ELSE {}) \cup {"json", "error"} : Begin(a(t, style))
      BY DEF Turn
    <2> HIDE DEF a
    <2> QED
      BY <1>7, <1>8, <2>1, <2>2
  <1>9. Arrive \/ Again \/ ReadFrame \/ ReadAll => phase' # "done"
    BY DEF Arrive, Again, ReadFrame, ReadAll
  <1>10. AskFirst \/ AskNext => phase' # "done"
    BY DEF AskFirst, AskNext, Ask
  <1>11. Forward \/ PassOn \/ StreamFrame => phase' # "done"
    BY DEF Forward, PassOn, StreamFrame
  <1>12. Decide \/ BreakOff => phase' # "done" \/ ended' # "whole"
    BY DEF Decide, BreakOff
  <1> QED
    BY <1>2, <1>3, <1>4, <1>5, <1>6, <1>8, <1>9, <1>10, <1>11, <1>12
    DEF Next, Agent, Frames, Proxys, Server

\* No body takes more room, and no answer is longer, than its cap.
THEOREM CapsAreKept == Spec => []CapsHold
  <1>1. Init => LimitedIsBounded
    BY DEF Init, LimitedIsBounded
  <1>2. BInv /\ LimitedIsBounded /\ [Next]_vars => LimitedIsBounded'
    BY NextLimited
  <1>3. BInv /\ LimitedIsBounded => CapsHold
    BY DEF BInv, HeldBack, CapsHold
  <1> QED
    BY <1>1, <1>2, <1>3, Exchanged, PTL DEF Spec

-----------------------------------------------------------------------------
(***************************************************************************)
(* Where the pieces of a stream are.                                       *)
(***************************************************************************)

\* A piece e is what is between a cut a and the next, b.
Between(s, ends, a, b, e) ==
    /\ a \in 0..Len(s) /\ b \in 1..Len(s) /\ a < b
    /\ a # 0 => a \in ends
    /\ b \in ends \cup {Len(s)}
    /\ Len(e) = b - a /\ \A j \in 1..(b - a) : e[j] = s[a + j]
    /\ \A p \in ends : ~(a < p /\ p < b)

\* A piece of a split is between two cuts.
LEMMA PieceIs ==
    ASSUME NEW S, NEW s \in Seq(S), NEW ends \in SUBSET (1..Len(s)), NEW n \in 1..Len(Split(s, ends))
    PROVE  Between(s, ends, Cut(Cuts(s, ends), n - 1), Cut(Cuts(s, ends), n), Split(s, ends)[n])
  <1> DEFINE C == Cuts(s, ends)
             a == Cut(C, n - 1)
             b == Cut(C, n)
             L == Len(s)
             e == Split(s, ends)[n]
  <1>1. L \in Nat
    OBVIOUS
  <1>2. C \in SUBSET (1..L) /\ n \in 1..Cardinality(C) /\ Cardinality(C) \in Nat /\ e = SubSeq(s, a + 1, b)
    BY SplitIs
  <1>3. /\ \A p \in C : p \in ends \/ p = L
        /\ ends \subseteq C
    BY DEF Cuts
  <1> HIDE DEF C, e
  <1>4. /\ n - 1 \in 0..Cardinality(C) /\ a < b
        /\ \A p \in C : ~(a < p /\ p < b)
    BY <1>1, <1>2, CutsInOrder
  <1>5. a \in 0..L /\ b \in 0..L /\ b \in C /\ (n - 1 # 0 => a \in C) /\ (n - 1 = 0 => a = 0)
    <2>1. n \in 0..Cardinality(C) /\ (n - 1 # 0 => n - 1 \in 1..Cardinality(C))
      BY <1>2
    <2> QED
      BY <1>1, <1>2, <1>4, <2>1, CutIs
  <1> HIDE DEF a, b
  <1>6. a # 0 => a \in ends
    <2>1. a # L
      BY <1>1, <1>4, <1>5
    <2> QED
      BY <1>3, <1>5, <2>1
  <1>7. b \in 1..L /\ b \in ends \cup {L}
    BY <1>2, <1>3, <1>5
  <1>8. Len(e) = b - a /\ \A j \in 1..(b - a) : e[j] = s[a + j]
    BY <1>1, <1>2, <1>4, <1>5, SubSeqProperties
  <1>9. Between(s, ends, a, b, e)
    BY <1>3, <1>4, <1>5, <1>6, <1>7, <1>8 DEF Between, L
  <1> QED
    BY <1>9 DEF C, a, b, e

\* Every place is in one.
LEMMA InPiece ==
    ASSUME NEW S, NEW s \in Seq(S), NEW ends \in SUBSET (1..Len(s)), NEW y \in 1..Len(s)
    PROVE  \E n \in 1..Len(Split(s, ends)) :
              Cut(Cuts(s, ends), n - 1) < y /\ y <= Cut(Cuts(s, ends), n)
  <1> DEFINE C == Cuts(s, ends)
             L == Len(s)
             N == Cardinality(C)
             r == Rank(C, y - 1)
             a == Cut(C, r)
             b == Cut(C, r + 1)
  <1>1. L \in Nat /\ y \in 1..L
    OBVIOUS
  <1>2. C \in SUBSET (1..L) /\ N = Len(Split(s, ends))
    BY SplitIs
  <1>3. L \in C
    BY <1>1 DEF Cuts
  <1> HIDE DEF C, L
  <1>4. N \in Nat /\ Rank(C, L) = N
    BY <1>1, <1>2, RankType
  <1> HIDE DEF N
  <1>5. y - 1 \in 0..L /\ L \in 0..L
    BY <1>1
  <1>6. r \in 0..(N - 1)
    <2>1. Rank(C, y - 1) \in Nat
      BY <1>1, <1>2, <1>5, RankType
    <2>2. y - 1 < L /\ y - 1 <= L
      BY <1>1
    <2>3. Rank(C, y - 1) < Rank(C, L)
      BY <1>1, <1>2, <1>3, <1>5, <2>2, RankGrows
    <2> QED
      BY <1>4, <2>1, <2>3
  <1>7. r \in 0..N /\ r + 1 \in 1..N /\ r + 1 \in 0..N /\ (r + 1) - 1 = r
    BY <1>4, <1>6
  <1>8. /\ a \in 0..L /\ Rank(C, a) = r /\ (r # 0 => a \in C) /\ (r = 0 => a = 0)
        /\ b \in 0..L /\ Rank(C, b) = r + 1
    <2> HIDE DEF r
    <2>1. r # 0 => r \in 1..N
      BY <1>7
    <2> QED
      BY <1>1, <1>2, <1>7, <2>1, CutIs DEF N
  <1> HIDE DEF a, b
  <1>9. a < y
    <2> SUFFICES ASSUME y <= a PROVE FALSE
      BY <1>1, <1>8
    <2>1. r # 0 /\ a \in C /\ y - 1 < a /\ y - 1 <= a
      BY <1>1, <1>8
    <2>2. Rank(C, y - 1) < Rank(C, a)
      BY <1>1, <1>2, <1>5, <1>8, <2>1, RankGrows
    <2> QED
      BY <1>7, <1>8, <2>2
  <1>10. y <= b
    <2> SUFFICES ASSUME b <= y - 1 PROVE FALSE
      BY <1>1, <1>8
    <2>1. Rank(C, b) <= Rank(C, y - 1)
      BY <1>1, <1>2, <1>5, <1>8, RankGrows
    <2> QED
      BY <1>7, <1>8, <2>1
  <1> HIDE DEF r
  <1>11. r + 1 \in 1..Len(Split(s, ends)) /\ Cut(C, (r + 1) - 1) < y /\ y <= Cut(C, r + 1)
    BY <1>2, <1>7, <1>9, <1>10 DEF a, b, N
  <1> QED
    BY <1>11 DEF C

\* Where an event begins and finishes.
Begins(s, n) == Cut(Cuts(s, BlankLines(s)), n - 1)
Finishes(s, n) == Cut(Cuts(s, BlankLines(s)), n)

\* Where an event is in its stream.
LEMMA EventAt ==
    ASSUME NEW S, NEW s \in Seq(S), NEW n \in 1..Len(Events(s))
    PROVE  /\ Between(s, BlankLines(s), Begins(s, n), Finishes(s, n), Events(s)[n])
           /\ Events(s)[n] \in Seq(S)
  <1> DEFINE ends == BlankLines(s)
  <1>1. ends \in SUBSET (1..Len(s)) /\ Events(s) = Split(s, ends)
    BY DEF BlankLines, Events
  <1>2. Events(s) \in Seq(Seq(S))
    BY LinesIs
  <1> HIDE DEF ends
  <1>4. /\ Begins(s, n) = Cut(Cuts(s, ends), n - 1) /\ Finishes(s, n) = Cut(Cuts(s, ends), n)
        /\ n \in 1..Len(Split(s, ends))
    BY <1>1 DEF Begins, Finishes, ends
  <1> DEFINE a == Cut(Cuts(s, ends), n - 1)
             b == Cut(Cuts(s, ends), n)
             e == Split(s, ends)[n]
  <1>5. Between(s, ends, a, b, e)
    BY <1>1, <1>4, PieceIs
  <1>6. a = Begins(s, n) /\ b = Finishes(s, n) /\ e = Events(s)[n] /\ e \in Seq(S)
    BY <1>1, <1>2, <1>4
  <1> HIDE DEF a, b, e
  <1> QED
    BY <1>5, <1>6 DEF ends

\* Every unit of a stream is in an event.
LEMMA InEvent ==
    ASSUME NEW S, NEW s \in Seq(S), NEW y \in 1..Len(s)
    PROVE  \E n \in 1..Len(Events(s)) :
              Begins(s, n) < y /\ y <= Finishes(s, n) /\ s[y] \in Range(Events(s)[n])
  <1> DEFINE ends == BlankLines(s)
  <1>1. ends \in SUBSET (1..Len(s)) /\ Events(s) = Split(s, ends)
    BY DEF BlankLines, Events
  <1> HIDE DEF ends
  <1>2. PICK n \in 1..Len(Events(s)) : Cut(Cuts(s, ends), n - 1) < y /\ y <= Cut(Cuts(s, ends), n)
    BY <1>1, InPiece
  <1>3. Begins(s, n) < y /\ y <= Finishes(s, n)
    BY <1>2 DEF Begins, Finishes, ends
  <1> DEFINE a == Begins(s, n)
             b == Finishes(s, n)
             e == Events(s)[n]
  <1>4. a \in Int /\ b \in Int /\ Len(e) = b - a /\ \A j \in 1..(b - a) : e[j] = s[a + j]
    BY EventAt DEF Between
  <1> HIDE DEF a, b, e
  <1>5. y - a \in 1..Len(e) /\ e[y - a] = s[y]
    <2>1. a < y /\ y <= b
      BY <1>3 DEF a, b
    <2>2. y - a \in 1..(b - a) /\ a + (y - a) = y
      BY <1>4, <2>1
    <2> QED
      BY <1>4, <2>2
  <1>6. s[y] \in Range(e)
    BY <1>5 DEF Range
  <1> QED
    BY <1>3, <1>6 DEF e

\* A line is what is between two ends of lines, and q is in it.
IsLine(s, q, l) ==
    \A a \in 0..Len(s), b \in 1..Len(s) :
        (/\ a < q /\ q <= b /\ (a # 0 => s[a] = NL) /\ s[b] = NL
         /\ \A p \in 1..Len(s) : a < p /\ p < b => s[p] # NL)
        => l = SubSeq(s, a + 1, b)

\* Every unit of a line is in the text, in that line.
LEMMA LineAt ==
    ASSUME NEW S, NEW s \in Seq(S), NEW n \in 1..Len(Lines(s)), NEW j \in 1..Len(Lines(s)[n])
    PROVE  \E q \in 1..Len(s) : Lines(s)[n][j] = s[q] /\ IsLine(s, q, Lines(s)[n])
  <1> DEFINE ends == {p \in 1..Len(s) : s[p] = NL}
             C == Cuts(s, ends)
             x == Cut(C, n - 1)
             z == Cut(C, n)
             L == Len(s)
             l == Lines(s)[n]
             q == x + j
  <1>1. ends \in SUBSET (1..L) /\ Lines(s) = Split(s, ends)
    BY DEF Lines
  <1>2. \A p \in ends : p \in 1..L /\ s[p] = NL
    OBVIOUS
  <1>3. \A p \in 1..L : s[p] = NL => p \in ends
    OBVIOUS
  <1> HIDE DEF ends
  <1>4. C \in SUBSET (1..L) /\ n \in 1..Cardinality(C) /\ l = SubSeq(s, x + 1, z)
    BY <1>1, SplitIs
  <1>5. /\ x \in 0..L /\ z \in 1..L /\ x < z
        /\ x # 0 => x \in ends
        /\ z \in ends \cup {L}
        /\ Len(l) = z - x /\ \A i \in 1..(z - x) : l[i] = s[x + i]
        /\ \A p \in ends : ~(x < p /\ p < z)
    <2>1. Between(s, ends, x, z, l)
      BY <1>1, PieceIs
    <2> HIDE DEF x, z, l
    <2> QED
      BY <2>1 DEF Between
  <1> HIDE DEF C, x, z, l
  <1>6. L \in Nat /\ j \in 1..(z - x)
    BY <1>5 DEF l
  <1> HIDE DEF L
  <1>7. q \in 1..L /\ x < q /\ q <= z /\ l[j] = s[q]
    BY <1>5, <1>6
  <1> HIDE DEF q
  <1>8. ASSUME NEW a \in 0..L, NEW b \in 1..L, a < q, q <= b, a # 0 => s[a] = NL, s[b] = NL,
               \A p \in 1..L : a < p /\ p < b => s[p] # NL
        PROVE  x = a /\ z = b
    <2>1. ~(x < a)
      <3> SUFFICES ASSUME x < a PROVE FALSE
        OBVIOUS
      <3>1. a \in 1..L /\ a \in ends /\ a < z
        BY <1>3, <1>5, <1>6, <1>7, <1>8
      <3> QED
        BY <1>5, <3>1
    <2>2. ~(a < x)
      <3> SUFFICES ASSUME a < x PROVE FALSE
        OBVIOUS
      <3>1. x \in 1..L /\ s[x] = NL /\ x < b
        BY <1>2, <1>5, <1>6, <1>7, <1>8
      <3> QED
        BY <1>8, <3>1
    <2>3. ~(b < z)
      <3> SUFFICES ASSUME b < z PROVE FALSE
        OBVIOUS
      <3>1. b \in ends /\ x < b
        BY <1>3, <1>5, <1>6, <1>7, <1>8
      <3> QED
        BY <1>5, <3>1
    <2>4. ~(z < b)
      <3> SUFFICES ASSUME z < b PROVE FALSE
        OBVIOUS
      <3>1. a < z /\ z # L
        BY <1>5, <1>6, <1>7, <1>8
      <3>2. s[z] = NL
        BY <1>2, <1>5, <3>1
      <3> QED
        BY <1>5, <1>8, <3>1, <3>2
    <2> QED
      BY <1>5, <1>6, <2>1, <2>2, <2>3, <2>4
  <1>9. IsLine(s, q, l)
    <2> SUFFICES ASSUME NEW a \in 0..L, NEW b \in 1..L, a < q, q <= b, a # 0 => s[a] = NL, s[b] = NL,
                        \A p \in 1..L : a < p /\ p < b => s[p] # NL
                 PROVE  l = SubSeq(s, a + 1, b)
      BY DEF IsLine, L
    <2>1. x = a /\ z = b
      BY <1>8
    <2> QED
      BY <1>4, <2>1
  <1> QED
    BY <1>7, <1>9 DEF l, L

-----------------------------------------------------------------------------
(***************************************************************************)
(* What a frame does to the text, and what is left of it in a chunk.       *)
(***************************************************************************)

\* A part of a sequence.
LEMMA PartIs ==
    ASSUME NEW S, NEW s \in Seq(S), NEW a \in 0..Len(s), NEW b \in a..Len(s)
    PROVE  /\ SubSeq(s, a + 1, b) \in Seq(S) /\ Len(SubSeq(s, a + 1, b)) = b - a
           /\ \A p \in 1..(b - a) : SubSeq(s, a + 1, b)[p] = s[a + p]
  <1>1. Len(s) \in Nat
    OBVIOUS
  <1>2. a + 1 \in Int /\ b \in Int /\ \A i \in (a + 1)..b : s[i] \in S
    <2>1. \A i \in (a + 1)..b : i \in 1..Len(s)
      BY <1>1
    <2> QED
      BY <1>1, <2>1
  <1>3. SubSeq(s, a + 1, b) \in Seq(S)
    BY <1>2, SubSeqProperties
  <1>4. Len(SubSeq(s, a + 1, b)) = b - a /\ \A p \in 1..(b - a) : SubSeq(s, a + 1, b)[p] = s[a + p]
    BY <1>1, SubSeqProperties
  <1> QED
    BY <1>3, <1>4

\* Every half of a character has its other half beside it.
Matched(t) ==
    \A p \in 1..Len(t) :
        /\ t[p] = WIDE[1] => p < Len(t) /\ t[p + 1] = WIDE[2]
        /\ t[p] = WIDE[2] => p > 1 /\ t[p - 1] = WIDE[1]

\* The text t is what came of s from x on, but for halves of characters that were replaced.
Blurred(t, s, x) ==
    \A p \in 1..Len(t) : t[p] = s[x + p] \/ (t[p] = Mark("bad") /\ s[x + p] \in {WIDE[1], WIDE[2]})

\* The kinds of the units that the filter reads by.
LEMMA WideIs ==
    /\ WIDE[1].k = "wide" /\ WIDE[2].k = "wide" /\ WIDE[1] # WIDE[2]
    /\ Mark("bad").k = "bad" /\ NL.k = "nl" /\ OPEN.k = "open" /\ CLOSE.k = "close"
  BY DEF WIDE, U, Mark, NL, OPEN, CLOSE

\* from_utf8_lossy leaves no half of a character, and replaces nothing else.
LEMMA LossyMatched ==
    ASSUME NEW f \in Seq(Unit)
    PROVE  Matched(Lossy(f)) /\ Blurred(Lossy(f), f, 0)
  <1> DEFINE L == Len(f)
             g == Lossy(f)
             bad == Mark("bad")
             Alone(p) == \/ f[p] = WIDE[1] /\ (p = L \/ f[p + 1] # WIDE[2])
                         \/ f[p] = WIDE[2] /\ (p = 1 \/ f[p - 1] # WIDE[1])
  <1>1. L \in Nat /\ g = [p \in 1..L |-> IF Alone(p) THEN bad ELSE f[p]] /\ Len(g) = L
    BY LossyIs DEF Lossy
  <1>2. bad # WIDE[1] /\ bad # WIDE[2] /\ WIDE[1] # WIDE[2]
    <2>1. WIDE[1].k = "wide" /\ WIDE[2].k = "wide" /\ bad.k = "bad" /\ WIDE[1] # WIDE[2]
      BY WideIs
    <2> HIDE DEF bad
    <2> QED
      BY <2>1
  <1>3. \A p \in 1..L : g[p] = IF Alone(p) THEN bad ELSE f[p]
    BY <1>1
  <1>0. L \in Nat /\ Len(g) = L
    BY <1>1
  <1> HIDE DEF g, bad, L
  <1>4. ASSUME NEW p \in 1..L, g[p] = WIDE[1] PROVE p < L /\ g[p + 1] = WIDE[2]
    <2>1. ~Alone(p) /\ f[p] = WIDE[1]
      BY <1>2, <1>3, <1>4
    <2>2. p < L /\ f[p + 1] = WIDE[2] /\ p + 1 \in 1..L
      BY <1>0, <2>1
    <2>3. (p + 1) - 1 = p /\ p + 1 # 1
      BY <1>0
    <2>4. ~Alone(p + 1)
      BY <1>2, <2>1, <2>2, <2>3
    <2> QED
      BY <1>3, <2>2, <2>4
  <1>5. ASSUME NEW p \in 1..L, g[p] = WIDE[2] PROVE p > 1 /\ g[p - 1] = WIDE[1]
    <2>1. ~Alone(p) /\ f[p] = WIDE[2]
      BY <1>2, <1>3, <1>5
    <2>2. p # 1 /\ f[p - 1] = WIDE[1] /\ p > 1 /\ p - 1 \in 1..L
      BY <1>0, <2>1
    <2>3. (p - 1) + 1 = p /\ p - 1 # L
      BY <1>0
    <2>4. ~Alone(p - 1)
      BY <1>2, <2>1, <2>2, <2>3
    <2> QED
      BY <1>3, <2>2, <2>4
  <1>6. \A p \in 1..L : g[p] = f[0 + p] \/ (g[p] = bad /\ f[0 + p] \in {WIDE[1], WIDE[2]})
    <2> SUFFICES ASSUME NEW p \in 1..L PROVE g[p] = f[0 + p] \/ (g[p] = bad /\ f[0 + p] \in {WIDE[1], WIDE[2]})
      OBVIOUS
    <2>1. 0 + p = p
      BY <1>0
    <2>2. Alone(p) => f[p] \in {WIDE[1], WIDE[2]}
      OBVIOUS
    <2> HIDE DEF Alone
    <2> QED
      BY <1>3, <2>1, <2>2
  <1> QED
    BY <1>0, <1>4, <1>5, <1>6 DEF Matched, Blurred, g, bad, L

\* Matched text after matched text is matched.
LEMMA MatchedBoth ==
    ASSUME NEW s \in Seq(Unit), NEW t \in Seq(Unit), Matched(s), Matched(t)
    PROVE  Matched(s \o t)
  <1> DEFINE w == s \o t
             x == WIDE[1]
             y == WIDE[2]
             a == Len(s)
             b == Len(t)
  <1>1. Len(w) = a + b /\ (\A p \in 1..(a + b) : w[p] = IF p <= a THEN s[p] ELSE t[p - a]) /\ a \in Nat /\ b \in Nat
    BY ConcatProperties
  <1>2. /\ \A p \in 1..a : (s[p] = x => p < a /\ s[p + 1] = y) /\ (s[p] = y => p > 1 /\ s[p - 1] = x)
        /\ \A p \in 1..b : (t[p] = x => p < b /\ t[p + 1] = y) /\ (t[p] = y => p > 1 /\ t[p - 1] = x)
    BY DEF Matched
  <1> HIDE DEF w, x, y, a, b
  <1>3. ASSUME NEW p \in 1..(a + b)
        PROVE  /\ w[p] = x => p < a + b /\ w[p + 1] = y
               /\ w[p] = y => p > 1 /\ w[p - 1] = x
    <2>1. CASE p <= a
      <3>1. p \in 1..a /\ w[p] = s[p]
        BY <1>1, <2>1
      <3>2. p < a => w[p + 1] = s[p + 1] /\ p + 1 \in 1..(a + b)
        BY <1>1, <2>1
      <3>3. p > 1 => w[p - 1] = s[p - 1]
        BY <1>1, <2>1
      <3> QED
        BY <1>1, <1>2, <3>1, <3>2, <3>3
    <2>2. CASE ~(p <= a)
      <3>1. p - a \in 1..b /\ w[p] = t[p - a]
        BY <1>1, <2>2
      <3>2. p - a < b => p < a + b /\ w[p + 1] = t[(p - a) + 1]
        <4>1. p - a < b => p + 1 \in 1..(a + b) /\ ~(p + 1 <= a) /\ (p + 1) - a = (p - a) + 1 /\ p < a + b
          BY <1>1, <2>2
        <4> QED
          BY <1>1, <4>1
      <3>3. p - a > 1 => p > 1 /\ w[p - 1] = t[(p - a) - 1]
        <4>1. p - a > 1 => p - 1 \in 1..(a + b) /\ ~(p - 1 <= a) /\ (p - 1) - a = (p - a) - 1 /\ p > 1
          BY <1>1, <2>2
        <4> QED
          BY <1>1, <4>1
      <3> QED
        BY <1>2, <3>1, <3>2, <3>3
    <2> QED
      BY <2>1, <2>2
  <1> QED
    BY <1>1, <1>3 DEF Matched, w, x, y, a, b

\* A cut behind the end of a line parts no two halves.
LEMMA MatchedHalves ==
    ASSUME NEW t \in Seq(Unit), Matched(t), NEW e \in 0..Len(t), e = 0 \/ e = Len(t) \/ t[e] = NL
    PROVE  Matched(SubSeq(t, 1, e)) /\ Matched(SubSeq(t, e + 1, Len(t)))
  <1> DEFINE a == SubSeq(t, 1, e)
             b == SubSeq(t, e + 1, Len(t))
             L == Len(t)
             x == WIDE[1]
             y == WIDE[2]
  <1>1. /\ Len(a) = e /\ (\A p \in 1..e : a[p] = t[p]) /\ Len(b) = L - e /\ (\A p \in 1..(L - e) : b[p] = t[e + p])
        /\ L \in Nat /\ e \in Nat
    BY Halves
  <1>2. \A p \in 1..L : (t[p] = x => p < L /\ t[p + 1] = y) /\ (t[p] = y => p > 1 /\ t[p - 1] = x)
    BY DEF Matched
  <1>3. x # NL /\ y # NL
    <2>1. WIDE[1].k = "wide" /\ WIDE[2].k = "wide" /\ NL.k = "nl"
      BY WideIs
    <2> HIDE DEF x, y
    <2> QED
      BY <2>1 DEF x, y
  <1> HIDE DEF a, b, L, x, y
  <1>4. e = 0 \/ e = L \/ t[e] = NL
    BY DEF L
  <1>5. ASSUME NEW p \in 1..e
        PROVE  (a[p] = x => p < e /\ a[p + 1] = y) /\ (a[p] = y => p > 1 /\ a[p - 1] = x)
    <2>1. p \in 1..L /\ a[p] = t[p]
      <3>1. e <= L
        BY DEF L
      <3> QED
        BY <1>1, <3>1
    <2>2. a[p] = x => p < e
      <3> SUFFICES ASSUME a[p] = x, p = e PROVE FALSE
        BY <1>1
      <3>1. t[e] = x /\ e # 0
        BY <1>1, <2>1
      <3>2. e # L
        BY <1>2, <2>1
      <3> QED
        BY <1>3, <1>4, <3>1, <3>2
    <2>3. p < e => a[p + 1] = t[p + 1]
      BY <1>1
    <2>4. p > 1 => a[p - 1] = t[p - 1]
      BY <1>1
    <2> QED
      BY <1>2, <2>1, <2>2, <2>3, <2>4
  <1>6. ASSUME NEW p \in 1..(L - e)
        PROVE  (b[p] = x => p < L - e /\ b[p + 1] = y) /\ (b[p] = y => p > 1 /\ b[p - 1] = x)
    <2>1. e + p \in 1..L /\ b[p] = t[e + p]
      BY <1>1
    <2>2. b[p] = y => p > 1
      <3> SUFFICES ASSUME b[p] = y, p = 1 PROVE FALSE
        BY <1>1
      <3>1. e + 1 > 1 /\ t[(e + 1) - 1] = x
        BY <1>2, <2>1
      <3>2. (e + 1) - 1 = e /\ e # 0 /\ e # L
        BY <1>1, <3>1
      <3> QED
        BY <1>3, <1>4, <3>1, <3>2
    <2>3. e + p < L => p < L - e /\ b[p + 1] = t[(e + p) + 1]
      <3>1. e + p < L => p + 1 \in 1..(L - e) /\ e + (p + 1) = (e + p) + 1 /\ p < L - e
        BY <1>1
      <3> QED
        BY <1>1, <3>1
    <2>4. p > 1 => b[p - 1] = t[(e + p) - 1]
      <3>1. p > 1 => p - 1 \in 1..(L - e) /\ e + (p - 1) = (e + p) - 1
        BY <1>1
      <3> QED
        BY <1>1, <3>1
    <2> QED
      BY <1>2, <2>1, <2>2, <2>3, <2>4
  <1> QED
    BY <1>1, <1>5, <1>6 DEF Matched, a, b, L, x, y

\* Frames come behind what is held back, and a chunk is cut off in front.
LEMMA BlurredBoth ==
    ASSUME NEW t \in Seq(Unit), NEW g \in Seq(Unit), NEW s, NEW x \in Nat,
           Blurred(t, s, x), Blurred(g, s, x + Len(t))
    PROVE  Blurred(t \o g, s, x)
  <1> DEFINE w == t \o g
             a == Len(t)
             b == Len(g)
             R(u, v) == u = v \/ (u = Mark("bad") /\ v \in {WIDE[1], WIDE[2]})
  <1>1. Len(w) = a + b /\ (\A p \in 1..(a + b) : w[p] = IF p <= a THEN t[p] ELSE g[p - a]) /\ a \in Nat /\ b \in Nat
    BY ConcatProperties
  <1>2. (\A p \in 1..a : R(t[p], s[x + p])) /\ \A p \in 1..b : R(g[p], s[(x + a) + p])
    BY DEF Blurred
  <1> HIDE DEF w, a, b, R
  <1>3. ASSUME NEW p \in 1..(a + b) PROVE R(w[p], s[x + p])
    <2>1. CASE p <= a
      BY <1>1, <1>2, <2>1
    <2>2. CASE ~(p <= a)
      <3>1. p - a \in 1..b /\ (x + a) + (p - a) = x + p
        BY <1>1, <2>2
      <3> QED
        BY <1>1, <1>2, <2>2, <3>1
    <2> QED
      BY <2>1, <2>2
  <1> QED
    BY <1>1, <1>3 DEF Blurred, R, w

\* Both parts of what came of a stream came of it.
LEMMA BlurredHalves ==
    ASSUME NEW t \in Seq(Unit), NEW e \in 0..Len(t), NEW s, NEW x \in Nat, Blurred(t, s, x)
    PROVE  Blurred(SubSeq(t, 1, e), s, x) /\ Blurred(SubSeq(t, e + 1, Len(t)), s, x + e)
  <1> DEFINE a == SubSeq(t, 1, e)
             b == SubSeq(t, e + 1, Len(t))
             L == Len(t)
             R(u, v) == u = v \/ (u = Mark("bad") /\ v \in {WIDE[1], WIDE[2]})
  <1>1. /\ Len(a) = e /\ (\A p \in 1..e : a[p] = t[p]) /\ Len(b) = L - e /\ (\A p \in 1..(L - e) : b[p] = t[e + p])
        /\ L \in Nat /\ e \in Nat /\ e <= L
    BY Halves
  <1>2. \A p \in 1..L : R(t[p], s[x + p])
    BY DEF Blurred
  <1> HIDE DEF a, b, L, R
  <1>3. ASSUME NEW p \in 1..e PROVE R(a[p], s[x + p])
    <2>1. p \in 1..L /\ a[p] = t[p]
      BY <1>1
    <2> QED
      BY <1>2, <2>1
  <1>4. ASSUME NEW p \in 1..(L - e) PROVE R(b[p], s[(x + e) + p])
    <2>1. e + p \in 1..L /\ x + (e + p) = (x + e) + p
      BY <1>1
    <2> QED
      BY <1>1, <1>2, <2>1
  <1> QED
    BY <1>1, <1>3, <1>4 DEF Blurred, R, a, b

\* What is no half of a character is left as it was.
LEMMA BlurredIs ==
    ASSUME NEW t, NEW s, NEW x, Blurred(t, s, x), NEW p \in 1..Len(t)
    PROVE  /\ t[p].k # "bad" => s[x + p] = t[p]
           /\ s[x + p].k # "wide" => t[p] = s[x + p]
           /\ t[p] = s[x + p] \/ t[p].k = "bad"
  <1> DEFINE bad == Mark("bad")
             y == WIDE[1]
             z == WIDE[2]
  <1>1. t[p] = s[x + p] \/ (t[p] = bad /\ s[x + p] \in {y, z})
    BY DEF Blurred
  <1>2. bad.k = "bad" /\ y.k = "wide" /\ z.k = "wide"
    BY WideIs
  <1> HIDE DEF bad, y, z
  <1> QED
    BY <1>1, <1>2

-----------------------------------------------------------------------------
(***************************************************************************)
(* An event the filter can read, in a chunk that has all of it.            *)
(***************************************************************************)

\* What is in such an event.
LEMMA OneLineHas ==
    ASSUME NEW e \in Seq(Unit), NEW m, m = Len(e), OneLine(e)
    PROVE  /\ m \in Nat /\ m >= 4 /\ m <= SseCap
           /\ e[1] = OPEN /\ e[m - 2] = CLOSE /\ e[m - 1] = NL /\ e[m] = NL
           /\ \A p \in 1..(m - 2) : e[p].k \notin {"bin", "nl", "cr"}
           /\ \A p \in 2..(m - 3) : e[p].k \notin {"open", "close", "nl", "cr"}
           /\ \A p \in 1..m : e[p].k # "batch"
  <1> DEFINE d == SubSeq(e, 1, m - 2)
  <1>1. m \in Nat /\ m <= SseCap /\ m \in BlankLines(e) /\ IsDoc(d) /\ ~HasBatch(e)
    BY DEF OneLine
  <1>2. m \in 2..Len(e) /\ e[m] = NL /\ e[m - 1] = NL
    BY <1>1 DEF BlankLines
  <1>3. m - 2 \in 0..Len(e)
    BY <1>1, <1>2
  <1>4. Len(d) = m - 2 /\ \A p \in 1..(m - 2) : d[p] = e[p]
    BY <1>3, Halves
  <1> HIDE DEF d
  <1>5. /\ Len(d) >= 2 /\ d[1] = OPEN /\ d[Len(d)] = CLOSE /\ WellEncoded(d)
        /\ \A p \in 2..(Len(d) - 1) : d[p].k \notin {"open", "close", "nl", "cr"}
    BY <1>1 DEF IsDoc
  <1>6. m >= 4 /\ e[1] = OPEN /\ e[m - 2] = CLOSE
    BY <1>1, <1>4, <1>5
  <1>7. \A p \in 1..(m - 2) : e[p].k # "bin"
    BY <1>4, <1>5 DEF WellEncoded
  <1>8. \A p \in 2..(m - 3) : e[p].k \notin {"open", "close", "nl", "cr"}
    BY <1>1, <1>4, <1>5
  <1>9. \A p \in 1..(m - 2) : e[p].k \notin {"nl", "cr"}
    <2> SUFFICES ASSUME NEW p \in 1..(m - 2) PROVE e[p].k \notin {"nl", "cr"}
      OBVIOUS
    <2>1. p = 1 \/ p = m - 2 \/ p \in 2..(m - 3)
      BY <1>1, <1>6
    <2>2. OPEN.k = "open" /\ CLOSE.k = "close"
      BY WideIs
    <2> QED
      BY <1>6, <1>8, <2>1, <2>2
  <1>10. \A p \in 1..m : e[p].k # "batch"
    BY <1>1 DEF HasBatch
  <1> QED
    BY <1>1, <1>2, <1>6, <1>7, <1>8, <1>9, <1>10

\* Its line is a document still, whatever halves were replaced in it.
LEMMA StillDoc ==
    ASSUME NEW e \in Seq(Unit), NEW m, m = Len(e), OneLine(e),
           NEW d \in Seq(Unit), Len(d) = m - 2, Matched(d),
           \A p \in 1..(m - 2) : (d[p] = e[p] \/ d[p].k = "bad") /\ (e[p].k # "wide" => d[p] = e[p])
    PROVE  IsDoc(d) /\ ~HasBatch(d) /\ \A p \in 1..(m - 2) : d[p].k \notin {"nl", "cr"}
  <1>1. /\ m \in Nat /\ m >= 4
        /\ e[1] = OPEN /\ e[m - 2] = CLOSE
        /\ \A p \in 1..(m - 2) : e[p].k \notin {"bin", "nl", "cr"}
        /\ \A p \in 2..(m - 3) : e[p].k \notin {"open", "close", "nl", "cr"}
        /\ \A p \in 1..m : e[p].k # "batch"
    BY OneLineHas
  <1>2. OPEN.k = "open" /\ CLOSE.k = "close"
    BY WideIs
  <1>3. d[1] = OPEN /\ d[m - 2] = CLOSE
    <2>1. 1 \in 1..(m - 2) /\ m - 2 \in 1..(m - 2)
      BY <1>1
    <2> QED
      BY <1>1, <1>2, <2>1
  <1>4. \A p \in 2..(Len(d) - 1) : d[p].k \notin {"open", "close", "nl", "cr"}
    <2> SUFFICES ASSUME NEW p \in 2..(m - 3) PROVE d[p].k \notin {"open", "close", "nl", "cr"}
      BY <1>1
    <2>1. p \in 1..(m - 2)
      BY <1>1
    <2> QED
      BY <1>1, <2>1
  <1>5. \A p \in 1..(m - 2) : d[p].k \notin {"bin", "nl", "cr"}
    BY <1>1
  <1>6. WellEncoded(d)
    BY <1>5 DEF WellEncoded, Matched
  <1>7. Len(d) >= 2
    BY <1>1
  <1>8. IsDoc(d)
    BY <1>3, <1>4, <1>6, <1>7 DEF IsDoc
  <1>9. ~HasBatch(d)
    <2> SUFFICES ASSUME NEW p \in 1..(m - 2), d[p].k = "batch" PROVE FALSE
      BY DEF HasBatch
    <2>1. p \in 1..m
      BY <1>1
    <2> QED
      BY <1>1, <2>1
  <1> QED
    BY <1>5, <1>8, <1>9

\* A document is what is left of its line without the end of it.
LEMMA ContentOf ==
    ASSUME NEW l \in Seq(Unit), NEW d \in Seq(Unit), Len(l) = Len(d) + 1, Len(d) > 0,
           \A p \in 1..Len(d) : l[p] = d[p], l[Len(l)] = NL, d[Len(d)].k \notin {"nl", "cr"}
    PROVE  Content(l) = d
  <1> DEFINE L == Len(d)
             c == Content(l)
  <1>1. PICK n \in 0..Len(l) :
            /\ c = SubSeq(l, 1, n)
            /\ n # 0 => l[n].k \notin {"nl", "cr"}
            /\ \A p \in 1..Len(l) : n < p => l[p].k \in {"nl", "cr"}
    BY ContentIs
  <1>2. L \in Nat /\ Len(l) = L + 1 /\ L > 0 /\ l[L + 1] = NL /\ l[L] = d[L]
    OBVIOUS
  <1>3. NL.k = "nl"
    BY WideIs
  <1>4. n = L
    <2>1. n # L + 1
      BY <1>1, <1>2, <1>3
    <2>2. ~(n < L)
      <3> SUFFICES ASSUME n < L PROVE FALSE
        OBVIOUS
      <3>1. L \in 1..Len(l)
        BY <1>2
      <3>2. l[L].k \in {"nl", "cr"}
        BY <1>1, <3>1
      <3> QED
        BY <1>2, <3>2
    <2> QED
      BY <1>1, <1>2, <2>1, <2>2
  <1>5. c \in Seq(Unit) /\ Len(c) = L /\ \A p \in 1..L : c[p] = l[p]
    BY <1>1, <1>4, Halves
  <1> HIDE DEF c
  <1>6. Len(c) = Len(d) /\ \A p \in 1..Len(c) : c[p] = d[p]
    BY <1>5
  <1>7. c = d
    BY <1>5, <1>6, SeqEqual
  <1> QED
    BY <1>7 DEF c

\* A part of matched text that begins and ends otherwise is matched.
LEMMA MatchedPart ==
    ASSUME NEW t \in Seq(Unit), Matched(t), NEW a \in 0..Len(t), NEW b \in a..Len(t),
           b > a, t[a + 1].k # "wide", t[b].k # "wide"
    PROVE  Matched(SubSeq(t, a + 1, b))
  <1> DEFINE d == SubSeq(t, a + 1, b)
             m == b - a
             L == Len(t)
             x == WIDE[1]
             y == WIDE[2]
  <1>1. Len(d) = m /\ \A p \in 1..m : d[p] = t[a + p]
    BY PartIs
  <1>2. \A p \in 1..L : (t[p] = x => p < L /\ t[p + 1] = y) /\ (t[p] = y => p > 1 /\ t[p - 1] = x)
    BY DEF Matched
  <1>3. L \in Nat /\ a \in Nat /\ b \in Nat /\ b <= L /\ a < b
    OBVIOUS
  <1>4. x.k = "wide" /\ y.k = "wide"
    BY WideIs
  <1> HIDE DEF d, x, y, L
  <1>5. ASSUME NEW p \in 1..m
        PROVE  (d[p] = x => p < m /\ d[p + 1] = y) /\ (d[p] = y => p > 1 /\ d[p - 1] = x)
    <2>1. a + p \in 1..L /\ d[p] = t[a + p]
      BY <1>1, <1>3
    <2>2. d[p] = x => p < m
      <3> SUFFICES ASSUME d[p] = x, p = m PROVE FALSE
        BY <1>3
      <3>1. a + p = b
        BY <1>3
      <3> QED
        BY <1>4, <2>1, <3>1
    <2>3. d[p] = y => p > 1
      <3> SUFFICES ASSUME d[p] = y, p = 1 PROVE FALSE
        BY <1>3
      <3> QED
        BY <1>4, <2>1
    <2>4. p < m => d[p + 1] = t[(a + p) + 1]
      <3>1. p < m => p + 1 \in 1..m /\ a + (p + 1) = (a + p) + 1
        BY <1>3
      <3> QED
        BY <1>1, <3>1
    <2>5. p > 1 => d[p - 1] = t[(a + p) - 1]
      <3>1. p > 1 => p - 1 \in 1..m /\ a + (p - 1) = (a + p) - 1
        BY <1>3
      <3> QED
        BY <1>1, <3>1
    <2> QED
      BY <1>2, <2>1, <2>2, <2>3, <2>4, <2>5
  <1> QED
    BY <1>1, <1>5 DEF Matched, d, x, y

-----------------------------------------------------------------------------
(***************************************************************************)
(* What a filtered stream shows.                                           *)
(***************************************************************************)

\* No event that the filter can read is cut at x.
Outside(s, x) ==
    \A n \in 1..Len(Events(s)) :
        OneLine(Events(s)[n]) => ~(Begins(s, n) < x /\ x < Finishes(s, n))

\* A tool comes of an event the filter cannot read.
Excused(s, u) ==
    \E n \in 1..Len(Events(s)) : u \in Range(Events(s)[n]) /\ ~OneLine(Events(s)[n])

\* An event that the filter can read is one line of the chunk it is in.
LEMMA LineOfEvent ==
    ASSUME NEW s \in Seq(Unit), NEW t \in Seq(Unit), Matched(t), NEW x \in Nat, Blurred(t, s, x),
           NEW n \in 1..Len(Events(s)), OneLine(Events(s)[n]),
           x <= Begins(s, n), Finishes(s, n) <= x + Len(t),
           NEW q \in 1..Len(t), Begins(s, n) < x + q, x + q <= Finishes(s, n), t[q].k = "tool"
    PROVE  \E a \in 0..Len(t), b \in 1..Len(t) :
              /\ a < q /\ q <= b /\ (a # 0 => t[a] = NL) /\ t[b] = NL
              /\ \A p \in 1..Len(t) : a < p /\ p < b => t[p] # NL
              /\ IsDoc(Content(SubSeq(t, a + 1, b))) /\ ~HasBatch(Content(SubSeq(t, a + 1, b)))
  <1> DEFINE b0 == Begins(s, n)
             f0 == Finishes(s, n)
             e == Events(s)[n]
             m == f0 - b0
             c == b0 - x
             L == Len(t)
             h == c + (m - 1)
             d == SubSeq(t, c + 1, c + (m - 2))
             l == SubSeq(t, c + 1, h)
  <1>1. /\ b0 \in Nat /\ f0 \in Nat /\ b0 < f0 /\ e \in Seq(Unit) /\ Len(e) = m /\ \A j \in 1..m : e[j] = s[b0 + j]
        /\ b0 # 0 => s[b0] = NL
    BY EventAt, SMTT(30) DEF Between, BlankLines
  <1>2. /\ m \in Nat /\ m >= 4
        /\ e[1] = OPEN /\ e[m - 2] = CLOSE /\ e[m - 1] = NL /\ e[m] = NL
    BY <1>1, OneLineHas
  <1>3. x <= b0 /\ f0 <= x + L /\ b0 < x + q /\ x + q <= f0 /\ L \in Nat
    OBVIOUS
  <1>4. OPEN.k = "open" /\ CLOSE.k = "close" /\ NL.k = "nl"
    BY WideIs
  <1>5. OneLine(e)
    OBVIOUS
  <1> HIDE DEF b0, f0, e, L
  <1>6. c \in Nat /\ c + m <= L /\ x + c = b0 /\ h \in 1..L /\ c \in 0..L /\ c + (m - 2) \in c..L /\ c + (m - 2) > c
    <2>1. c \in Nat /\ c + m <= L /\ x + c = b0
      <3>1. b0 \in Nat /\ f0 \in Nat
        BY <1>1
      <3> QED
        BY <1>3, <3>1
    <2> HIDE DEF c, m
    <2> QED
      BY <1>2, <1>3, <2>1, SMTT(30)
  <1>7. \A j \in 1..m : /\ c + j \in 1..L
                        /\ t[c + j] = e[j] \/ t[c + j].k = "bad"
                        /\ e[j].k # "wide" => t[c + j] = e[j]
    <2> SUFFICES ASSUME NEW j \in 1..m
                 PROVE  /\ c + j \in 1..L
                        /\ t[c + j] = e[j] \/ t[c + j].k = "bad"
                        /\ e[j].k # "wide" => t[c + j] = e[j]
      OBVIOUS
    <2>1. c + j \in 1..L /\ x + (c + j) = b0 + j
      <3>1. c \in Nat /\ m \in Nat /\ c + m <= L /\ x + c = b0 /\ b0 \in Nat /\ L \in Nat
        BY <1>1, <1>2, <1>3, <1>6
      <3> HIDE DEF c, m
      <3>2. j \in Nat /\ 1 <= j /\ j <= m
        BY <3>1
      <3>3. c + j \in 1..L
        BY <3>1, <3>2
      <3>4. x + (c + j) = (x + c) + j
        BY <3>1, <3>2
      <3> QED
        BY <3>1, <3>3, <3>4
    <2> DEFINE p == c + j
    <2>2. p \in 1..Len(t) /\ s[x + p] = e[j]
      BY <1>1, <2>1 DEF L
    <2> HIDE DEF p
    <2>3. /\ t[p].k # "bad" => s[x + p] = t[p]
          /\ s[x + p].k # "wide" => t[p] = s[x + p]
          /\ t[p] = s[x + p] \/ t[p].k = "bad"
      BY <2>2, BlurredIs, SMTT(30)
    <2> QED
      BY <2>1, <2>2, <2>3 DEF p
  <1>8. t[c + 1] = OPEN /\ t[c + (m - 2)] = CLOSE /\ t[h] = NL /\ t[c + m] = NL
    <2>1. 1 \in 1..m /\ m - 2 \in 1..m /\ m - 1 \in 1..m /\ m \in 1..m
      BY <1>2, SMTT(30)
    <2>2. t[c + 1] = e[1]
      BY <1>2, <1>4, <1>7, <2>1
    <2>3. t[c + (m - 2)] = e[m - 2]
      BY <1>2, <1>4, <1>7, <2>1
    <2>4. t[c + (m - 1)] = e[m - 1]
      BY <1>2, <1>4, <1>7, <2>1
    <2>5. t[c + m] = e[m]
      BY <1>2, <1>4, <1>7, <2>1
    <2> QED
      BY <1>2, <2>2, <2>3, <2>4, <2>5
  <1>9. c # 0 => t[c] = NL
    <2> SUFFICES ASSUME c # 0 PROVE t[c] = NL
      OBVIOUS
    <2>1. c \in 1..Len(t) /\ s[x + c] = NL
      BY <1>1, <1>3, <1>6 DEF L
    <2> HIDE DEF c
    <2>2. s[x + c].k # "wide" => t[c] = s[x + c]
      BY <2>1, BlurredIs
    <2> QED
      BY <1>4, <2>1, <2>2
  <1> HIDE DEF m, c
  <1>10. d \in Seq(Unit) /\ Len(d) = m - 2 /\ \A p \in 1..(m - 2) : d[p] = t[c + p]
    <2>1. (c + (m - 2)) - c = m - 2
      BY <1>2, <1>6
    <2>2. c \in 0..Len(t) /\ c + (m - 2) \in c..Len(t)
      BY <1>6 DEF L
    <2> DEFINE z == c + (m - 2)
    <2>3. z \in c..Len(t) /\ z - c = m - 2
      BY <2>1, <2>2
    <2> HIDE DEF z
    <2>4. SubSeq(t, c + 1, z) \in Seq(Unit) /\ Len(SubSeq(t, c + 1, z)) = z - c
          /\ \A p \in 1..(z - c) : SubSeq(t, c + 1, z)[p] = t[c + p]
      BY <2>2, <2>3, PartIs, SMTT(30)
    <2> QED
      BY <2>3, <2>4 DEF z
  <1>11. Matched(d)
    <2> DEFINE z == c + (m - 2)
    <2>1. z \in c..Len(t) /\ c \in 0..Len(t) /\ z > c /\ t[z].k # "wide" /\ t[c + 1].k # "wide"
      BY <1>4, <1>6, <1>8 DEF L
    <2> HIDE DEF z
    <2>2. Matched(SubSeq(t, c + 1, z))
      BY <2>1, MatchedPart
    <2> QED
      BY <2>2 DEF z
  <1>12. l \in Seq(Unit) /\ Len(l) = m - 1 /\ \A p \in 1..(m - 1) : l[p] = t[c + p]
    <2>1. h - c = m - 1
      BY <1>2, <1>6
    <2>2. c \in 0..Len(t) /\ h \in c..Len(t)
      BY <1>2, <1>6 DEF L
    <2> HIDE DEF h
    <2>3. SubSeq(t, c + 1, h) \in Seq(Unit) /\ Len(SubSeq(t, c + 1, h)) = h - c
          /\ \A p \in 1..(h - c) : SubSeq(t, c + 1, h)[p] = t[c + p]
      BY <2>2, PartIs
    <2> QED
      BY <2>1, <2>3
  <1> HIDE DEF d
  <1>13. IsDoc(d) /\ ~HasBatch(d) /\ \A p \in 1..(m - 2) : d[p].k \notin {"nl", "cr"}
    <2>1. \A p \in 1..(m - 2) : (d[p] = e[p] \/ d[p].k = "bad") /\ (e[p].k # "wide" => d[p] = e[p])
      <3> SUFFICES ASSUME NEW p \in 1..(m - 2)
                   PROVE  (d[p] = e[p] \/ d[p].k = "bad") /\ (e[p].k # "wide" => d[p] = e[p])
        OBVIOUS
      <3>1. p \in 1..m
        BY <1>2
      <3> QED
        BY <1>7, <1>10, <3>1
    <2> QED
      BY <1>1, <1>5, <1>10, <1>11, <2>1, StillDoc
  <1> HIDE DEF l
  <1>14. Content(l) = d
    <2>1. Len(l) = Len(d) + 1 /\ Len(d) > 0 /\ l[Len(l)] = NL
      <3>1. m - 1 \in 1..(m - 1)
        BY <1>2
      <3> QED
        BY <1>2, <1>8, <1>10, <1>12, <3>1, SMTT(30) DEF h
    <2>2. \A p \in 1..Len(d) : l[p] = d[p]
      <3> SUFFICES ASSUME NEW p \in 1..(m - 2) PROVE l[p] = d[p]
        BY <1>10
      <3>1. p \in 1..(m - 1)
        BY <1>2
      <3> QED
        BY <1>10, <1>12, <3>1
    <2>3. d[Len(d)].k \notin {"nl", "cr"}
      BY <1>2, <1>10, <1>13
    <2> QED
      BY <1>10, <1>12, <2>1, <2>2, <2>3, ContentOf
  <1>15. c < q /\ q <= h
    <2>1. c < q /\ q <= c + m
      BY <1>1, <1>3, <1>6 DEF m
    <2>2. q # c + m
      BY <1>4, <1>8
    <2> QED
      BY <1>2, <1>6, <2>1, <2>2
  <1>16. \A p \in 1..L : c < p /\ p < h => t[p] # NL
    <2> SUFFICES ASSUME NEW p \in 1..L, c < p, p < h PROVE t[p] # NL
      OBVIOUS
    <2>1. p - c \in 1..(m - 2) /\ c + (p - c) = p
      BY <1>2, <1>6
    <2> DEFINE j == p - c
    <2>2. j \in 1..(m - 2) /\ d[j] = t[p]
      BY <1>10, <2>1
    <2> HIDE DEF j
    <2> QED
      BY <1>4, <1>13, <2>2
  <1> HIDE DEF h
  <1> QED
    BY <1>6, <1>8, <1>9, <1>13, <1>14, <1>15, <1>16 DEF L, l

\* What the filter leaves alone in a chunk is of an event it cannot read.
LEMMA LeftIsExcused ==
    ASSUME NEW s \in Seq(Unit), NEW t \in Seq(Unit), Matched(t), NEW x \in Nat, Blurred(t, s, x),
           x + Len(t) <= Len(s), Outside(s, x), Outside(s, x + Len(t)),
           NEW u, u.k = "tool", LeftAlone(t, u)
    PROVE  Excused(s, u)
  <1>1. PICK k \in 1..Len(Lines(t)) :
            u \in Range(Lines(t)[k]) /\ (~IsDoc(Content(Lines(t)[k])) \/ HasBatch(Content(Lines(t)[k])))
    BY DEF LeftAlone
  <1> DEFINE l == Lines(t)[k]
  <1>2. PICK j \in 1..Len(l) : u = l[j]
    BY <1>1 DEF Range
  <1>3. PICK q \in 1..Len(t) :
            l[j] = t[q] /\ IsLine(t, q, l)
    BY LineAt
  <1>4. ~IsDoc(Content(l)) \/ HasBatch(Content(l))
    BY <1>1
  <1> HIDE DEF l
  <1>5. t[q] = u /\ s[x + q] = u
    <2>1. t[q] = u /\ t[q].k # "bad"
      BY <1>2, <1>3
    <2> QED
      BY <2>1, BlurredIs
  <1> DEFINE y == x + q
             L == Len(t)
  <1>6. y \in 1..Len(s) /\ L \in Nat
    OBVIOUS
  <1>7. PICK n \in 1..Len(Events(s)) : Begins(s, n) < y /\ y <= Finishes(s, n) /\ s[y] \in Range(Events(s)[n])
    <2> HIDE DEF y
    <2> QED
      BY <1>6, InEvent
  <1>8. SUFFICES ASSUME OneLine(Events(s)[n]) PROVE FALSE
    BY <1>5, <1>7 DEF Excused
  <1>9. Begins(s, n) \in Int /\ Finishes(s, n) \in Int
    BY EventAt DEF Between
  <1>10. x <= Begins(s, n) /\ Finishes(s, n) <= x + Len(t)
    <2>1. ~(Begins(s, n) < x /\ x < Finishes(s, n)) /\ ~(Begins(s, n) < x + L /\ x + L < Finishes(s, n))
      BY <1>8 DEF Outside
    <2>2. x < y /\ y <= x + L
      BY <1>6
    <2> QED
      BY <1>6, <1>7, <1>9, <2>1, <2>2
  <1>11. PICK a \in 0..Len(t), b \in 1..Len(t) :
              /\ a < q /\ q <= b /\ (a # 0 => t[a] = NL) /\ t[b] = NL
              /\ \A p \in 1..Len(t) : a < p /\ p < b => t[p] # NL
              /\ IsDoc(Content(SubSeq(t, a + 1, b))) /\ ~HasBatch(Content(SubSeq(t, a + 1, b)))
    BY <1>5, <1>7, <1>8, <1>10, LineOfEvent, SMTT(30)
  <1>12. l = SubSeq(t, a + 1, b)
    BY <1>3, <1>11 DEF IsLine
  <1> QED
    BY <1>4, <1>11, <1>12

-----------------------------------------------------------------------------
(***************************************************************************)
(* Where in the stream what is held back is.                               *)
(***************************************************************************)

\* What is held, t, is what came of the stream s from x on, and r is the rest of it.
Placed(s, t, r, x) ==
    /\ (x + Len(t)) + Len(r) = Len(s)
    /\ \A p \in 1..Len(r) : r[p] = s[(x + Len(t)) + p]
    /\ Blurred(t, s, x)
    /\ Outside(s, x)

\* A stream begins with nothing held.
LEMMA PlacedFirst ==
    ASSUME NEW s \in Seq(Unit)
    PROVE  Placed(s, << >>, s, 0)
  <1> DEFINE none == << >>
  <1>1. Len(none) = 0 /\ Len(s) \in Nat
    OBVIOUS
  <1> HIDE DEF none
  <1>2. (0 + Len(none)) + Len(s) = Len(s) /\ \A p \in 1..Len(s) : (0 + Len(none)) + p = p
    BY <1>1
  <1>3. Blurred(none, s, 0)
    BY <1>1 DEF Blurred
  <1>4. Outside(s, 0)
    <2> SUFFICES ASSUME NEW n \in 1..Len(Events(s)) PROVE ~(Begins(s, n) < 0)
      BY DEF Outside
    <2> QED
      BY <1>1, EventAt DEF Between
  <1>5. Placed(s, none, s, 0)
    BY <1>2, <1>3, <1>4 DEF Placed
  <1> QED
    BY <1>5 DEF none

\* The text g is what came of s from x on, and w is what has not been read.
Followed(s, g, w, x) ==
    /\ g \in Seq(Unit) /\ Matched(g) /\ Blurred(g, s, x)
    /\ w \in Seq(Unit) /\ (x + Len(g)) + Len(w) = Len(s)
    /\ \A p \in 1..Len(w) : w[p] = s[(x + Len(g)) + p]

\* A frame is added to what is held.
LEMMA Arrived ==
    ASSUME NEW s \in Seq(Unit), NEW t \in Seq(Unit), NEW r \in Seq(Unit), NEW x \in Nat,
           Placed(s, t, r, x), Matched(t), r # << >>, NEW f \in Frame(r)
    PROVE  Followed(s, t \o Lossy(f), After(f, r), x)
  <1> DEFINE g == t \o Lossy(f)
             l == Lossy(f)
             w == After(f, r)
             T == Len(t)
             F == Len(f)
             W == Len(w)
  <1>1. f \in Seq(Unit) /\ w \in Seq(Unit) /\ f \o w = r
    BY FrameHas
  <1>2. l \in Seq(Unit) /\ Len(l) = F /\ Matched(l) /\ Blurred(l, f, 0)
    BY <1>1, LossyIs, LossyMatched
  <1>3. /\ (x + T) + Len(r) = Len(s) /\ \A p \in 1..Len(r) : r[p] = s[(x + T) + p]
        /\ Blurred(t, s, x)
    BY DEF Placed
  <1> HIDE DEF l, w
  <1>4. Len(r) = F + W /\ (\A p \in 1..F : r[p] = f[p]) /\ \A p \in 1..W : r[F + p] = w[p]
    <2>1. Len(f \o w) = F + W
      BY <1>1, ConcatProperties
    <2>2. \A p \in 1..F : (f \o w)[p] = f[p]
      BY <1>1, ConcatProperties
    <2>3. \A p \in 1..W : (f \o w)[F + p] = w[p]
      <3> SUFFICES ASSUME NEW p \in 1..W PROVE (f \o w)[F + p] = w[p]
        OBVIOUS
      <3>1. F \in Nat /\ W \in Nat
        BY <1>1
      <3> HIDE DEF F, W
      <3>2. F + p \in 1..(F + W) /\ F + p > F /\ (F + p) - F = p
        BY <3>1
      <3> QED
        BY <1>1, <3>2, ConcatProperties DEF F, W
    <2> QED
      BY <1>1, <2>1, <2>2, <2>3
  <1>5. F \in Nat /\ W \in Nat /\ T \in Nat
    <2>1. f \in Seq(Unit) /\ w \in Seq(Unit)
      BY <1>1
    <2> QED
      BY <2>1
  <1>6. g \in Seq(Unit) /\ Len(g) = T + F
    <2>1. l \in Seq(Unit) /\ g = t \o l
      BY <1>2 DEF l
    <2>2. t \o l \in Seq(Unit) /\ Len(t \o l) = Len(t) + Len(l)
      BY <2>1, ConcatProperties
    <2> QED
      BY <1>2, <2>1, <2>2
  <1>7. Matched(g)
    BY <1>2, MatchedBoth DEF l
  <1> HIDE DEF F, W, T
  <1>8. Blurred(l, s, x + T)
    <2> SUFFICES ASSUME NEW p \in 1..F
                 PROVE  l[p] = s[(x + T) + p] \/ (l[p] = Mark("bad") /\ s[(x + T) + p] \in {WIDE[1], WIDE[2]})
      BY <1>2 DEF Blurred
    <2>1. p \in 1..Len(r) /\ 0 + p = p
      BY <1>4, <1>5
    <2>2. f[p] = s[(x + T) + p]
      BY <1>3, <1>4, <2>1
    <2>3. l[p] = f[0 + p] \/ (l[p] = Mark("bad") /\ f[0 + p] \in {WIDE[1], WIDE[2]})
      BY <1>2 DEF Blurred
    <2> QED
      BY <2>1, <2>2, <2>3
  <1>9. Blurred(g, s, x)
    BY <1>2, <1>3, <1>8, BlurredBoth DEF l, T
  <1>10. (x + Len(g)) + W = Len(s)
    BY <1>3, <1>4, <1>5, <1>6
  <1>11. \A p \in 1..W : w[p] = s[(x + Len(g)) + p]
    <2> SUFFICES ASSUME NEW p \in 1..W PROVE w[p] = s[(x + Len(g)) + p]
      OBVIOUS
    <2>1. F + p \in 1..Len(r) /\ (x + T) + (F + p) = (x + Len(g)) + p
      BY <1>4, <1>5, <1>6
    <2>2. r[F + p] = s[(x + T) + (F + p)]
      BY <1>3, <2>1
    <2> QED
      BY <1>4, <2>1, <2>2
  <1> QED
    BY <1>1, <1>6, <1>7, <1>9, <1>10, <1>11 DEF w, W, Followed

\* No event that the filter can read is cut where a chunk ends.
LEMMA CutOutside ==
    ASSUME NEW s \in Seq(Unit), NEW t \in Seq(Unit), NEW x \in Nat,
           Blurred(t, s, x), x + Len(t) <= Len(s), Outside(s, x),
           NEW e, e = ChunkEnd(t, SseCap)
    PROVE  Outside(s, x + e)
  <1>1. SseCap \in Nat
    BY SizesAssumption DEF SizesAssumption
  <1> DEFINE L == Len(t)
             M == Len(s)
  <1>2. L \in Nat /\ M \in Nat /\ x + L <= M
    OBVIOUS
  <1>3. /\ e \in 0..L
        /\ BlankLines(t) # {} => e \in BlankLines(t)
        /\ BlankLines(t) = {} => e = IF L > SseCap THEN L ELSE 0
    BY <1>1, NextChunkIs
  <1>4. NL.k = "nl"
    BY WideIs
  <1>5. \A p \in 1..L : /\ t[p] = NL => s[x + p] = NL
                        /\ s[x + p] = NL => t[p] = NL
    BY <1>4, BlurredIs, SMTT(30)
  <1> HIDE DEF L, M
  <1>6. CASE BlankLines(t) # {}
    <2>1. e \in 2..L /\ t[e] = NL /\ t[e - 1] = NL
      <3>1. e \in BlankLines(t)
        BY <1>3, <1>6
      <3> QED
        BY <3>1 DEF BlankLines, L
    <2>2. e - 1 \in 1..L /\ e \in 1..L /\ x + (e - 1) = (x + e) - 1 /\ x + e \in 2..M
      <3>1. e \in Nat /\ 2 <= e /\ e <= L /\ L \in Nat /\ M \in Nat /\ x + L <= M
        BY <1>2, <2>1
      <3>2. e - 1 \in 1..L /\ e \in 1..L
        BY <3>1
      <3>3. x + (e - 1) = (x + e) - 1 /\ x + e \in 2..M
        BY <3>1
      <3> QED
        BY <3>2, <3>3
    <2>3. s[x + e] = NL /\ s[(x + e) - 1] = NL
      BY <1>5, <2>1, <2>2
    <2> DEFINE y == x + e
    <2>4. y \in BlankLines(s)
      BY <2>2, <2>3 DEF BlankLines, M
    <2> HIDE DEF y
    <2>5. \A n \in 1..Len(Events(s)) : ~(Begins(s, n) < y /\ y < Finishes(s, n))
      <3> SUFFICES ASSUME NEW n \in 1..Len(Events(s)) PROVE ~(Begins(s, n) < y /\ y < Finishes(s, n))
        OBVIOUS
      <3>1. Between(s, BlankLines(s), Begins(s, n), Finishes(s, n), Events(s)[n])
        BY EventAt
      <3> QED
        BY <2>4, <3>1 DEF Between
    <2> QED
      BY <2>5 DEF Outside, y
  <1>7. CASE BlankLines(t) = {} /\ ~(L > SseCap)
    BY <1>3, <1>7
  <1>8. CASE BlankLines(t) = {} /\ L > SseCap
    <2>1. e = L
      BY <1>3, <1>8
    <2> SUFFICES ASSUME NEW n \in 1..Len(Events(s)), OneLine(Events(s)[n]),
                        Begins(s, n) < x + L, x + L < Finishes(s, n)
                 PROVE  FALSE
      BY <2>1 DEF Outside
    <2> DEFINE a == Begins(s, n)
               b == Finishes(s, n)
               m == Len(Events(s)[n])
    <2>2. a \in Nat /\ b \in Nat /\ m = b - a /\ (a # 0 => a \in BlankLines(s))
      BY EventAt DEF Between
    <2>3. m <= SseCap
      BY DEF OneLine
    <2>4. ~(a < x /\ x < b) /\ a < x + L /\ x + L < b
      BY DEF Outside
    <2> HIDE DEF a, b, m
    <2>5. x < a /\ a # x + 1 /\ L >= 2
      BY <1>1, <1>2, <1>8, <2>2, <2>3, <2>4
    <2>6. s[a] = NL /\ s[a - 1] = NL
      BY <2>2, <2>5 DEF BlankLines
    <2> DEFINE p == a - x
    <2>7. p \in 2..L /\ p \in 1..L /\ p - 1 \in 1..L /\ x + p = a /\ x + (p - 1) = a - 1
      BY <1>2, <2>2, <2>4, <2>5
    <2> HIDE DEF p
    <2>8. t[p] = NL /\ t[p - 1] = NL
      BY <1>5, <2>6, <2>7
    <2>9. p \in BlankLines(t)
      BY <2>7, <2>8 DEF BlankLines, L
    <2> QED
      BY <1>8, <2>9
  <1> QED
    BY <1>6, <1>7, <1>8

\* What is held at the end of the stream has no event that the filter can read.
LEMMA TailIsExcused ==
    ASSUME NEW s \in Seq(Unit), NEW t \in Seq(Unit), NEW x \in Nat, Placed(s, t, << >>, x),
           BlankLines(t) = {}, NEW i \in 1..Len(t), t[i].k = "tool"
    PROVE  Excused(s, t[i])
  <1> DEFINE L == Len(t)
             M == Len(s)
             y == x + i
             none == << >>
  <1>1. Len(none) = 0
    OBVIOUS
  <1>2. L \in Nat /\ M \in Nat /\ i \in 1..L
    OBVIOUS
  <1>3. (x + L) + Len(none) = M /\ Blurred(t, s, x) /\ Outside(s, x)
    BY DEF Placed
  <1> HIDE DEF none
  <1>4. x + L = M
    <2> HIDE DEF L, M
    <2> QED
      BY <1>1, <1>2, <1>3
  <1>5. s[y] = t[i]
    BY <1>3, BlurredIs
  <1>6. NL.k = "nl"
    BY WideIs
  <1>7. \A p \in 1..L : s[x + p] = NL => t[p] = NL
    <2>1. Blurred(t, s, x)
      BY <1>3
    <2> QED
      BY <1>6, <2>1, BlurredIs
  <1> HIDE DEF L, M
  <1>8. y \in 1..M /\ y \in Nat /\ x < y
    BY <1>2, <1>4
  <1>9. PICK n \in 1..Len(Events(s)) :
            Begins(s, n) < y /\ y <= Finishes(s, n) /\ s[y] \in Range(Events(s)[n])
    <2>1. y \in 1..Len(s)
      BY <1>8 DEF M
    <2> HIDE DEF y
    <2> QED
      BY <2>1, InEvent
  <1>10. SUFFICES ASSUME OneLine(Events(s)[n]) PROVE FALSE
    BY <1>5, <1>9 DEF Excused
  <1> DEFINE a == Begins(s, n)
             b == Finishes(s, n)
             d == Events(s)[n]
             m == b - a
  <1>11. /\ a \in Nat /\ b \in Nat /\ b <= M /\ d \in Seq(Unit) /\ Len(d) = m
         /\ \A j \in 1..m : d[j] = s[a + j]
    BY EventAt DEF Between, M
  <1>12. m \in Nat /\ m >= 4 /\ d[m - 1] = NL /\ d[m] = NL
    BY <1>10, <1>11, OneLineHas
  <1>13. ~(a < x /\ x < b) /\ a < y /\ y <= b
    BY <1>3, <1>9, <1>10 DEF Outside
  <1> HIDE DEF d
  <1>14. s[b] = NL /\ s[b - 1] = NL
    <2>1. a \in Nat /\ b \in Nat /\ m \in Nat /\ m >= 4
      BY <1>11, <1>12
    <2> HIDE DEF a, b
    <2>2. m - 1 \in 1..m /\ m \in 1..m /\ a + m = b /\ a + (m - 1) = b - 1
      BY <2>1
    <2> QED
      BY <1>11, <1>12, <2>2
  <1>15. a \in Nat /\ b \in Nat /\ b <= M /\ b - a >= 4
    BY <1>11, <1>12
  <1> HIDE DEF a, b, y
  <1> DEFINE p == b - x
  <1>16. p \in 2..L /\ p \in 1..L /\ p - 1 \in 1..L /\ x + p = b /\ x + (p - 1) = b - 1
    BY <1>2, <1>4, <1>8, <1>13, <1>15
  <1> HIDE DEF p
  <1>17. p \in BlankLines(t)
    BY <1>7, <1>14, <1>16 DEF BlankLines, L
  <1> QED
    BY <1>17

-----------------------------------------------------------------------------
(***************************************************************************)
(* What a governed server's listing shows.                                 *)
(***************************************************************************)

\* Where the stream is.
Streams ==
    /\ Matched(pending)
    /\ phase \notin {"streaming", "done"} \/ (phase = "done" /\ ended # "broken") => pending = << >>
    /\ phase = "streaming" => \E x \in Nat : Placed(resp.units, pending, rest, x)
    /\ phase = "passing" /\ req.path # "plain" /\ setup.transforms # << >> => resp.type # "sse"

Governed == req.path # "plain" /\ Transforms("filter") # {} /\ governs(req.host)
\* The filter has no document of the whole answer.
Unread ==
    \/ resp.enc \/ ~IsDoc(resp.units) \/ HasBatch(resp.units)
    \/ \A t \in Transforms("filter") : Len(resp.units) > t.cap
\* A tool u may be shown.
Excusable(u) == MayShow(req.host, u) \/ IF resp.type = "sse" THEN Excused(resp.units, u) ELSE Unread

\* The listing shows what may be shown.
LEMMA ListingIs ==
    ListingIsFiltered <=> (Governed => \A p \in 1..Len(got) : Excusable(got[p]))
  BY DEF ListingIsFiltered, Governed, Excusable, MayShow, Excused, Unread

\* While the request and the response stay, so does what may be shown.
LEMMA ListingStays ==
    ASSUME setup' = setup, resp' = resp, req' = req
    PROVE  /\ Governed' <=> Governed
           /\ \A u : Excusable(u)' <=> Excusable(u)
           /\ ListingIsFiltered' <=> (Governed => \A p \in 1..Len(got') : Excusable(got'[p]))
  <1>1. \A k : Transforms(k)' = Transforms(k)
    BY DEF Transforms
  <1>2. Transforms("filter")' = Transforms("filter")
    BY DEF Transforms
  <1>3. Governed' <=> Governed
    BY <1>2 DEF Governed
  <1>4. Unread' <=> Unread
    BY <1>2 DEF Unread
  <1>5. \A u : Excusable(u)' <=> Excusable(u)
    BY <1>4 DEF Excusable
  <1>6. ListingIsFiltered' <=> (Governed' => \A p \in 1..Len(got') : Excusable(got'[p]))
    BY <1>2, <1>4 DEF ListingIsFiltered, Governed, Excusable, MayShow, Excused, Unread
  <1> QED
    BY <1>3, <1>5, <1>6

\* A governed answer is not a routed one, and something filters it.
LEMMA GovernedIs ==
    ASSUME BInv, Governed
    PROVE  /\ \A n \in 1..Len(setup.transforms) : setup.transforms[n].is # "router"
           /\ \E n \in 1..Len(setup.transforms) : setup.transforms[n].is = "filter"
           /\ governs(req.host) /\ setup.transforms # << >> /\ Len(setup.transforms) # 0
           /\ req.path # "plain"
  <1>1. Typed /\ Requested
    BY DEF BInv
  <1>2. governs(req.host) /\ req.path # "plain"
    BY DEF Governed
  <1>3. req.host # "none"
    BY <1>2, HostsAssumption DEF HostsAssumption, governs
  <1>4. ~Routes
    BY <1>1, <1>3 DEF Requested
  <1>5. setup.transforms \in Seq(Transform) /\ \A n \in 1..Len(setup.transforms) : setup.transforms[n].is # "router"
    BY <1>1, <1>4, SetupHas
  <1>6. \E n \in 1..Len(setup.transforms) : setup.transforms[n].is = "filter"
    BY DEF Governed, Transforms
  <1>7. setup.transforms # << >> /\ Len(setup.transforms) # 0
    BY <1>5, <1>6
  <1> QED
    BY <1>2, <1>5, <1>6, <1>7

\* What goes out over a chunk of a stream may be shown.
LEMMA StreamFrameListed ==
    ASSUME BInv, Streams, ListingIsFiltered, StreamFrame
    PROVE  Streams' /\ ListingIsFiltered'
  <1> DEFINE s == resp.units
  <1>1. PICK f \in Frame(rest) :
            /\ rest' = After(f, rest)
            /\ \E cut \in {next_sse_chunk(pending \o Lossy(f), SseCap)} :
                /\ pending' = cut.rest
                /\ \E r \in {Steps(cut.ready)} : got' = got \o r.out
    BY DEF StreamFrame
  <1>2. /\ phase = "streaming" /\ rest # << >>
        /\ UNCHANGED <<setup, phase, ended, req, resp>>
    BY DEF StreamFrame, request
  <1>3. Typed /\ Responded
    BY DEF BInv
  <1>4. rest \in Seq(Unit) /\ pending \in Seq(Unit) /\ got \in Seq(Unit) /\ s \in Seq(Unit) /\ sse \in Session
        /\ resp.type = "sse"
    BY <1>2, <1>3 DEF Typed, Responded
  <1>5. PICK x \in Nat : Placed(s, pending, rest, x)
    BY <1>2 DEF Streams
  <1>6. Matched(pending)
    BY DEF Streams
  <1> HIDE DEF s
  <1> DEFINE t == pending \o Lossy(f)
             e == ChunkEnd(t, SseCap)
             ready == SubSeq(t, 1, e)
             held == SubSeq(t, e + 1, Len(t))
             left == After(f, rest)
             out == Steps(ready).out
  <1>7. /\ t \in Seq(Unit) /\ Matched(t) /\ Blurred(t, s, x)
        /\ left \in Seq(Unit) /\ (x + Len(t)) + Len(left) = Len(s)
        /\ \A p \in 1..Len(left) : left[p] = s[(x + Len(t)) + p]
    <2> DEFINE g == t
    <2>1. g = pending \o Lossy(f)
      OBVIOUS
    <2> HIDE DEF g, t, e, left, ready, held, out
    <2> DEFINE r == rest
               h == pending
    <2>3. r # << >> /\ r \in Seq(Unit) /\ h \in Seq(Unit) /\ s \in Seq(Unit) /\ Matched(h)
          /\ Placed(s, h, r, x) /\ f \in Frame(r) /\ g = h \o Lossy(f)
      BY <1>2, <1>4, <1>5, <1>6, <2>1
    <2> HIDE DEF r, h
    <2>4. Followed(s, h \o Lossy(f), After(f, r), x)
      BY <2>3, Arrived
    <2>2. /\ g \in Seq(Unit) /\ Matched(g) /\ Blurred(g, s, x)
          /\ After(f, rest) \in Seq(Unit) /\ (x + Len(g)) + Len(After(f, rest)) = Len(s)
          /\ \A p \in 1..Len(After(f, rest)) : After(f, rest)[p] = s[(x + Len(g)) + p]
      BY <2>3, <2>4 DEF r, Followed
    <2> QED
      BY <2>2 DEF g, left
  <1>8. pending' = next_sse_chunk(t, SseCap).rest /\ got' = got \o Steps(next_sse_chunk(t, SseCap).ready).out
    BY <1>1
  <1> HIDE DEF t, left
  <1>9. SseCap \in Nat
    BY SizesAssumption DEF SizesAssumption
  <1>10. /\ next_sse_chunk(t, SseCap) = CutAt(t, e) /\ e \in 0..Len(t)
         /\ BlankLines(t) # {} => e \in BlankLines(t)
         /\ BlankLines(t) = {} => e = 0 \/ e = Len(t)
    BY <1>7, <1>9, NextChunkIs
  <1>11. pending' = held /\ got' = got \o out
    <2> HIDE DEF e
    <2>1. CutAt(t, e).rest = held /\ CutAt(t, e).ready = ready
      BY DEF CutAt
    <2> HIDE DEF held, ready
    <2> QED
      BY <1>8, <1>10, <2>1
  <1>12. Len(t) \in Nat /\ Len(left) \in Nat /\ Len(s) \in Nat
    BY <1>4, <1>7
  <1>13. x + Len(t) <= Len(s)
    BY <1>7, <1>12
  <1>14. Outside(s, x) /\ Outside(s, x + e)
    <2>1. Outside(s, x)
      BY <1>5 DEF Placed
    <2> DEFINE c == e
    <2>2. c = ChunkEnd(t, SseCap)
      OBVIOUS
    <2> HIDE DEF c
    <2>3. Outside(s, x + c)
      BY <1>4, <1>7, <1>13, <2>1, <2>2, CutOutside
    <2> QED
      BY <2>1, <2>3 DEF c
  <1> HIDE DEF e
  <1>15. e = 0 \/ e = Len(t) \/ t[e] = NL
    <2>1. e \in BlankLines(t) => t[e] = NL
      BY DEF BlankLines
    <2> QED
      BY <1>10, <2>1
  <1>16. Matched(ready) /\ Matched(held) /\ Blurred(ready, s, x) /\ Blurred(held, s, x + e)
    <2>1. Matched(ready) /\ Matched(held)
      BY <1>7, <1>10, <1>15, MatchedHalves
    <2>2. Blurred(ready, s, x) /\ Blurred(held, s, x + e)
      BY <1>7, <1>10, BlurredHalves
    <2> QED
      BY <2>1, <2>2
  <1>17. ready \in Seq(Unit) /\ Len(ready) = e /\ held \in Seq(Unit) /\ Len(held) = Len(t) - e
    <2>1. e \in 0..Len(t) /\ Len(t) \in e..Len(t)
      BY <1>10, <1>12
    <2>2. ready \in Seq(Unit) /\ Len(ready) = e
      BY <1>7, <2>1, Halves
    <2>3. held \in Seq(Unit) /\ Len(held) = Len(t) - e
      BY <1>7, <2>1, PartIs
    <2> QED
      BY <2>2, <2>3
  <1> HIDE DEF ready, held, out
  <1>18. Placed(s, held, left, x + e)
    <2> DEFINE L == Len(t)
               H == Len(held)
    <2>1. H = L - e /\ L \in Nat /\ e \in 0..L
      BY <1>10, <1>12, <1>17
    <2> HIDE DEF L, H
    <2>2. (x + e) + H = x + L
      BY <2>1
    <2>3. ((x + e) + Len(held)) = x + Len(t)
      BY <2>2 DEF L, H
    <2> QED
      BY <1>7, <1>14, <1>16, <2>3 DEF Placed
  <1>19. Streams'
    <2>1. x + e \in Nat
      BY <1>10
    <2>2. rest' = left
      BY <1>1 DEF left
    <2>3. Placed(resp'.units, pending', rest', x + e)
      BY <1>2, <1>11, <1>18, <2>2 DEF s
    <2>4. phase' = "streaming"
      BY <1>2
    <2> QED
      BY <1>11, <1>16, <2>1, <2>3, <2>4 DEF Streams
  <1>20. ASSUME Governed, NEW p \in 1..Len(got') PROVE Excusable(got'[p])
    <2>1. setup.transforms \in Seq(Transform)
      BY <1>3, SetupHas
    <2>2. Steps(ready) \in Progress /\ Shown(ready, out)
      BY <1>4, <1>17, <1>20, <2>1, GovernedIs, StepsIs DEF out
    <2>3. out \in Seq(Unit)
      BY <2>2 DEF Progress, out
    <2> DEFINE G == Len(got)
               O == Len(out)
    <2>4. /\ Len(got') = G + O /\ G \in Nat /\ O \in Nat
          /\ \A q \in 1..(G + O) : got'[q] = IF q <= G THEN got[q] ELSE out[q - G]
      <3>1. Len(got \o out) = G + O /\ \A q \in 1..(G + O) : (got \o out)[q] = IF q <= G THEN got[q] ELSE out[q - G]
        BY <1>4, <2>3, ConcatProperties
      <3> QED
        BY <1>4, <1>11, <2>3, <3>1
    <2> HIDE DEF G, O
    <2>5. CASE p <= G
      <3>1. p \in 1..Len(got) /\ got'[p] = got[p]
        BY <2>4, <2>5 DEF G
      <3> QED
        BY <1>20, <3>1, ListingIs
    <2>6. CASE ~(p <= G)
      <3> DEFINE u == out[p - G]
      <3>1. p - G \in 1..O /\ got'[p] = u
        BY <2>4, <2>6
      <3>2. u \in Range(out)
        BY <3>1 DEF Range, O
      <3> HIDE DEF u
      <3>3. MayShow(req.host, u) \/ LeftAlone(ready, u)
        BY <2>2, <3>2 DEF Shown
      <3>4. ASSUME ~MayShow(req.host, u) PROVE Excused(s, u)
        <4>1. u.k = "tool" /\ LeftAlone(ready, u)
          BY <3>3, <3>4 DEF MayShow
        <4>2. x + Len(ready) <= Len(s) /\ Outside(s, x + Len(ready))
          <5>1. x + e <= Len(s)
            BY <1>10, <1>12, <1>13
          <5> QED
            BY <1>14, <1>17, <5>1
        <4> QED
          BY <1>4, <1>14, <1>16, <1>17, <4>1, <4>2, LeftIsExcused
      <3> QED
        BY <1>4, <3>1, <3>4 DEF Excusable, s
    <2> QED
      BY <2>5, <2>6
  <1> QED
    BY <1>2, <1>19, <1>20, ListingStays

\* What is held back at the end may be shown.
LEMMA StreamEndListed ==
    ASSUME BInv, Streams, ListingIsFiltered, StreamEnd
    PROVE  Streams' /\ ListingIsFiltered'
  <1>1. /\ phase = "streaming" /\ rest = << >>
        /\ got' = got \o pending /\ pending' = << >> /\ phase' = "done" /\ ended' = "whole"
        /\ UNCHANGED <<setup, req, resp>>
    BY DEF StreamEnd, request
  <1>2. Typed /\ Responded /\ BlankLines(pending) = {}
    BY DEF BInv, HeldBack
  <1>3. pending \in Seq(Unit) /\ got \in Seq(Unit) /\ resp.units \in Seq(Unit) /\ resp.type = "sse"
    BY <1>1, <1>2 DEF Typed, Responded
  <1>4. PICK x \in Nat : Placed(resp.units, pending, << >>, x)
    BY <1>1 DEF Streams
  <1>5. Streams'
    <2>1. Matched(<< >>)
      BY DEF Matched
    <2>2. Matched(pending')
      BY <1>1, <2>1
    <2> QED
      BY <1>1, <2>2 DEF Streams
  <1>6. ASSUME Governed, NEW p \in 1..Len(got') PROVE Excusable(got'[p])
    <2> DEFINE G == Len(got)
               O == Len(pending)
    <2>1. /\ Len(got') = G + O /\ G \in Nat /\ O \in Nat
          /\ \A q \in 1..(G + O) : got'[q] = IF q <= G THEN got[q] ELSE pending[q - G]
      <3>1. Len(got \o pending) = G + O
            /\ \A q \in 1..(G + O) : (got \o pending)[q] = IF q <= G THEN got[q] ELSE pending[q - G]
        BY <1>3, ConcatProperties
      <3> QED
        BY <1>1, <1>3, <3>1
    <2> HIDE DEF G, O
    <2>2. CASE p <= G
      <3>1. p \in 1..Len(got) /\ got'[p] = got[p]
        BY <2>1, <2>2 DEF G
      <3> QED
        BY <1>6, <3>1, ListingIs
    <2>3. CASE ~(p <= G)
      <3> DEFINE i == p - G
      <3>1. i \in 1..O /\ got'[p] = pending[i]
        BY <2>1, <2>3
      <3> HIDE DEF i
      <3>2. pending[i].k = "tool" => Excused(resp.units, pending[i])
        BY <1>2, <1>3, <1>4, <3>1, TailIsExcused DEF O
      <3> QED
        BY <1>3, <3>1, <3>2 DEF Excusable, MayShow
    <2> QED
      BY <2>2, <2>3
  <1> QED
    BY <1>1, <1>5, <1>6, ListingStays

\* Where nothing has been said, or the notice has, there is no tool.
LEMMA NothingListed ==
    /\ got = << >> \/ got = Notice => ListingIsFiltered
    /\ got' = << >> \/ got' = Notice => ListingIsFiltered'
  <1>1. Notice[1].k = "notice" /\ Len(Notice) = 1 /\ Len(<< >>) = 0
    BY DEF Notice, Mark, U
  <1>2. ASSUME NEW g, g = << >> \/ g = Notice, NEW p \in 1..Len(g) PROVE g[p].k # "tool"
    BY <1>1, <1>2
  <1>3. got = << >> \/ got = Notice => ListingIsFiltered
    BY <1>2 DEF ListingIsFiltered
  <1>4. got' = << >> \/ got' = Notice => ListingIsFiltered'
    BY <1>2 DEF ListingIsFiltered
  <1> QED
    BY <1>3, <1>4

\* An answer that begins shows nothing yet.
LEMMA BeginListed ==
    ASSUME BInv, BInv', Streams, phase \in {"forwarding", "asking"}, NEW r, Begin(r)
    PROVE  Streams' /\ ListingIsFiltered'
  <1>1. /\ got = << >> /\ pending = << >> /\ Matched(pending) /\ req.path \in Paths
        /\ req \in [path : Paths, host : Hosts \cup {"none"}, hdr : BOOLEAN, units : Seq(Unit)]
    BY DEF BInv, Typed, Responded, Streams
  <1>2. /\ resp' = r /\ rest' = r.units /\ phase' = Routing(r.type)
        /\ got' = << >> \/ got' = Notice
        /\ req' = [req EXCEPT !.units = << >>, !.hdr = FALSE]
        /\ UNCHANGED <<setup, pending>>
        /\ phase' = "done" => ended' = "failed"
    BY <1>1 DEF Begin
  <1>3. Streams'
    <2>1. pending' = << >> /\ Matched(pending')
      BY <1>1, <1>2
    <2>2. resp'.units \in Seq(Unit) /\ rest' = resp'.units
      BY <1>2 DEF BInv, Typed
    <2>3. Placed(resp'.units, << >>, resp'.units, 0)
      BY <2>2, PlacedFirst
    <2>4. Placed(resp'.units, pending', rest', 0)
      BY <2>1, <2>2, <2>3
    <2>5. req'.path = req.path
      BY <1>1, <1>2
    <2>6. phase' = "passing" => req.path = "plain" \/ setup.transforms = << >>
      BY <1>2 DEF Routing
    <2> QED
      BY <1>2, <2>1, <2>4, <2>5, <2>6 DEF Streams
  <1>4. ListingIsFiltered'
    BY <1>2, NothingListed
  <1> QED
    BY <1>3, <1>4

\* What was gathered is shown filtered, or could not be read.
LEMMA GatherListed ==
    ASSUME BInv, Streams, ListingIsFiltered, GatherFrame \/ GatherAll
    PROVE  Streams' /\ ListingIsFiltered'
  <1>1. Typed /\ Responded
    BY DEF BInv
  <1>2. phase = "gathering" /\ pending' = pending
    BY DEF GatherFrame, GatherAll
  <1>3. /\ resp.type # "sse" /\ pending = << >> /\ Matched(pending) /\ got = << >>
        /\ resp.enc \in BOOLEAN
    BY <1>1, <1>2 DEF Responded, Streams, Typed
  <1>4. setup' = setup /\ req' = req /\ resp' = resp
    BY GatheredIs
  <1>5. CASE UNCHANGED <<phase, ended, got>>
    <2>1. Streams'
      BY <1>2, <1>3, <1>4, <1>5 DEF Streams
    <2>2. got' = << >> \/ got' = Notice
      BY <1>3, <1>5
    <2> QED
      BY <2>1, <2>2, NothingListed
  <1>6. ASSUME NEW h \in Body, NEW s, Failed \/ Sent(h) \/ Passed(h, s),
               \/ h.is = "buffered" /\ h.units = resp.units
               \/ h.is = "over" /\ \A n \in 1..Len(setup.transforms) : Len(resp.units) > setup.transforms[n].cap
        PROVE  Streams' /\ ListingIsFiltered'
    <2>1. phase' \in {"done", "passing"}
      BY <1>6 DEF Failed, Sent, Passed
    <2>2. Streams'
      BY <1>2, <1>3, <1>4, <2>1 DEF Streams
    <2>3. ListingIsFiltered'
      <3>1. CASE Failed
        BY <3>1, NothingListed DEF Failed
      <3>2. CASE h.is = "over"
        <4>1. \A t \in Transforms("filter") : Len(resp.units) > t.cap
          BY <1>6, <3>2, TransformsAre
        <4>2. \A u : Excusable(u)
          BY <1>3, <4>1 DEF Excusable, Unread
        <4> QED
          BY <1>4, <4>2, ListingStays
      <3>3. CASE Sent(h) /\ h.is = "buffered"
        <4> SUFFICES ASSUME Governed, NEW p \in 1..Len(got') PROVE Excusable(got'[p])
          BY <1>4, ListingStays
        <4>1. SUFFICES ASSUME ~Unread PROVE MayShow(req.host, got'[p])
          BY <1>3 DEF Excusable
        <4>2. ~resp.enc /\ IsDoc(h.units) /\ ~HasBatch(h.units)
          BY <1>6, <3>3, <4>1 DEF Unread
        <4>3. Clear(Transformed(h))
          BY <1>1, <1>3, <3>3, <4>2, GovernedIs, SetupHas, TransformedIs
        <4>4. got'[p] \in Range(got')
          BY DEF Range
        <4>5. got' = Transformed(h).h.units
          BY <3>3 DEF Sent
        <4> QED
          BY <4>3, <4>4, <4>5 DEF Clear
      <3>4. CASE Passed(h, s)
        BY <3>2, <3>4 DEF Passed
      <3> QED
        BY <1>6, <3>1, <3>2, <3>3, <3>4
    <2> QED
      BY <2>2, <2>3
  <1> QED
    BY <1>5, <1>6, GatheredIs

\* Every step keeps where the stream is, and what has been shown.
LEMMA NextListed ==
    BInv /\ BInv' /\ Streams /\ ListingIsFiltered /\ [Next]_vars => Streams' /\ ListingIsFiltered'
  <1> SUFFICES ASSUME BInv, BInv', Streams, ListingIsFiltered, [Next]_vars
               PROVE  Streams' /\ ListingIsFiltered'
    OBVIOUS
  <1>1. Typed /\ Responded
    BY DEF BInv
  <1>2. ASSUME UNCHANGED <<setup, req, resp, pending, got>>, phase' = phase, ended' = ended, rest' = rest
        PROVE  Streams' /\ ListingIsFiltered'
    <2>1. Streams'
      BY <1>2 DEF Streams
    <2> QED
      BY <1>2, <2>1, ListingIs, ListingStays
  <1>3. ASSUME UNCHANGED <<setup, req, resp, pending, got>>,
               phase' \notin {"streaming", "passing"},
               phase \notin {"streaming", "done"} \/ (phase' = "done" /\ ended' = "broken")
        PROVE  Streams' /\ ListingIsFiltered'
    <2>1. Streams'
      BY <1>3 DEF Streams
    <2> QED
      BY <1>3, <2>1, ListingIs, ListingStays
  <1>4. ASSUME got' = << >>, pending' = << >>, phase' \notin {"streaming", "passing"}
        PROVE  Streams' /\ ListingIsFiltered'
    <2>1. Matched(<< >>)
      BY DEF Matched
    <2>2. Matched(pending')
      BY <1>4, <2>1
    <2>3. Streams'
      BY <1>4, <2>2 DEF Streams
    <2>4. ListingIsFiltered'
      BY <1>4, NothingListed
    <2> QED
      BY <2>3, <2>4
  <1>5. CASE Arrive
    <2>1. phase = "idle" /\ phase' \in {"reading", "deciding"} /\ UNCHANGED <<got, pending>>
      BY <1>5 DEF Arrive, response
    <2>2. got = << >> /\ pending = << >>
      BY <1>1, <2>1 DEF Responded, Streams
    <2> QED
      BY <1>4, <2>1, <2>2
  <1>6. CASE AskFirst \/ AskNext
    <2>1. got' = << >> /\ pending' = pending /\ phase' = "asking"
      BY <1>6 DEF AskFirst, AskNext, Ask
    <2>2. pending = << >>
      BY <1>6 DEF AskFirst, AskNext, Streams
    <2> QED
      BY <1>4, <2>1, <2>2
  <1>7. CASE Again
    BY <1>4, <1>7 DEF Again
  <1>8. CASE ReadFrame
    <2>1. /\ phase = "reading" /\ phase' \in {"reading", "deciding"}
          /\ UNCHANGED <<setup, req, resp, pending, got>>
      BY <1>8 DEF ReadFrame
    <2> QED
      BY <1>3, <2>1
  <1>9. CASE ReadAll
    <2>1. /\ phase = "reading" /\ phase' = "deciding"
          /\ UNCHANGED <<setup, req, resp, pending, got>>
      BY <1>9 DEF ReadAll, response
    <2> QED
      BY <1>3, <2>1
  <1>10. CASE Decide
    <2>1. /\ phase = "deciding" /\ phase' \in {"done", "forwarding"}
          /\ UNCHANGED <<setup, req, resp, pending, got>>
      BY <1>10 DEF Decide
    <2> QED
      BY <1>3, <2>1
  <1>11. CASE Forward
    <2>1. /\ phase = "forwarding" /\ phase' = "forwarding"
          /\ UNCHANGED <<setup, req, resp, pending, got>>
      BY <1>11 DEF Forward
    <2> QED
      BY <1>3, <2>1
  <1>12. CASE PassOn
    <2>1. /\ phase = "passing" /\ phase' = "passing"
          /\ UNCHANGED <<setup, req, resp, pending, ended>>
      BY <1>12 DEF PassOn, request
    <2>2. Streams'
      BY <2>1 DEF Streams
    <2>3. ASSUME Governed, NEW u PROVE Excusable(u)
      <3>1. setup.transforms # << >> /\ req.path # "plain"
        BY <2>3, GovernedIs
      <3>2. resp.type # "sse" /\ \A n \in 1..Len(setup.transforms) : Len(resp.units) > setup.transforms[n].cap
        BY <1>1, <2>1, <3>1 DEF Streams, Responded
      <3>3. \A t \in Transforms("filter") : Len(resp.units) > t.cap
        BY <3>2, TransformsAre
      <3> QED
        BY <3>2, <3>3 DEF Excusable, Unread
    <2> QED
      BY <2>1, <2>2, <2>3, ListingStays
  <1>13. CASE PassedOn
    <2>1. /\ phase = "passing" /\ phase' = "done"
          /\ UNCHANGED <<setup, req, resp, pending, got>>
      BY <1>13 DEF PassedOn, request, response
    <2> QED
      BY <1>3, <2>1
  <1>14. CASE Answer
    BY <1>14, BeginListed DEF Answer
  <1>15. CASE Turn
    <2> DEFINE a(t, style) ==
                 [type |-> IF style \in Styles THEN "sse" ELSE "json", enc |-> FALSE,
                  units |-> CASE style = "json" -> <<OPEN>> \o t \o <<CLOSE>>
                              [] style = "error" -> <<OPEN, Mark("error"), CLOSE>>
                              [] OTHER -> Streamed(Origin, t, style)]
    <2>1. phase = "asking" /\ \E t \in Turns, style \in (IF said = << >> THEN Styles ELSE {}) \cup {"json", "error"} : Begin(a(t, style))
      BY <1>15 DEF Turn
    <2> HIDE DEF a
    <2> QED
      BY <2>1, BeginListed
  <1>16. CASE BreakOff
    <2>1. phase' = "done" /\ ended' = "broken" /\ UNCHANGED <<setup, req, resp, pending, got>>
      BY <1>16 DEF BreakOff, request, response
    <2> QED
      BY <1>3, <2>1
  <1>17. CASE UNCHANGED vars
    <2>1. UNCHANGED <<setup, req, resp, pending, got>> /\ phase' = phase /\ ended' = ended /\ rest' = rest
      BY <1>17 DEF vars, request, response
    <2> QED
      BY <1>2, <2>1
  <1>18. GatherFrame \/ GatherAll => Streams' /\ ListingIsFiltered'
    BY GatherListed
  <1>19. StreamFrame \/ StreamEnd => Streams' /\ ListingIsFiltered'
    BY StreamFrameListed, StreamEndListed
  <1> QED
    BY <1>5, <1>6, <1>7, <1>8, <1>9, <1>10, <1>11, <1>12, <1>13, <1>14, <1>15, <1>16, <1>17, <1>18, <1>19
    DEF Next, Agent, Frames, Proxys, Server

\* A tool that a governed server may not show is not shown by a listing that fits the filter's
\* cap, and in a stream only by an event the filter cannot read.
THEOREM ListingsAreFiltered == Spec => []ListingIsFiltered
  <1>1. Init => Streams /\ ListingIsFiltered
    <2> SUFFICES ASSUME Init PROVE Streams /\ ListingIsFiltered
      OBVIOUS
    <2>1. got = << >> /\ pending = << >> /\ phase = "idle"
      BY DEF Init
    <2>2. Matched(<< >>)
      BY DEF Matched
    <2>3. Matched(pending)
      BY <2>1, <2>2
    <2>4. Streams
      BY <2>1, <2>3 DEF Streams
    <2> QED
      BY <2>1, <2>4, NothingListed
  <1>2. BInv /\ BInv' /\ (Streams /\ ListingIsFiltered) /\ [Next]_vars => (Streams /\ ListingIsFiltered)'
    BY NextListed
  <1> QED
    BY <1>1, <1>2, Exchanged, PTL DEF Spec
=============================================================================

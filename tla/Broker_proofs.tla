--------------------------- MODULE Broker_proofs ----------------------------
(***************************************************************************)
(* Proofs about the capture broker, for tables of any size and any number  *)
(* of flows, redirects and brokers.  No theorem is inductive by       *)
(* itself: that take hands out an entry once rests on where the entries    *)
(* are, namely each in the table of its own broker and in no other, and    *)
(* gone from it once taken.                                                *)
(***************************************************************************)
EXTENDS Broker, FiniteSetTheorems, TLAPS

\* The types; of the bounds only the one that a flow's `at` depends on.
Shape ==
    /\ flow \in Seq(Flow)
    /\ pending \in Seq(SUBSET Nat)
    /\ Len(pending) =< MaxBrokers
    /\ redirect \in Seq([flow : Nat, via : Nat, took : Nat,
                         agent : {"redeeming", "code", "refusal", "sentinel", "gone"}])

\* What is in a table is a flow entered there that no redirect has taken.
Tables ==
    \A b \in Brokers : \A n \in pending[b] :
        n \in Flows /\ flow[n].at = b /\ \A r \in Redirects : redirect[r].took # n

\* What a redirect took is a flow with its state, of the broker it came by.
Took ==
    \A r \in Redirects :
        /\ redirect[r].flow \in Flows
        /\ redirect[r].took # 0 =>
              /\ redirect[r].took \in Flows
              /\ flow[redirect[r].took].at = redirect[r].via
              /\ flow[redirect[r].took].state = flow[redirect[r].flow].state

IInv == Shape /\ Tables /\ Took /\ TakenOnce

-----------------------------------------------------------------------------
\* remember and retain only drop entries, apart from the one remember adds.
LEMMA TableOps ==
    ASSUME NEW table
    PROVE  Fresh(table) \subseteq table /\ Newest(table) \subseteq table
BY DEF Fresh, Newest

LEMMA InitIInv == Init => IInv
BY BoundsAssumption DEF Init, IInv, Shape, Tables, Took, TakenOnce, Brokers, Redirects, Flows

\* An authorization request that is entered keeps the invariant: its number
\* is new, so no redirect can have taken it.
LEMMA EnterIInv ==
    ASSUME IInv, NEW b \in Brokers, NEW f \in Flow, f.at = b,
           flow' = Append(flow, f),
           pending' = Remember(b, Len(flow) + 1),
           UNCHANGED <<redirect, held>>
    PROVE  IInv'
<1>1. /\ Len(flow) \in Nat
      /\ flow' \in Seq(Flow)
      /\ Len(flow') = Len(flow) + 1
      /\ flow'[Len(flow) + 1] = f
      /\ \A n \in Flows : flow'[n] = flow[n] /\ n \in Flows'
      /\ Len(flow) + 1 \in Flows'
  BY DEF IInv, Shape, Flows
<1>2. /\ pending' \in Seq(SUBSET Nat)
      /\ Brokers' = Brokers
      /\ \A c \in Brokers : c # b => pending'[c] = pending[c]
      /\ pending'[b] \subseteq pending[b] \cup {Len(flow) + 1}
      /\ Len(pending') = Len(pending)
  <2>1. pending \in Seq(SUBSET Nat) /\ Newest(Fresh(pending[b])) \subseteq pending[b]
    BY TableOps DEF IInv, Shape
  <2>2. Newest(Fresh(pending[b])) \cup {Len(flow) + 1} \in SUBSET Nat
    BY <1>1, <2>1 DEF Brokers
  <2> QED BY <2>1, <2>2 DEF Remember, Brokers
<1>3. Shape'
  BY <1>1, <1>2 DEF IInv, Shape
<1>4. \A r \in Redirects : redirect[r].took # Len(flow) + 1
  BY <1>1 DEF IInv, Took, Flows
<1>5. Tables'
  <2> SUFFICES ASSUME NEW c \in Brokers', NEW n \in pending'[c]
               PROVE  n \in Flows' /\ flow'[n].at = c
                      /\ \A r \in Redirects' : redirect'[r].took # n
    BY DEF Tables
  <2>1. CASE n \in pending[c]
    <3>1. n \in Flows /\ flow[n].at = c /\ \A r \in Redirects : redirect[r].took # n
      BY <1>2, <2>1 DEF IInv, Tables
    <3> QED BY <1>1, <3>1 DEF Redirects
  <2>2. CASE n \notin pending[c]
    <3>1. c = b /\ n = Len(flow) + 1
      BY <1>2, <2>2
    <3> QED BY <1>1, <1>4, <3>1 DEF Redirects
  <2> QED BY <2>1, <2>2
<1>6. Took'
  BY <1>1 DEF IInv, Took, Redirects
<1>7. TakenOnce'
  BY DEF IInv, TakenOnce, Redirects
<1> QED BY <1>3, <1>5, <1>6, <1>7 DEF IInv

\* A redirect keeps it, whether take found a flow for it or not.
LEMMA ArriveIInv ==
    ASSUME IInv, NEW n \in Flows, NEW b \in Brokers, NEW k \in Nat,
           NEW agent \in {"redeeming", "code", "refusal"},
           k = 0 \/ k \in Matching(b, flow[n].state),
           Arrives(n, b, k, agent)
    PROVE  IInv'
<1> DEFINE new == [flow |-> n, via |-> b, took |-> k, agent |-> agent]
<1>1. /\ Len(redirect) \in Nat
      /\ redirect' = Append(redirect, new)
      /\ Len(redirect') = Len(redirect) + 1
      /\ redirect'[Len(redirect) + 1] = new
      /\ \A r \in Redirects : redirect'[r] = redirect[r]
      /\ Redirects' = Redirects \cup {Len(redirect) + 1}
      /\ Len(redirect) + 1 \notin Redirects
  BY DEF IInv, Shape, Arrives, Redirects
<1>2. n \in Nat /\ b \in Nat
  BY DEF IInv, Shape, Flows, Brokers
<1>3. redirect' \in Seq([flow : Nat, via : Nat, took : Nat,
                    agent : {"redeeming", "code", "refusal", "sentinel", "gone"}])
  <2>1. new \in [flow : Nat, via : Nat, took : Nat,
                 agent : {"redeeming", "code", "refusal", "sentinel", "gone"}]
    BY <1>2
  <2> QED BY <1>1, <2>1 DEF IInv, Shape
<1>4. /\ pending' \in Seq(SUBSET Nat)
      /\ Brokers' = Brokers
      /\ \A c \in Brokers : c # b => pending'[c] = pending[c]
      /\ pending'[b] \subseteq pending[b] \ {k}
      /\ Len(pending') = Len(pending)
  <2>1. pending \in Seq(SUBSET Nat) /\ Fresh(pending[b]) \subseteq pending[b]
    BY TableOps DEF IInv, Shape
  <2>2. Fresh(pending[b]) \ {k} \in SUBSET Nat
    BY <2>1 DEF Brokers
  <2> QED BY <2>1, <2>2 DEF Arrives, Brokers
<1>5. flow' = flow /\ Flows' = Flows
  BY DEF Arrives, Flows
<1>6. k # 0 => k \in pending[b] /\ flow[k].state = flow[n].state
  BY DEF IInv, Shape, Matching, Fresh
<1>7. k # 0 => k \in Flows /\ flow[k].at = b /\ \A r \in Redirects : redirect[r].took # k
  BY <1>6 DEF IInv, Tables
<1>8. Shape'
  BY <1>3, <1>4, <1>5 DEF IInv, Shape
<1>9. Tables'
  <2> SUFFICES ASSUME NEW c \in Brokers', NEW m \in pending'[c]
               PROVE  m \in Flows' /\ flow'[m].at = c
                      /\ \A r \in Redirects' : redirect'[r].took # m
    BY DEF Tables
  <2>1. m \in pending[c] /\ c \in Brokers
    BY <1>4
  <2>2. m \in Flows /\ flow[m].at = c /\ \A r \in Redirects : redirect[r].took # m
    BY <2>1 DEF IInv, Tables
  <2>3. m # k
    <3>1. CASE c = b
      BY <1>4, <3>1
    <3>2. CASE c # b
      BY <1>7, <2>2, <3>2 DEF Flows
    <3> QED BY <3>1, <3>2
  <2>4. new.took = k
    OBVIOUS
  <2> QED BY <1>1, <1>5, <2>2, <2>3, <2>4
<1>10. Took'
  <2>1. /\ new.flow \in Flows
        /\ new.took # 0 => /\ new.took \in Flows
                           /\ flow[new.took].at = new.via
                           /\ flow[new.took].state = flow[new.flow].state
    BY <1>6, <1>7
  <2> HIDE DEF new
  <2> QED BY <1>1, <1>5, <2>1 DEF IInv, Took
<1>11. TakenOnce'
  <2>1. \A r \in Redirects : new.took # 0 => redirect[r].took # new.took
    BY <1>7
  <2> HIDE DEF new
  <2> SUFFICES ASSUME NEW r \in Redirects', NEW q \in Redirects',
                      redirect'[r].took # 0, redirect'[r].took = redirect'[q].took
               PROVE  r = q
    BY DEF TakenOnce
  <2>2. CASE r \in Redirects /\ q \in Redirects
    BY <1>1, <2>2 DEF IInv, TakenOnce
  <2>3. CASE r \in Redirects /\ q \notin Redirects
    BY <1>1, <2>1, <2>3
  <2>4. CASE r \notin Redirects /\ q \in Redirects
    BY <1>1, <2>1, <2>4
  <2>5. CASE r \notin Redirects /\ q \notin Redirects
    BY <1>1, <2>5
  <2> QED BY <2>2, <2>3, <2>4, <2>5
<1> QED BY <1>8, <1>9, <1>10, <1>11 DEF IInv

\* An untouched request only adds a flow.
LEMMA UntouchedIInv ==
    ASSUME IInv, NEW s \in State \cup {NoState}, AuthorizeUntouched(s)
    PROVE  IInv'
<1> DEFINE f == [state |-> s, fits |-> FALSE, challenge |-> "agent", at |-> 0, stale |-> FALSE]
<1>1. f \in Flow
  BY BoundsAssumption DEF Flow
<1>2. /\ flow' \in Seq(Flow)
      /\ \A n \in Flows : flow'[n] = flow[n] /\ n \in Flows'
      /\ UNCHANGED <<pending, redirect>>
  <2> HIDE DEF f
  <2>1. flow' = Append(flow, f) /\ UNCHANGED <<pending, redirect>>
    BY DEF AuthorizeUntouched, f
  <2> QED BY <1>1, <2>1 DEF IInv, Shape, Flows
<1>3. Brokers' = Brokers /\ Redirects' = Redirects
  BY <1>2 DEF Brokers, Redirects
<1>4. Tables'
  BY <1>2, <1>3 DEF IInv, Tables
<1>5. Took'
  BY <1>2, <1>3 DEF IInv, Took
<1> QED BY <1>2, <1>3, <1>4, <1>5 DEF IInv, Shape, TakenOnce

\* Time only marks a flow.
LEMMA StalesIInv ==
    ASSUME IInv, NEW n \in Flows, Stales(n)
    PROVE  IInv'
<1> DEFINE old == flow[n]
           new == [old EXCEPT !.stale = TRUE]
<1>1. flow \in Seq(Flow) /\ UNCHANGED <<pending, redirect>>
  BY DEF IInv, Shape, Stales
<1>2. flow' = [flow EXCEPT ![n] = new]
  BY DEF Stales
<1>3. old \in Flow /\ new \in Flow /\ new.at = old.at /\ new.state = old.state
  <2>1. old \in Flow
    BY <1>1 DEF Flows
  <2> HIDE DEF old
  <2> QED BY <2>1 DEF Flow
<1> HIDE DEF new
<1>4. /\ flow' \in Seq(Flow)
      /\ Flows' = Flows
      /\ \A k \in Flows : flow'[k].at = flow[k].at /\ flow'[k].state = flow[k].state
  <2>1. flow' \in Seq(Flow) /\ Flows' = Flows
    BY <1>1, <1>2, <1>3 DEF Flows
  <2>2. ASSUME NEW k \in Flows
        PROVE  flow'[k].at = flow[k].at /\ flow'[k].state = flow[k].state
    <3>1. CASE k = n
      <4>1. flow'[k] = new
        BY <1>1, <1>2, <3>1 DEF Flows
      <4> QED BY <1>3, <3>1, <4>1
    <3>2. CASE k # n
      BY <1>1, <1>2, <3>2 DEF Flows
    <3> QED BY <3>1, <3>2
  <2> QED BY <2>1, <2>2
<1>5. Brokers' = Brokers /\ Redirects' = Redirects
  BY <1>1 DEF Brokers, Redirects
<1>6. Tables'
  BY <1>1, <1>4, <1>5 DEF IInv, Tables
<1>7. Took'
  BY <1>1, <1>4, <1>5 DEF IInv, Took
<1> QED BY <1>1, <1>4, <1>5, <1>6, <1>7 DEF IInv, Shape, TakenOnce

\* A new broker comes with an empty table.
LEMMA NewBrokerIInv ==
    ASSUME IInv, NewBroker
    PROVE  IInv'
<1>1. /\ pending \in Seq(SUBSET Nat) /\ pending' = Append(pending, {})
      /\ Len(pending) < MaxBrokers /\ UNCHANGED <<flow, redirect>>
  BY DEF IInv, Shape, NewBroker
<1>2. /\ pending' \in Seq(SUBSET Nat) /\ Len(pending') =< MaxBrokers
      /\ \A b \in Brokers' : b \notin Brokers => pending'[b] = {}
      /\ \A b \in Brokers : pending'[b] = pending[b]
  BY <1>1, BoundsAssumption DEF Brokers
<1>3. Flows' = Flows /\ Redirects' = Redirects
  BY <1>1 DEF Flows, Redirects
<1>4. Tables'
  <2> SUFFICES ASSUME NEW b \in Brokers', NEW n \in pending'[b]
               PROVE  n \in Flows' /\ flow'[n].at = b
                      /\ \A r \in Redirects' : redirect'[r].took # n
    BY DEF Tables
  <2>1. b \in Brokers /\ n \in pending[b]
    BY <1>2
  <2> QED BY <1>1, <1>3, <2>1 DEF IInv, Tables
<1>5. Took'
  BY <1>1, <1>3 DEF IInv, Took
<1> QED BY <1>1, <1>2, <1>3, <1>4, <1>5 DEF IInv, Shape, TakenOnce

\* The end of an exchange changes what the agent sees of a redirect, and
\* nothing the invariant is about.
LEMMA EndIInv ==
    ASSUME IInv, NEW r \in Redirects, ExchangeReturns(r) \/ AgentHangsUp(r)
    PROVE  IInv'
<1> DEFINE Record == [flow : Nat, via : Nat, took : Nat,
                      agent : {"redeeming", "code", "refusal", "sentinel", "gone"}]
           old == redirect[r]
           new(a) == [old EXCEPT !.agent = a]
<1>1. redirect \in Seq(Record) /\ UNCHANGED <<flow, pending>>
  BY DEF IInv, Shape, ExchangeReturns, AgentHangsUp
<1>2. PICK a \in {"sentinel", "gone"} :
          redirect' = [redirect EXCEPT ![r] = new(a)]
  BY DEF ExchangeReturns, AgentHangsUp
<1>3. /\ old \in Record /\ new(a) \in Record
      /\ new(a).took = old.took /\ new(a).flow = old.flow /\ new(a).via = old.via
  <2>1. old \in Record
    <3> HIDE DEF Record
    <3> QED BY <1>1 DEF Redirects
  <2> HIDE DEF old
  <2> QED BY <2>1
<1> HIDE DEF new
<1>4. redirect' \in Seq(Record) /\ Redirects' = Redirects
  <2> HIDE DEF Record
  <2> QED BY <1>1, <1>2, <1>3 DEF Redirects
<1>5. ASSUME NEW q \in Redirects
      PROVE  /\ redirect'[q].took = redirect[q].took
             /\ redirect'[q].flow = redirect[q].flow
             /\ redirect'[q].via = redirect[q].via
  <2>1. CASE q = r
    <3>1. redirect'[q] = new(a)
      BY <1>1, <1>2, <2>1 DEF Redirects
    <3> QED BY <1>3, <2>1, <3>1
  <2>2. CASE q # r
    BY <1>1, <1>2, <2>2 DEF Redirects
  <2> QED BY <2>1, <2>2
<1>6. Brokers' = Brokers /\ Flows' = Flows
  BY <1>1 DEF Brokers, Flows
<1> HIDE DEF Record
<1>7. Tables'
  <2>1. ASSUME NEW b \in Brokers, NEW n \in pending[b]
        PROVE  n \in Flows /\ flow[n].at = b /\ \A q \in Redirects : redirect'[q].took # n
    BY <1>5 DEF IInv, Tables
  <2> QED BY <1>1, <1>4, <1>6, <2>1 DEF Tables
<1>8. Took'
  BY <1>1, <1>4, <1>5, <1>6 DEF IInv, Took
<1>9. TakenOnce'
  <2> SUFFICES ASSUME NEW p \in Redirects, NEW q \in Redirects,
                      redirect'[p].took # 0, redirect'[p].took = redirect'[q].took
               PROVE  p = q
    BY <1>4 DEF TakenOnce
  <2> QED BY <1>5 DEF IInv, TakenOnce
<1> USE DEF Record
<1> QED BY <1>1, <1>4, <1>7, <1>8, <1>9 DEF IInv, Shape

\* Every step keeps the invariant.
LEMMA NextIInv == IInv /\ [Next]_vars => IInv'
<1> SUFFICES ASSUME IInv, [Next]_vars PROVE IInv'
  OBVIOUS
<1>1. ASSUME NEW s \in State, NEW b \in Brokers,
             AuthorizeCaptured(b, s) \/ AuthorizeOversized(b, s)
      PROVE  IInv'
  <2>1. b \in 0..MaxBrokers
    BY BoundsAssumption DEF IInv, Shape, Brokers
  <2>2. CASE AuthorizeCaptured(b, s)
    <3> DEFINE f == [state |-> s, fits |-> TRUE, challenge |-> "marshal", at |-> b, stale |-> FALSE]
    <3>1. f \in Flow /\ f.at = b
      BY <2>1 DEF Flow
    <3>2. flow' = Append(flow, f) /\ pending' = Remember(b, Len(flow) + 1)
          /\ UNCHANGED <<redirect, held>>
      BY <2>2 DEF AuthorizeCaptured
    <3> HIDE DEF f
    <3> QED BY <3>1, <3>2, EnterIInv
  <2>3. CASE AuthorizeOversized(b, s)
    <3> DEFINE f == [state |-> s, fits |-> FALSE, challenge |-> "agent", at |-> b, stale |-> FALSE]
    <3>1. f \in Flow /\ f.at = b
      BY <2>1 DEF Flow
    <3>2. flow' = Append(flow, f) /\ pending' = Remember(b, Len(flow) + 1)
          /\ UNCHANGED <<redirect, held>>
      BY <2>3 DEF AuthorizeOversized
    <3> HIDE DEF f
    <3> QED BY <3>1, <3>2, EnterIInv
  <2> QED BY <1>1, <2>2, <2>3
<1>2. ASSUME NEW n \in Flows, NEW b \in Brokers, NEW agent \in {"code", "refusal"},
             PassesUntaken(n, b, agent)
      PROVE  IInv'
  BY <1>2, ArriveIInv DEF PassesUntaken
<1>3. ASSUME NEW n \in Flows, NEW b \in Brokers, NEW k \in Flows,
             Captures(n, b, k) \/ Refused(n, b, k)
      PROVE  IInv'
  BY <1>3, ArriveIInv DEF Captures, Refused, Taking, Flows
<1>4. ASSUME NEW r \in Redirects, Respond(r) \/ Forwarded(r) PROVE IInv'
  BY <1>4 DEF Respond, Forwarded, IInv, Shape, Tables, Took, TakenOnce, Flows, Brokers, Redirects
<1>5. CASE UNCHANGED vars
  BY <1>5 DEF vars, IInv, Shape, Tables, Took, TakenOnce, Flows, Brokers, Redirects
<1> QED
  BY <1>1, <1>2, <1>3, <1>4, <1>5, UntouchedIInv, StalesIInv, NewBrokerIInv, EndIInv
     DEF Next

-----------------------------------------------------------------------------
\* take hands out an entry once, however large the table and however many
\* brokers, flows and redirects there are.
THEOREM BrokerTakenOnce == Spec => []TakenOnce
<1>1. IInv => TakenOnce
  BY DEF IInv
<1> QED BY InitIInv, NextIInv, <1>1, PTL DEF Spec

\* With states that are not repeated a redirect's code is exchanged with the
\* verifier of its own flow, at the broker that entered it.
THEOREM BrokerRedeemsItsOwn == Spec => []RedeemsItsOwn
<1>1. IInv => RedeemsItsOwn
  BY DEF IInv, Took, RedeemsItsOwn
<1> QED BY InitIInv, NextIInv, <1>1, PTL DEF Spec

-----------------------------------------------------------------------------
(* The bound on a table, and what it takes for a flow to be lost.           *)

\* A set of naturals in which every element has fewer than n larger ones has
\* at most n elements: counting the larger ones is injective.
LEMMA FewLarger ==
    ASSUME NEW S \in SUBSET Nat, IsFiniteSet(S), NEW n \in Nat,
           \A k \in S : Cardinality({j \in S : j > k}) < n
    PROVE  Cardinality(S) =< n
<1> DEFINE above(k) == {j \in S : j > k}
           f == [k \in S |-> Cardinality(above(k))]
<1>1. ASSUME NEW k \in S
      PROVE  IsFiniteSet(above(k)) /\ Cardinality(above(k)) \in 0 .. (n - 1)
  <2>1. IsFiniteSet(above(k))
    <3>1. above(k) \in SUBSET S
      OBVIOUS
    <3> QED BY <3>1, FS_Subset
  <2>2. Cardinality(above(k)) \in Nat
    BY <2>1, FS_CardinalityType
  <2> QED BY <2>1, <2>2
<1>2. ASSUME NEW k \in S, NEW l \in S, k < l
      PROVE  Cardinality(above(k)) # Cardinality(above(l))
  <2>0. \A j \in above(l) : j \in above(k)
    BY <1>2
  <2>1. above(l) \in SUBSET above(k) /\ l \in above(k) /\ l \notin above(l)
    <3>1. l \in above(k) /\ l \notin above(l)
      BY <1>2
    <3> HIDE DEF above
    <3> QED BY <2>0, <3>1
  <2> HIDE DEF above
  <2>2. IsFiniteSet(above(k))
    BY <1>1
  <2>3. Cardinality(above(l)) = Cardinality(above(k)) => above(l) = above(k)
    BY <2>1, <2>2, FS_Subset
  <2> QED BY <2>1, <2>3
<1> HIDE DEF above
<1>3. f \in Injection(S, 0 .. (n - 1))
  <2>1. f \in [S -> 0 .. (n - 1)]
    BY <1>1
  <2>2. ASSUME NEW k \in S, NEW l \in S, f[k] = f[l]
        PROVE  k = l
    <3>1. ~(k < l) /\ ~(l < k)
      BY <1>2, <2>2
    <3> QED BY <3>1
  <2> QED BY <2>1, <2>2 DEF Injection, IsInjective
<1>4. IsFiniteSet(0 .. (n - 1)) /\ Cardinality(0 .. (n - 1)) = n
  BY FS_Interval
<1> QED BY <1>3, <1>4, FS_Injection

\* pop_front leaves room for one more, whatever was in the table.
LEMMA NewestLeavesRoom ==
    ASSUME NEW table \in SUBSET Nat, IsFiniteSet(table)
    PROVE  /\ IsFiniteSet(Newest(table))
           /\ Cardinality(Newest(table)) =< MaxPending - 1
<1>1. Newest(table) \in SUBSET table /\ IsFiniteSet(Newest(table))
  BY FS_Subset DEF Newest
<1>2. MaxPending - 1 \in Nat
  BY BoundsAssumption
<1>3. ASSUME NEW k \in Newest(table)
      PROVE  Cardinality({j \in Newest(table) : j > k}) < MaxPending - 1
  <2> DEFINE all == {j \in table : j > k}
             some == {j \in Newest(table) : j > k}
  <2>1. all \in SUBSET table /\ some \in SUBSET all /\ Cardinality(all) < MaxPending - 1
    BY <1>1, <1>3 DEF Newest
  <2> HIDE DEF all, some
  <2>2. IsFiniteSet(all)
    BY <2>1, FS_Subset
  <2>3. IsFiniteSet(some) /\ Cardinality(some) =< Cardinality(all)
    BY <2>1, <2>2, FS_Subset
  <2>4. Cardinality(some) \in Nat /\ Cardinality(all) \in Nat
    BY <2>2, <2>3, FS_CardinalityType
  <2> QED BY <1>2, <2>1, <2>3, <2>4 DEF some
<1> QED BY <1>1, <1>2, <1>3, FewLarger

\* What pop_front drops has at least MaxPending - 1 newer ones in the table.
LEMMA DroppedHasNewer ==
    ASSUME NEW table, NEW n \in table, n \notin Newest(table), IsFiniteSet(table)
    PROVE  Cardinality({k \in table : k > n}) >= MaxPending - 1
<1>1. {k \in table : k > n} \in SUBSET table
  OBVIOUS
<1>2. Cardinality({k \in table : k > n}) \in Nat
  BY <1>1, FS_Subset, FS_CardinalityType
<1> QED BY <1>2, BoundsAssumption DEF Newest

\* A redirect has taken the flow out of its table.
Taken(n) == \E r \in Redirects : redirect[r].took = n

\* A flow the broker no longer answers for: out of time, taken, or pushed out
\* by as many newer ones as a table holds.
Gone(n) ==
    flow[n].stale \/ Taken(n) \/ Cardinality(NewerThan(n)) >= MaxPending

\* What has been entered is in its table until it is lost.
KeptUntilLost ==
    \A n \in Flows : flow[n].at # 0 => flow[n].at \in Brokers
                                       /\ (n \in pending[flow[n].at] \/ Gone(n))

\* The model's own bounds, and the size of a table.
Bounded ==
    /\ Len(flow) =< MaxFlows
    /\ \A r \in Redirects : redirect[r].via \in 1..MaxBrokers
    /\ held \subseteq 0..MaxFlows
    /\ \A b \in Brokers : IsFiniteSet(pending[b]) /\ Cardinality(pending[b]) =< MaxPending

TableIInv == IInv /\ Bounded /\ KeptUntilLost /\ RealCodeOnlyWhenLost

\* What a step may do to the flows and redirects there are.
Grows ==
    /\ Flows \subseteq Flows' /\ Redirects \subseteq Redirects' /\ Brokers \subseteq Brokers'
    /\ \A n \in Flows : /\ flow'[n].at = flow[n].at
                        /\ flow'[n].fits = flow[n].fits
                        /\ flow'[n].challenge = flow[n].challenge
                        /\ flow[n].stale => flow'[n].stale
    /\ \A r \in Redirects : /\ redirect'[r].took = redirect[r].took
                            /\ redirect'[r].flow = redirect[r].flow
                            /\ redirect'[r].via = redirect[r].via
                            /\ redirect[r].agent = "code" => redirect'[r].agent = "code"

LEMMA NewerFinite ==
    ASSUME NEW n
    PROVE  IsFiniteSet(NewerThan(n)) /\ Cardinality(NewerThan(n)) \in Nat
<1>1. IsFiniteSet(Flows)
  BY FS_Interval DEF Flows
<1> QED BY <1>1, FS_Subset, FS_CardinalityType DEF NewerThan

LEMMA SequencesGrow == IInv /\ Next => Grows
<1> SUFFICES ASSUME IInv, Next PROVE Grows
  OBVIOUS
<1> USE DEF IInv, Shape, Grows, Flows, Brokers, Redirects
<1>1. ASSUME NEW f, flow' = Append(flow, f), UNCHANGED redirect,
             \/ UNCHANGED pending
             \/ \E b \in Brokers : \E t : pending' = [pending EXCEPT ![b] = t]
      PROVE  Grows
  BY <1>1
<1>2. ASSUME NEW b \in Brokers, NEW n \in Flows, NEW k, NEW agent, Arrives(n, b, k, agent)
      PROVE  Grows
  BY <1>2 DEF Arrives
<1>3. ASSUME NEW n \in Flows, Stales(n)
      PROVE  Grows
  <2>1. flow[n] \in Flow /\ flow' = [flow EXCEPT ![n] = [flow[n] EXCEPT !.stale = TRUE]]
        /\ UNCHANGED <<pending, redirect>>
    BY <1>3 DEF Stales
  <2>2. /\ [flow[n] EXCEPT !.stale = TRUE].at = flow[n].at
        /\ [flow[n] EXCEPT !.stale = TRUE].fits = flow[n].fits
        /\ [flow[n] EXCEPT !.stale = TRUE].challenge = flow[n].challenge
        /\ [flow[n] EXCEPT !.stale = TRUE].stale
    BY <2>1 DEF Flow
  <2> QED BY <2>1, <2>2
<1>4. ASSUME NewBroker
      PROVE  Grows
  BY <1>4 DEF NewBroker
<1>5. ASSUME NEW r \in Redirects, ExchangeReturns(r) \/ AgentHangsUp(r)
      PROVE  Grows
  <2>1. PICK a : redirect' = [redirect EXCEPT ![r] = [redirect[r] EXCEPT !.agent = a]]
    BY <1>5 DEF ExchangeReturns, AgentHangsUp
  <2>2. UNCHANGED <<flow, pending>>
    BY <1>5 DEF ExchangeReturns, AgentHangsUp
  <2> DEFINE s == [redirect[r] EXCEPT !.agent = a]
  <2>3. s.took = redirect[r].took /\ s.flow = redirect[r].flow /\ s.via = redirect[r].via
    OBVIOUS
  <2>4. redirect' = [redirect EXCEPT ![r] = s]
    BY <2>1
  <2> HIDE DEF s
  <2>5. ASSUME NEW q \in Redirects
        PROVE  /\ redirect'[q].took = redirect[q].took
               /\ redirect'[q].flow = redirect[q].flow
               /\ redirect'[q].via = redirect[q].via
               /\ redirect[q].agent = "code" => redirect'[q].agent = "code"
    <3>0. redirect[r].agent # "code"
      BY <1>5 DEF ExchangeReturns, AgentHangsUp
    <3>1. DOMAIN redirect = Redirects
      OBVIOUS
    <3> HIDE DEF IInv, Shape, Redirects
    <3>2. redirect'[q] = IF q = r THEN s ELSE redirect[q]
      BY <2>4, <3>1
    <3> QED BY <2>3, <3>0, <3>2
  <2>6. Redirects' = Redirects
    BY <2>4
  <2> QED BY <2>2, <2>5, <2>6
<1>6. ASSUME NEW r \in Redirects, Respond(r) \/ Forwarded(r)
      PROVE  Grows
  BY <1>6 DEF Respond, Forwarded
<1> QED
  BY <1>1, <1>2, <1>3, <1>4, <1>5, <1>6 DEF Next, AuthorizeCaptured, AuthorizeOversized,
     AuthorizeUntouched, Remember, PassesUntaken, Captures, Refused, Taking

\* What pushed a flow out is not undone.
LEMMA NewerGrows ==
    ASSUME Grows, NEW n \in Flows, Cardinality(NewerThan(n)) >= MaxPending
    PROVE  Cardinality(NewerThan(n)') >= MaxPending
<1>1. NewerThan(n) \in SUBSET NewerThan(n)'
  BY DEF Grows, NewerThan
<1>2. IsFiniteSet(NewerThan(n)') /\ Cardinality(NewerThan(n)') \in Nat
  <2>1. IsFiniteSet(Flows')
    BY FS_Interval DEF Flows
  <2> QED BY <2>1, FS_Subset, FS_CardinalityType DEF NewerThan
<1>3. Cardinality(NewerThan(n)) =< Cardinality(NewerThan(n)')
  BY <1>1, <1>2, FS_Subset
<1> QED BY <1>2, <1>3, NewerFinite, BoundsAssumption

\* What is lost stays lost.
LEMMA GoneForGood ==
    ASSUME Grows, NEW n \in Flows, Gone(n)
    PROVE  Gone(n)'
<1>1. CASE flow[n].stale
  BY <1>1 DEF Grows, Gone
<1>2. CASE Taken(n)
  BY <1>2 DEF Grows, Gone, Taken
<1>3. CASE Cardinality(NewerThan(n)) >= MaxPending
  BY <1>3, NewerGrows DEF Gone
<1> QED BY <1>1, <1>2, <1>3 DEF Gone

\* And so is a redirect's flow.
LEMMA LostStays ==
    ASSUME Grows, NEW r \in Redirects, redirect[r].flow \in Flows, Lost(r)
    PROVE  Lost(r)'
<1> DEFINE n == redirect[r].flow
<1>1. n \in Flows /\ redirect'[r].flow = n /\ flow'[n].at = flow[n].at
      /\ redirect'[r].via = redirect[r].via /\ (flow[n].stale => flow'[n].stale)
  BY DEF Grows
<1>2. CASE flow[n].stale \/ redirect[r].via # flow[n].at
  BY <1>1, <1>2 DEF Lost
<1>3. CASE TakenBefore(r)
  <2>1. \A q \in 1..(r - 1) : q \in Redirects
    BY DEF Redirects
  <2> QED BY <1>1, <1>3, <2>1 DEF Grows, TakenBefore, Lost
<1>4. CASE Cardinality(NewerThan(n)) >= MaxPending
  <2>1. Cardinality(NewerThan(n)') >= MaxPending
    BY <1>1, <1>4, NewerGrows
  <2>2. Cardinality(NewerThan(redirect[r].flow))' >= MaxPending
    BY <1>1, <2>1 DEF NewerThan
  <2> QED BY <2>2 DEF Lost
<1> QED BY <1>2, <1>3, <1>4 DEF Lost

LEMMA InitTable == Init => TableIInv
<1> SUFFICES ASSUME Init PROVE TableIInv
  OBVIOUS
<1>1. pending[1] = {} /\ Brokers = {1}
  BY DEF Init, Brokers
<1>2. \A b \in Brokers : IsFiniteSet(pending[b]) /\ Cardinality(pending[b]) =< MaxPending
  BY <1>1, FS_EmptySet, BoundsAssumption
<1>3. Bounded
  BY <1>2, BoundsAssumption DEF Init, Bounded, Redirects
<1> QED BY <1>3, InitIInv DEF Init, TableIInv, KeptUntilLost, RealCodeOnlyWhenLost, Flows, Redirects

\* A step that shows no agent a code keeps what is said of codes.
LEMMA NoNewCode ==
    ASSUME IInv, RealCodeOnlyWhenLost, Grows,
           \A r \in Redirects' : redirect'[r].agent = "code" =>
               r \in Redirects /\ redirect[r].agent = "code"
    PROVE  RealCodeOnlyWhenLost'
<1> SUFFICES ASSUME NEW r \in Redirects', NEW n, n = redirect'[r].flow,
                    redirect'[r].agent = "code", flow'[n].at # 0
             PROVE  Lost(r)'
  BY DEF RealCodeOnlyWhenLost
<1>1. r \in Redirects /\ redirect[r].agent = "code" /\ n = redirect[r].flow /\ n \in Flows
  BY DEF IInv, Took, Grows
<1>2. Lost(r)
  BY <1>1 DEF RealCodeOnlyWhenLost, Grows
<1> QED BY <1>1, <1>2, LostStays

\* A step that enters nothing keeps what is in the tables, or loses it.
LEMMA NothingEntered ==
    ASSUME KeptUntilLost, Grows, Flows' = Flows,
           \A b \in Brokers : \A n \in pending[b] : n \in Flows => n \in pending'[b] \/ Gone(n)'
    PROVE  KeptUntilLost'
<1> SUFFICES ASSUME NEW n \in Flows, flow'[n].at # 0
             PROVE  flow'[n].at \in Brokers' /\ (n \in pending'[flow'[n].at] \/ Gone(n)')
  BY DEF KeptUntilLost
<1>1. flow'[n].at = flow[n].at /\ flow[n].at \in Brokers
      /\ (n \in pending[flow[n].at] \/ Gone(n))
  BY DEF KeptUntilLost, Grows
<1>2. Gone(n) => Gone(n)'
  BY GoneForGood
<1> QED BY <1>1, <1>2 DEF Grows

\* An authorization request is entered; what remember drops for it is lost.
LEMMA EnterTable ==
    ASSUME TableIInv, Grows, Len(flow) < MaxFlows,
           NEW b \in Brokers, NEW f \in Flow, f.at = b,
           flow' = Append(flow, f),
           pending' = Remember(b, Len(flow) + 1),
           UNCHANGED <<redirect, held>>
    PROVE  (Bounded /\ KeptUntilLost /\ RealCodeOnlyWhenLost)'
<1> DEFINE new == Len(flow) + 1
           fresh == Fresh(pending[b])
<1>1. /\ IInv /\ flow \in Seq(Flow) /\ pending \in Seq(SUBSET Nat) /\ Len(flow) \in Nat
      /\ MaxPending \in Nat \ {0}
  BY BoundsAssumption DEF TableIInv, IInv, Shape
<1>2. Flows' = Flows \union {new} /\ new \notin Flows /\ flow'[new].at = b
  BY <1>1 DEF Flows
<1>3. /\ Brokers' = Brokers /\ pending'[b] = Newest(fresh) \cup {new}
      /\ \A c \in Brokers : c # b => pending'[c] = pending[c]
  BY <1>1 DEF Remember, Brokers
<1>4. fresh \in SUBSET Nat /\ fresh \in SUBSET pending[b] /\ IsFiniteSet(fresh)
      /\ \A k \in fresh : k \in Flows /\ flow[k].at = b
  <2>1. fresh \in SUBSET pending[b]
    BY TableOps
  <2>2. pending[b] \in SUBSET Nat /\ IsFiniteSet(pending[b])
    BY <1>1 DEF Brokers, TableIInv, Bounded
  <2>3. IsFiniteSet(fresh)
    BY <2>1, <2>2, FS_Subset
  <2> QED BY <1>1, <2>1, <2>2, <2>3 DEF IInv, Tables
<1> HIDE DEF fresh
<1>5. Bounded'
  <2>1. IsFiniteSet(Newest(fresh)) /\ Cardinality(Newest(fresh)) =< MaxPending - 1
    BY <1>4, NewestLeavesRoom
  <2>2. Cardinality(Newest(fresh)) \in Nat
    BY <2>1, FS_CardinalityType
  <2>3. IsFiniteSet(pending'[b]) /\ Cardinality(pending'[b]) =< Cardinality(Newest(fresh)) + 1
    <3> HIDE DEF new
    <3>1. /\ IsFiniteSet(Newest(fresh) \cup {new})
          /\ Cardinality(Newest(fresh) \cup {new})
               = IF new \in Newest(fresh) THEN Cardinality(Newest(fresh))
                                          ELSE Cardinality(Newest(fresh)) + 1
      BY <2>1, FS_AddElement
    <3>2. pending'[b] = Newest(fresh) \cup {new}
      BY <1>3
    <3>3. IsFiniteSet(pending'[b])
      BY <3>1, <3>2
    <3>4. Cardinality(Newest(fresh) \cup {new}) =< Cardinality(Newest(fresh)) + 1
      <4> DEFINE few == Cardinality(Newest(fresh))
                 now == Cardinality(Newest(fresh) \cup {new})
      <4>1. few \in Nat /\ (now = few \/ now = few + 1)
        BY <2>2, <3>1
      <4> HIDE DEF few, now
      <4>2. now =< few + 1
        BY <4>1
      <4> QED BY <4>2 DEF few, now
    <3> QED BY <3>2, <3>3, <3>4
  <2>4. IsFiniteSet(pending'[b]) /\ Cardinality(pending'[b]) =< MaxPending
    BY <1>1, <2>1, <2>2, <2>3, FS_CardinalityType
  <2>5. Len(flow') =< MaxFlows
    BY <1>1, BoundsAssumption
  <2> QED BY <1>3, <2>4, <2>5 DEF TableIInv, Bounded, Redirects
<1>6. ASSUME NEW n \in fresh, n \notin Newest(fresh)
      PROVE  Gone(n)'
  <2> DEFINE newer == {k \in fresh : k > n}
  <2>1. Cardinality(newer) >= MaxPending - 1
    BY <1>4, <1>6, DroppedHasNewer
  <2>2. IsFiniteSet(newer) /\ new \notin newer
    <3>1. newer \in SUBSET fresh
      OBVIOUS
    <3> QED BY <1>2, <1>4, <3>1, FS_Subset
  <2>3. newer \cup {new} \in SUBSET (NewerThan(n)')
    <3>1. n \in Flows /\ flow'[n].at = b /\ new > n
      BY <1>1, <1>4, <1>6 DEF Grows, Flows
    <3>2. \A k \in newer : k \in Flows /\ flow'[k].at = b /\ k > n
      BY <1>4 DEF Grows
    <3> HIDE DEF newer
    <3> QED BY <1>2, <3>1, <3>2 DEF NewerThan
  <2> HIDE DEF newer
  <2>4. IsFiniteSet(NewerThan(n)')
    <3>1. IsFiniteSet(Flows')
      BY FS_Interval DEF Flows
    <3> QED BY <3>1, FS_Subset DEF NewerThan
  <2>5. Cardinality(newer \cup {new}) = Cardinality(newer) + 1
    BY <2>2, FS_AddElement
  <2>6. Cardinality(newer \cup {new}) =< Cardinality(NewerThan(n)')
    BY <2>3, <2>4, FS_Subset
  <2>7. Cardinality(newer) \in Nat /\ Cardinality(NewerThan(n)') \in Nat
    BY <2>2, <2>4, FS_CardinalityType
  <2>8. Cardinality(NewerThan(n)') >= MaxPending
    BY <1>1, <2>1, <2>5, <2>6, <2>7
  <2> QED BY <2>8 DEF Gone
<1>7. KeptUntilLost'
  <2> SUFFICES ASSUME NEW n \in Flows', flow'[n].at # 0
               PROVE  flow'[n].at \in Brokers' /\ (n \in pending'[flow'[n].at] \/ Gone(n)')
    BY DEF KeptUntilLost
  <2>1. CASE n = new
    BY <1>2, <1>3, <2>1
  <2>2. CASE n # new
    <3>1. /\ n \in Flows /\ flow'[n].at = flow[n].at /\ flow[n].at \in Brokers
          /\ n \in pending[flow[n].at] \/ Gone(n)
      BY <1>2, <2>2 DEF TableIInv, KeptUntilLost, Grows
    <3>2. CASE Gone(n)
      BY <1>3, <3>1, <3>2, GoneForGood
    <3>3. CASE n \in pending[b] /\ flow[n].at = b /\ ~Gone(n)
      <4>1. n \in fresh
        BY <3>3 DEF Gone, fresh, Fresh
      <4> QED BY <1>3, <1>6, <3>1, <3>3, <4>1
    <3>4. CASE n \in pending[flow[n].at] /\ flow[n].at # b
      BY <1>3, <3>1, <3>4
    <3> QED BY <3>1, <3>2, <3>3, <3>4
  <2> QED BY <2>1, <2>2
<1>8. RealCodeOnlyWhenLost'
  BY <1>1, NoNewCode DEF TableIInv, Redirects
<1> QED BY <1>5, <1>7, <1>8

\* A redirect arrives; what leaves the table is out of time or taken by it, and
\* only take finding nothing lets a code through.
LEMMA ArriveTable ==
    ASSUME TableIInv, Grows, NEW n \in Flows, NEW b \in Brokers, NEW k \in Nat,
           NEW agent \in {"redeeming", "code", "refusal"}, Arrives(n, b, k, agent),
           agent = "code" => Matching(b, flow[n].state) = {}
    PROVE  (Bounded /\ KeptUntilLost /\ RealCodeOnlyWhenLost)'
<1> DEFINE new == [flow |-> n, via |-> b, took |-> k, agent |-> agent]
           fresh == Fresh(pending[b])
<1>1. /\ IInv /\ UNCHANGED <<flow, held>> /\ Flows' = Flows
      /\ pending \in Seq(SUBSET Nat) /\ Len(redirect) \in Nat
      /\ Len(pending) =< MaxBrokers /\ Len(pending) \in Nat
  BY DEF TableIInv, IInv, Shape, Arrives, Flows
<1>2. /\ Redirects' = Redirects \union {Len(redirect) + 1}
      /\ redirect'[Len(redirect) + 1] = new
      /\ \A r \in Redirects : redirect'[r] = redirect[r]
  BY DEF TableIInv, IInv, Shape, Arrives, Redirects
<1>3. new.flow = n /\ new.via = b /\ new.took = k /\ new.agent = agent
  OBVIOUS
<1> HIDE DEF new
<1>4. /\ Brokers' = Brokers /\ pending'[b] = fresh \ {k}
      /\ \A c \in Brokers : c # b => pending'[c] = pending[c]
  BY <1>1 DEF Arrives, Brokers
<1>5. Bounded'
  <2>1. IsFiniteSet(pending'[b]) /\ Cardinality(pending'[b]) =< MaxPending
    <3>1. fresh \ {k} \in SUBSET pending[b]
      BY TableOps
    <3>2. IsFiniteSet(pending[b]) /\ Cardinality(pending[b]) =< MaxPending
      BY DEF TableIInv, Bounded
    <3>3. IsFiniteSet(fresh \ {k}) /\ Cardinality(fresh \ {k}) =< Cardinality(pending[b])
      BY <3>1, <3>2, FS_Subset
    <3>4. Cardinality(fresh \ {k}) \in Nat /\ Cardinality(pending[b]) \in Nat
      BY <3>2, <3>3, FS_CardinalityType
    <3> HIDE DEF fresh
    <3> QED BY <1>4, <3>2, <3>3, <3>4, BoundsAssumption
  <2>2. b \in 1..MaxBrokers
    BY <1>1, BoundsAssumption DEF Brokers
  <2>3. \A r \in Redirects' : redirect'[r].via \in 1..MaxBrokers
    BY <1>2, <1>3, <2>2 DEF TableIInv, Bounded
  <2> QED BY <1>1, <1>4, <2>1, <2>3 DEF TableIInv, Bounded
<1>6. KeptUntilLost'
  <2>1. ASSUME NEW m \in Flows, m \in pending[b], m \notin fresh \ {k}
        PROVE  Gone(m)'
    <3>1. CASE m = k
      <4>1. redirect'[Len(redirect) + 1].took = m /\ Len(redirect) + 1 \in Redirects'
        BY <1>2, <1>3, <3>1
      <4> QED BY <4>1 DEF Gone, Taken
    <3>2. CASE m # k
      BY <2>1, <3>2, GoneForGood DEF Fresh, Gone
    <3> QED BY <3>1, <3>2
  <2> HIDE DEF fresh
  <2> QED BY <1>1, <1>4, <2>1, NothingEntered DEF TableIInv
<1>7. RealCodeOnlyWhenLost'
  <2>1. CASE agent # "code"
    BY <1>1, <1>2, <1>3, <2>1, NoNewCode DEF TableIInv
  <2>2. CASE agent = "code"
    <3>1. flow[n].at # 0 => b # flow[n].at \/ Gone(n)
      <4> SUFFICES ASSUME flow[n].at = b
                   PROVE  Gone(n) \/ flow[n].at = 0
        OBVIOUS
      <4>1. n \in pending[b] /\ ~flow[n].stale => n \in Matching(b, flow[n].state)
        BY DEF Matching, Fresh
      <4>2. flow[n].at # 0 => n \in pending[b] \/ Gone(n)
        BY DEF TableIInv, KeptUntilLost
      <4> QED BY <2>2, <4>1, <4>2 DEF Gone
    <3> SUFFICES ASSUME NEW r \in Redirects', NEW m, m = redirect'[r].flow,
                        redirect'[r].agent = "code", flow'[m].at # 0
                 PROVE  Lost(r)'
      BY DEF RealCodeOnlyWhenLost
    <3>3. CASE r \in Redirects
      <4>1. redirect[r].agent = "code" /\ m = redirect[r].flow /\ m \in Flows
        BY <1>1, <1>2, <3>3 DEF IInv, Took
      <4>2. Lost(r)
        BY <1>1, <1>2, <3>3, <4>1 DEF TableIInv, RealCodeOnlyWhenLost
      <4> QED BY <3>3, <4>1, <4>2, LostStays
    <3>4. CASE r \notin Redirects
      <4>1. /\ r = Len(redirect) + 1 /\ redirect'[r] = new /\ m = n /\ flow' = flow
            /\ flow[n].at # 0
        BY <1>1, <1>2, <1>3, <3>4
      <4>2. redirect'[r].flow = n /\ redirect'[r].via = b
        BY <1>3, <4>1
      <4>3. CASE b # flow[n].at \/ flow[n].stale
        BY <4>1, <4>2, <4>3 DEF Lost
      <4>4. CASE Taken(n)
        <5>1. PICK q \in Redirects : redirect[q].took = n
          BY <4>4 DEF Taken
        <5>2. q \in 1..(r - 1) /\ redirect'[q].took = n
          BY <1>1, <1>2, <4>1, <5>1 DEF Redirects
        <5>3. TakenBefore(r)'
          BY <4>2, <5>2 DEF TakenBefore
        <5> QED BY <5>3 DEF Lost
      <4>5. CASE Cardinality(NewerThan(n)) >= MaxPending
        <5>1. NewerThan(n)' = NewerThan(n)
          BY <1>1 DEF NewerThan
        <5>2. Cardinality(NewerThan(redirect[r].flow))' >= MaxPending
          BY <4>2, <4>5, <5>1 DEF NewerThan
        <5> QED BY <5>2 DEF Lost
      <4> QED BY <3>1, <4>1, <4>3, <4>4, <4>5 DEF Gone
    <3> QED BY <3>3, <3>4
  <2> QED BY <2>1, <2>2
<1> QED BY <1>5, <1>6, <1>7

LEMMA NextTable == TableIInv /\ [Next]_vars => TableIInv'
<1> SUFFICES ASSUME TableIInv, [Next]_vars PROVE (Bounded /\ KeptUntilLost /\ RealCodeOnlyWhenLost)'
  BY NextIInv DEF TableIInv
<1>0. /\ IInv /\ Bounded /\ KeptUntilLost /\ RealCodeOnlyWhenLost
      /\ flow \in Seq(Flow) /\ Len(flow) \in Nat
  BY DEF TableIInv, IInv, Shape
<1>1. ASSUME Next, NEW s \in State, NEW b \in Brokers,
             AuthorizeCaptured(b, s) \/ AuthorizeOversized(b, s)
      PROVE  (Bounded /\ KeptUntilLost /\ RealCodeOnlyWhenLost)'
  <2> DEFINE f(c) == [state |-> s, fits |-> c = "marshal", challenge |-> c,
                      at |-> b, stale |-> FALSE]
  <2>1. b \in 0..MaxBrokers
    BY BoundsAssumption DEF TableIInv, IInv, Shape, Brokers
  <2>2. \A c \in {"marshal", "agent"} : f(c) \in Flow /\ f(c).at = b
    BY <2>1 DEF Flow
  <2>3. PICK c \in {"marshal", "agent"} :
            flow' = Append(flow, f(c)) /\ pending' = Remember(b, Len(flow) + 1)
            /\ UNCHANGED <<redirect, held>> /\ Len(flow) < MaxFlows
    BY <1>1 DEF AuthorizeCaptured, AuthorizeOversized
  <2>4. Grows
    BY <1>0, <1>1, SequencesGrow
  <2> HIDE DEF f
  <2> QED BY <2>2, <2>3, <2>4, EnterTable
<1>2. ASSUME Next, NEW s \in State \cup {NoState}, AuthorizeUntouched(s)
      PROVE  (Bounded /\ KeptUntilLost /\ RealCodeOnlyWhenLost)'
  <2> DEFINE f == [state |-> s, fits |-> FALSE, challenge |-> "agent", at |-> 0, stale |-> FALSE]
  <2>1. Grows /\ f.at = 0
    BY <1>0, <1>2, SequencesGrow
  <2>2. flow' = Append(flow, f) /\ UNCHANGED <<pending, redirect, held>> /\ Len(flow) < MaxFlows
    BY <1>2 DEF AuthorizeUntouched
  <2> HIDE DEF f
  <2>3. Flows' = Flows \union {Len(flow) + 1} /\ flow'[Len(flow) + 1].at = 0 /\ Len(flow') =< MaxFlows
    BY <1>0, <2>1, <2>2, BoundsAssumption DEF Flows
  <2>4. Bounded'
    BY <1>0, <2>2, <2>3 DEF Bounded, Redirects, Brokers
  <2>5. KeptUntilLost'
    BY <1>0, <2>1, <2>2, <2>3, GoneForGood DEF KeptUntilLost, Grows
  <2>6. RealCodeOnlyWhenLost'
    BY <1>0, <2>1, <2>2, NoNewCode DEF Redirects
  <2> QED BY <2>4, <2>5, <2>6
<1>3. ASSUME Next, NEW n \in Flows, Stales(n)
      PROVE  (Bounded /\ KeptUntilLost /\ RealCodeOnlyWhenLost)'
  <2>1. Grows /\ UNCHANGED <<pending, redirect, held>> /\ Len(flow') = Len(flow)
    BY <1>0, <1>3, SequencesGrow DEF Stales
  <2>2. Flows' = Flows /\ Redirects' = Redirects /\ Brokers' = Brokers
    BY <2>1 DEF Flows, Redirects, Brokers
  <2>3. Bounded'
    BY <1>0, <2>1, <2>2 DEF Bounded
  <2>4. KeptUntilLost'
    BY <1>0, <2>1, <2>2, NothingEntered
  <2>5. RealCodeOnlyWhenLost'
    BY <1>0, <2>1, <2>2, NoNewCode
  <2> QED BY <2>3, <2>4, <2>5
<1>4. ASSUME Next, NewBroker
      PROVE  (Bounded /\ KeptUntilLost /\ RealCodeOnlyWhenLost)'
  <2>1. Grows /\ UNCHANGED <<flow, redirect, held>> /\ pending' = Append(pending, {})
        /\ pending \in Seq(SUBSET Nat)
    BY <1>0, <1>4, SequencesGrow DEF NewBroker, IInv, Shape
  <2>2. Flows' = Flows /\ Redirects' = Redirects
    BY <2>1 DEF Flows, Redirects
  <2>3. /\ \A b \in Brokers : pending'[b] = pending[b]
        /\ \A b \in Brokers' : b \notin Brokers => pending'[b] = {}
    BY <2>1 DEF Brokers
  <2>4. IsFiniteSet({}) /\ Cardinality({}) =< MaxPending
    BY FS_EmptySet, BoundsAssumption
  <2>5. Bounded'
    BY <1>0, <2>1, <2>2, <2>3, <2>4 DEF Bounded
  <2>6. KeptUntilLost'
    BY <1>0, <2>1, <2>2, <2>3, NothingEntered
  <2>7. RealCodeOnlyWhenLost'
    BY <1>0, <2>1, <2>2, NoNewCode
  <2> QED BY <2>5, <2>6, <2>7
<1>5. ASSUME Next, NEW n \in Flows, NEW b \in Brokers, NEW agent \in {"code", "refusal"},
             PassesUntaken(n, b, agent)
      PROVE  (Bounded /\ KeptUntilLost /\ RealCodeOnlyWhenLost)'
  BY <1>0, <1>5, SequencesGrow, ArriveTable DEF PassesUntaken
<1>6. ASSUME Next, NEW n \in Flows, NEW b \in Brokers, NEW k \in Flows,
             Captures(n, b, k) \/ Refused(n, b, k)
      PROVE  (Bounded /\ KeptUntilLost /\ RealCodeOnlyWhenLost)'
  BY <1>0, <1>6, SequencesGrow, ArriveTable DEF Captures, Refused, Taking, Flows
<1>7. ASSUME Next, NEW r \in Redirects, ExchangeReturns(r) \/ AgentHangsUp(r)
      PROVE  (Bounded /\ KeptUntilLost /\ RealCodeOnlyWhenLost)'
  <2>1. Grows /\ UNCHANGED <<flow, pending, held>> /\ Redirects' = Redirects
    BY <1>0, <1>7, SequencesGrow DEF ExchangeReturns, AgentHangsUp, Redirects, IInv, Shape
  <2>2. \A q \in Redirects : redirect'[q].agent = "code" => redirect[q].agent = "code"
    <3>1. PICK a \in {"sentinel", "gone"} :
              redirect' = [redirect EXCEPT ![r] = [redirect[r] EXCEPT !.agent = a]]
      BY <1>7 DEF ExchangeReturns, AgentHangsUp
    <3> DEFINE Record == [flow : Nat, via : Nat, took : Nat,
                          agent : {"redeeming", "code", "refusal", "sentinel", "gone"}]
               s == [redirect[r] EXCEPT !.agent = a]
    <3>2. redirect \in Seq(Record)
      BY <1>0 DEF IInv, Shape
    <3>3. redirect[r] \in Record
      <4> HIDE DEF Record
      <4> QED BY <3>2 DEF Redirects
    <3>4. s.agent = a
      BY <3>3
    <3>5. DOMAIN redirect = Redirects
      <4> HIDE DEF Record
      <4> QED BY <3>2 DEF Redirects
    <3>6. redirect' = [redirect EXCEPT ![r] = s]
      BY <3>1
    <3> HIDE DEF s, Record
    <3>7. \A q \in Redirects : redirect'[q] = IF q = r THEN s ELSE redirect[q]
      BY <3>5, <3>6
    <3> QED BY <3>4, <3>7
  <2>3. Flows' = Flows /\ Brokers' = Brokers
    BY <2>1 DEF Flows, Brokers
  <2>4. Bounded'
    BY <1>0, <2>1, <2>3 DEF Bounded, Grows
  <2>5. KeptUntilLost'
    BY <1>0, <2>1, <2>3, NothingEntered
  <2>6. RealCodeOnlyWhenLost'
    BY <1>0, <2>1, <2>2, NoNewCode
  <2> QED BY <2>4, <2>5, <2>6
<1>8. ASSUME NEW r \in Redirects, Respond(r) \/ Forwarded(r)
      PROVE  (Bounded /\ KeptUntilLost /\ RealCodeOnlyWhenLost)'
  <2>1. held' \subseteq held \cup {0, redirect[r].flow} /\ UNCHANGED <<flow, pending, redirect>>
    BY <1>8 DEF Respond, Forwarded
  <2>2. redirect[r].flow \in 0..MaxFlows
    BY <1>0, BoundsAssumption DEF IInv, Took, Bounded, Flows
  <2>3. held' \subseteq 0..MaxFlows
    BY <1>0, <2>1, <2>2, BoundsAssumption DEF Bounded
  <2> QED BY <1>0, <2>1, <2>3 DEF Bounded, KeptUntilLost, RealCodeOnlyWhenLost, Lost, TakenBefore,
     Gone, Taken, NewerThan, Flows, Brokers, Redirects
<1>9. CASE UNCHANGED vars
  BY <1>0, <1>9 DEF vars, Bounded, KeptUntilLost, RealCodeOnlyWhenLost, Lost, TakenBefore,
     Gone, Taken, NewerThan, Flows, Brokers, Redirects
<1> QED
  BY <1>1, <1>2, <1>3, <1>4, <1>5, <1>6, <1>7, <1>8, <1>9 DEF Next

\* remember and take, for tables of any size: a table never holds more than
\* MAX_PENDING flows, and the agent sees the real code of an entered flow only
\* if it ran out of time, came back elsewhere, was taken, or was pushed out by
\* MAX_PENDING newer ones.
THEOREM BrokerTableIsSound == Spec => []TableIsSound
<1>1. TableIInv => TypeOK
  <2> SUFFICES ASSUME TableIInv PROVE TypeOK
    OBVIOUS
  <2>1. /\ flow \in Seq(Flow) /\ pending \in Seq(SUBSET Nat) /\ held \subseteq 0..MaxFlows
        /\ Len(flow) \in Nat /\ Len(flow) =< MaxFlows
        /\ \A b \in Brokers : Cardinality(pending[b]) =< MaxPending
    BY DEF TableIInv, IInv, Shape, Bounded
  <2>2. pending \in Seq(SUBSET Flows)
    <3>1. \A b \in Brokers : pending[b] \in SUBSET Flows
      BY DEF TableIInv, IInv, Tables
    <3> QED BY <2>1, <3>1 DEF Brokers
  <2>3. redirect \in Seq(Redirect)
    <3> DEFINE Record == [flow : Nat, via : Nat, took : Nat,
                          agent : {"redeeming", "code", "refusal", "sentinel", "gone"}]
    <3>1. redirect \in Seq(Record)
      BY DEF TableIInv, IInv, Shape
    <3>2. ASSUME NEW r \in Redirects
          PROVE  redirect[r] \in Redirect
      <4>1. redirect[r] \in Record
        <5> HIDE DEF Record
        <5> QED BY <3>1 DEF Redirects
      <4>2. /\ redirect[r].flow \in Flows /\ redirect[r].via \in 1..MaxBrokers
            /\ redirect[r].took # 0 => redirect[r].took \in Flows
        BY DEF TableIInv, IInv, Took, Bounded
      <4>3. redirect[r].flow \in 1..MaxFlows /\ redirect[r].took \in 0..MaxFlows
        BY <2>1, <4>2, BoundsAssumption DEF Flows
      <4> QED BY <4>1, <4>2, <4>3 DEF Redirect
    <3> HIDE DEF Record
    <3> QED BY <3>1, <3>2 DEF Redirects
  <2> QED BY <2>1, <2>2, <2>3 DEF TypeOK
<1>2. TableIInv => RealCodeOnlyWhenLost
  BY DEF TableIInv
<1> QED BY InitTable, NextTable, <1>1, <1>2, PTL DEF Spec, TableIsSound

-----------------------------------------------------------------------------
(* What the agent's own token requests bring it.                            *)

\* The agent's challenge goes out only where marshal's could not.
Challenges == \A n \in Flows : flow[n].fits => flow[n].challenge = "marshal"

TokenIInv == TableIInv /\ Challenges /\ held \ {0} \subseteq Flows /\ TokenOnlyForALostFlow

LEMMA NextChallenges ==
    ASSUME IInv, Challenges, Next
    PROVE  Challenges'
<1>1. Grows /\ flow \in Seq(Flow)
  BY SequencesGrow DEF IInv, Shape
<1>2. ASSUME NEW f, f.fits => f.challenge = "marshal", flow' = Append(flow, f)
      PROVE  Challenges'
  <2>1. Flows' = Flows \cup {Len(flow) + 1} /\ flow'[Len(flow) + 1] = f
    BY <1>1, <1>2 DEF Flows
  <2> QED BY <1>1, <1>2, <2>1 DEF Challenges, Grows
<1>3. CASE Flows' = Flows
  BY <1>1, <1>3 DEF Challenges, Grows
<1>4. ASSUME NEW s, NEW b, AuthorizeCaptured(b, s) \/ AuthorizeOversized(b, s)
      PROVE  Challenges'
  BY <1>2, <1>4 DEF AuthorizeCaptured, AuthorizeOversized
<1>5. ASSUME NEW s, AuthorizeUntouched(s)
      PROVE  Challenges'
  BY <1>2, <1>5 DEF AuthorizeUntouched
<1>6. ASSUME NEW n \in Flows, Stales(n)
      PROVE  Flows' = Flows
  BY <1>1, <1>6 DEF Stales, Flows
<1>7. ASSUME UNCHANGED flow
      PROVE  Flows' = Flows
  BY <1>7 DEF Flows
<1> QED
  BY <1>3, <1>4, <1>5, <1>6, <1>7 DEF Next, NewBroker, PassesUntaken, Captures, Refused, Taking,
     Arrives, ExchangeReturns, AgentHangsUp, Respond, Forwarded

LEMMA NextTokens == TokenIInv /\ [Next]_vars => TokenIInv'
<1> SUFFICES ASSUME TokenIInv, [Next]_vars PROVE TokenIInv'
  OBVIOUS
<1>0. IInv /\ TableIInv /\ TableIInv'
  BY NextTable DEF TokenIInv, TableIInv
<1>1. ASSUME Next PROVE (Challenges /\ held \ {0} \subseteq Flows /\ TokenOnlyForALostFlow)'
  <2>1. Grows /\ Challenges'
    BY <1>0, <1>1, SequencesGrow, NextChallenges DEF TokenIInv
  <2>2. \/ held' \subseteq held \cup {0}
        \/ \E r \in Redirects : Forwarded(r)
    BY <1>1 DEF Next, AuthorizeCaptured, AuthorizeOversized, AuthorizeUntouched, Stales, NewBroker,
       PassesUntaken, Captures, Refused, Taking, Arrives, ExchangeReturns, AgentHangsUp, Respond
  <2>3. ASSUME NEW n \in Flows,
               \/ n \in held \ {0}
               \/ \E r \in Redirects : /\ redirect[r].flow = n
                                        /\ redirect[r].agent = "code"
                                        /\ flow[n].challenge = "agent"
        PROVE  /\ ~flow[n].fits
               /\ flow[n].at # 0 => \E r \in Redirects : /\ redirect[r].flow = n
                                                         /\ redirect[r].agent = "code"
                                                         /\ Lost(r)
    BY <2>3 DEF TokenIInv, TableIInv, RealCodeOnlyWhenLost, TokenOnlyForALostFlow, Challenges
  <2>4. ASSUME NEW n \in held' \ {0}
        PROVE  /\ n \in Flows
               /\ \/ n \in held \ {0}
                  \/ \E r \in Redirects : /\ redirect[r].flow = n
                                           /\ redirect[r].agent = "code"
                                           /\ flow[n].challenge = "agent"
    BY <1>0, <2>2, <2>4 DEF TokenIInv, Forwarded, IInv, Took
  <2>5. ASSUME NEW n \in held' \ {0}
        PROVE  /\ ~flow'[n].fits
               /\ flow'[n].at # 0 => \E r \in Redirects' : /\ redirect'[r].flow = n
                                                           /\ redirect'[r].agent = "code"
                                                           /\ Lost(r)'
    <3>1. /\ n \in Flows /\ ~flow[n].fits
          /\ flow[n].at # 0 => \E r \in Redirects : /\ redirect[r].flow = n
                                                    /\ redirect[r].agent = "code"
                                                    /\ Lost(r)
      BY <2>3, <2>4
    <3>2. flow'[n].fits = flow[n].fits /\ flow'[n].at = flow[n].at
      BY <2>1, <3>1 DEF Grows
    <3>3. ASSUME NEW r \in Redirects, redirect[r].flow = n, redirect[r].agent = "code", Lost(r)
          PROVE  /\ r \in Redirects' /\ redirect'[r].flow = n
                 /\ redirect'[r].agent = "code" /\ Lost(r)'
      BY <2>1, <3>1, <3>3, LostStays DEF Grows
    <3> QED BY <3>1, <3>2, <3>3
  <2>6. TokenOnlyForALostFlow'
    BY <2>5 DEF TokenOnlyForALostFlow
  <2>7. (held \ {0} \subseteq Flows)'
    BY <2>1, <2>4 DEF Grows
  <2> QED BY <2>1, <2>6, <2>7
<1>2. CASE UNCHANGED vars
  <2>1. UNCHANGED <<flow, redirect, held>> /\ Flows' = Flows /\ Redirects' = Redirects
    BY <1>2 DEF vars, Flows, Redirects
  <2>2. \A r : Lost(r)' = Lost(r)
    BY <2>1 DEF Lost, TakenBefore, NewerThan
  <2>3. Challenges' /\ (held \ {0} \subseteq Flows)'
    BY <2>1 DEF TokenIInv, Challenges
  <2>4. TokenOnlyForALostFlow'
    BY <2>1, <2>2 DEF TokenIInv, TokenOnlyForALostFlow
  <2> QED BY <1>0, <2>3, <2>4 DEF TokenIInv
<1> QED BY <1>0, <1>1, <1>2 DEF TokenIInv

\* A real token reaches the agent only for a flow whose challenge could not be
\* replaced, and of those that were entered only for one the broker had lost,
\* for tables of any size and any number of flows, redirects and brokers.
THEOREM BrokerTokenOnlyForALostFlow == Spec => []TokenOnlyForALostFlow
<1>1. Init => TokenIInv
  BY InitTable DEF Init, TokenIInv, Challenges, TokenOnlyForALostFlow, Flows
<1>2. TokenIInv => TokenOnlyForALostFlow
  BY DEF TokenIInv
<1> QED BY NextTokens, <1>1, <1>2, PTL DEF Spec
=============================================================================

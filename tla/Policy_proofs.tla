--------------------------- MODULE Policy_proofs ----------------------------
(***************************************************************************)
(* Proofs about the policy chain, for chains of any length over any layers, *)
(* and about what concurrent evaluations of its judge layer share.          *)
(***************************************************************************)
EXTENDS PolicyChain, Judge, FiniteSetTheorems, TLAPS

-----------------------------------------------------------------------------
(***************************************************************************)
(* The chain.  The inductive invariant says what the loop knows at its head: *)
(* every layer behind it was skipped or amounts to a pass, so that a return *)
(* at `next` is a return of the first decisive layer.                       *)
(***************************************************************************)

\* Layers before position n do not decide.
NoneBefore(n) ==
  \A i \in Positions(chain) :
    i < n => \/ Skipped(chain, phase, i)
             \/ Effective(chain, i, answers[i], approval) = "pass"

\* The loop invariant of Chain::evaluate.
LoopInv ==
  /\ outcome = NoOutcome => NoneBefore(next)
  /\ asked # 0 => /\ asked = next
                  /\ asked \in Positions(chain)
                  /\ ~Skipped(chain, phase, asked)
                  /\ answers[asked] = "defer"
  /\ outcome # NoOutcome => outcome = Decide(chain, phase, answers, approval)

IInv == TypeOK /\ LoopInv /\ AllowHasASource

-----------------------------------------------------------------------------
\* What a chain in the configuration looks like to the provers.
LEMMA ChainShape ==
  ASSUME NEW c \in Chains
  PROVE  /\ c.layers \in Seq(Layer)
         /\ Len(c.layers) \in Nat
         /\ c.default_action \in Action
         /\ c.warn_only \in BOOLEAN
         /\ \A i \in Positions(c) : c.layers[i] \in Layer
BY ChainsAreChains DEF Chain, Positions

\* Chain::terminate always hands back an Outcome, with the layer it was given.
LEMMA TerminateShape ==
  ASSUME NEW c \in Chains, NEW a \in Action, NEW l \in Nat
  PROVE  /\ Terminate(c, a, l) \in Outcome
         /\ Terminate(c, a, l).layer = l
         /\ Terminate(c, a, l).action = "allow" /\ ~Terminate(c, a, l).would_deny
              => a = "allow"
         /\ Terminate(c, a, l) # NoOutcome
<1>1. c.warn_only \in BOOLEAN
  BY ChainShape
<1>2. CASE a = "deny" /\ c.warn_only
  <2>1. Terminate(c, a, l) = [action |-> "allow", layer |-> l, would_deny |-> TRUE]
    BY <1>2 DEF Terminate
  <2>2. Terminate(c, a, l) \in Outcome
    BY <2>1 DEF Outcome, Action
  <2>3. Terminate(c, a, l) # NoOutcome
    BY <2>2, ChainsAreChains
  <2> QED BY <2>1, <2>2, <2>3
<1>3. CASE ~(a = "deny" /\ c.warn_only)
  <2>1. Terminate(c, a, l) = [action |-> a, layer |-> l, would_deny |-> FALSE]
    BY <1>3 DEF Terminate
  <2>2. Terminate(c, a, l) \in Outcome
    BY <2>1 DEF Outcome
  <2>3. Terminate(c, a, l) # NoOutcome
    BY <2>2, ChainsAreChains
  <2> QED BY <2>1, <2>2, <2>3
<1> QED BY <1>2, <1>3

\* The least element of a set that has one.
LEMMA FirstIsLeast ==
  ASSUME NEW S, NEW n \in S, S \subseteq Nat, \A j \in S : n <= j
  PROVE  First(S) = n
<1>1. First(S) \in S /\ \A j \in S : First(S) <= j
  BY DEF First
<1>2. First(S) <= n /\ n <= First(S) /\ n \in Nat /\ First(S) \in Nat
  BY <1>1
<1> QED
  BY <1>2

\* A return at the first layer that decides is the chain's decision.
LEMMA DecideAt ==
  ASSUME NEW c \in Chains, NEW p \in Phase,
         NEW a \in [Positions(c) -> Answer], NEW d \in DeciderAnswer,
         NEW n \in Positions(c),
         ~Skipped(c, p, n),
         Effective(c, n, a[n], d) # "pass",
         \A i \in Positions(c) :
           i < n => Skipped(c, p, i) \/ Effective(c, i, a[i], d) = "pass"
  PROVE  Decide(c, p, a, d) = Terminate(c, Effective(c, n, a[n], d), n)
<1> DEFINE D == Decisive(c, p, a, d)
<1>1. n \in D
  BY DEF Decisive
<1>2. D \subseteq Nat /\ \A j \in D : n <= j
  BY ChainShape DEF Decisive, Positions
<1>3. First(D) = n
  <2> HIDE DEF D
  <2> QED BY <1>1, <1>2, FirstIsLeast
<1>4. D # {}
  BY <1>1
<1>5. QED
  BY <1>3, <1>4 DEF Decide

\* When nothing decides, the default does.
LEMMA DecideDefault ==
  ASSUME NEW c \in Chains, NEW p \in Phase,
         NEW a \in [Positions(c) -> Answer], NEW d \in DeciderAnswer,
         \A i \in Positions(c) :
           Skipped(c, p, i) \/ Effective(c, i, a[i], d) = "pass"
  PROVE  Decide(c, p, a, d) = Terminate(c, c.default_action, DefaultAction)
BY DEF Decide, Decisive

-----------------------------------------------------------------------------
LEMMA InitIInv == Init => IInv
<1> SUFFICES ASSUME Init PROVE IInv
  OBVIOUS
<1>1. TypeOK
  BY ChainShape DEF Init, TypeOK
<1>2. LoopInv
  BY ChainShape DEF Init, LoopInv, NoneBefore, Positions
<1>3. AllowHasASource
  BY DEF Init, AllowHasASource
<1> QED BY <1>1, <1>2, <1>3 DEF IInv

\* Moving past a layer that does not decide keeps the loop invariant.
LEMMA AdvanceIInv ==
  ASSUME IInv, Running, next \in Positions(chain),
         \/ Skipped(chain, phase, next)
         \/ Effective(chain, next, answers[next], approval) = "pass",
         next' = next + 1, UNCHANGED <<inputs, outcome, asked>>,
         trail' \in Seq(TrailEntry)
  PROVE  IInv'
<1>1. TypeOK'
  BY ChainShape DEF IInv, TypeOK, inputs, Positions
<1>2. LoopInv'
  BY ChainShape DEF IInv, TypeOK, LoopInv, NoneBefore, inputs, Positions, Running
<1>3. AllowHasASource'
  BY DEF Running, AllowHasASource
<1> QED BY <1>1, <1>2, <1>3 DEF IInv

\* Returning at the layer the loop is at keeps it too.
LEMMA ReturnIInv ==
  ASSUME IInv, outcome = NoOutcome, next \in Positions(chain),
         ~Skipped(chain, phase, next),
         NEW act \in Action,
         act = Effective(chain, next, answers[next], approval),
         outcome' = Terminate(chain, act, next),
         UNCHANGED <<inputs, next, asked>>,
         trail' \in Seq(TrailEntry)
  PROVE  IInv'
<1>1. Decide(chain, phase, answers, approval) = Terminate(chain, act, next)
  BY DecideAt DEF IInv, TypeOK, LoopInv, NoneBefore, Action
<1>2. outcome' \in Outcome /\ outcome' # NoOutcome
  BY TerminateShape, ChainShape DEF IInv, TypeOK, Positions
<1>3. TypeOK'
  BY <1>2 DEF IInv, TypeOK, inputs
<1>4. LoopInv'
  BY <1>1, <1>2 DEF IInv, LoopInv, inputs
<1>5. AllowHasASource'
  <2>1. /\ outcome'.layer = next
        /\ outcome'.action = "allow" /\ ~outcome'.would_deny => act = "allow"
    BY TerminateShape, ChainShape DEF IInv, TypeOK, Positions
  <2> QED BY <2>1 DEF AllowHasASource, inputs
<1> QED BY <1>3, <1>4, <1>5 DEF IInv

LEMMA NextIInv == IInv /\ [Next]_vars => IInv'
<1> SUFFICES ASSUME IInv, [Next]_vars PROVE IInv'
  OBVIOUS
<1>0. /\ chain \in Chains /\ answers \in [Positions(chain) -> Answer]
      /\ trail \in Seq(TrailEntry) /\ next \in Nat
  BY ChainShape DEF IInv, TypeOK
<1>a. ASSUME NEW v \in Answer, PushOutcome(v) PROVE trail' \in Seq(TrailEntry)
  BY <1>a, <1>0 DEF PushOutcome, TrailEntry
<1>1. CASE SkipLayer
  BY <1>0, <1>1, AdvanceIInv DEF SkipLayer
<1>2. CASE LayerErrors
  <2>1. trail' \in Seq(TrailEntry)
    BY <1>a, <1>2 DEF LayerErrors, Answer
  <2>2. Effective(chain, next, answers[next], approval) = OnError[chain.layers[next]]
    BY <1>2 DEF LayerErrors, Effective
  <2>3. OnError[chain.layers[next]] \in FailureMode
    BY <1>0, <1>2, ChainShape, LayerFunctions DEF LayerErrors, Consulting
  <2>4. CASE OnError[chain.layers[next]] = "pass"
    BY <1>2, <2>1, <2>2, <2>4, AdvanceIInv DEF LayerErrors, Consulting
  <2>5. CASE OnError[chain.layers[next]] # "pass"
    <3>1. OnError[chain.layers[next]] \in Action
      BY <2>3, <2>5 DEF FailureMode, Action
    <3>2. QED
      BY <1>2, <2>1, <2>2, <2>5, <3>1, ReturnIInv
         DEF LayerErrors, Consulting, Running, Return
  <2> QED BY <2>4, <2>5
<1>3. CASE LayerDecides
  <2>1. trail' \in Seq(TrailEntry)
    BY <1>a, <1>3 DEF LayerDecides, Answer
  <2>2. Effective(chain, next, answers[next], approval) = answers[next]
    BY <1>3 DEF LayerDecides, Effective
  <2> QED
    BY <1>3, <2>1, <2>2, ReturnIInv DEF LayerDecides, Consulting, Running, Return, Action
<1>4. CASE LayerPasses
  <2>1. trail' \in Seq(TrailEntry)
    BY <1>a, <1>4 DEF LayerPasses, Answer
  <2>2. Effective(chain, next, answers[next], approval) = "pass"
    BY <1>4 DEF LayerPasses, Effective
  <2> QED
    BY <1>4, <2>1, <2>2, AdvanceIInv DEF LayerPasses, Consulting
<1>5. CASE LayerDefers
  <2>1. trail' \in Seq(TrailEntry)
    BY <1>a, <1>5 DEF LayerDefers, Answer
  <2>2. TypeOK'
    BY <1>0, <1>5, <2>1, ChainShape
       DEF LayerDefers, Consulting, IInv, TypeOK, inputs, Positions
  <2>3. LoopInv'
    BY <1>0, <1>5, ChainShape
       DEF LayerDefers, Consulting, Running, IInv, TypeOK, LoopInv, NoneBefore, inputs,
           Positions, Skipped
  <2>4. AllowHasASource'
    BY <1>5 DEF LayerDefers, Consulting, Running, AllowHasASource
  <2> QED BY <2>2, <2>3, <2>4 DEF IInv
<1>6. CASE DeciderAnswers
  <2>1. /\ next \in Positions(chain) /\ asked = next /\ ~Skipped(chain, phase, next)
        /\ answers[next] = "defer"
    BY <1>6 DEF DeciderAnswers, IInv, LoopInv
  <2> DEFINE act == IF approval \in {"allow", "deny"} THEN approval ELSE "deny"
  <2>2. act \in Action
    BY DEF Action
  <2>3. act = Effective(chain, next, answers[next], approval)
    BY <2>1 DEF Effective
  <2>4. outcome' = Terminate(chain, act, next)
    BY <1>6, <2>1 DEF DeciderAnswers, Return
  <2>5. /\ outcome = NoOutcome /\ UNCHANGED <<inputs, next, asked>>
        /\ trail' \in Seq(TrailEntry)
    BY <1>0, <1>6 DEF DeciderAnswers
  <2> HIDE DEF act
  <2> QED BY <2>1, <2>2, <2>3, <2>4, <2>5, ReturnIInv
<1>7. CASE EveryLayerPassed
  <2>1. outcome' = Terminate(chain, chain.default_action, DefaultAction)
    BY <1>7 DEF EveryLayerPassed, Return
  <2>2. \A i \in Positions(chain) :
          Skipped(chain, phase, i) \/ Effective(chain, i, answers[i], approval) = "pass"
    BY <1>0, <1>7, ChainShape
       DEF EveryLayerPassed, Running, IInv, TypeOK, LoopInv, NoneBefore, Positions
  <2>3. Decide(chain, phase, answers, approval)
          = Terminate(chain, chain.default_action, DefaultAction)
    BY <2>2, DecideDefault DEF IInv, TypeOK
  <2>4. outcome' \in Outcome /\ outcome' # NoOutcome
    BY <1>0, <2>1, TerminateShape, ChainShape DEF DefaultAction
  <2>5. TypeOK'
    BY <1>7, <2>4 DEF EveryLayerPassed, IInv, TypeOK, inputs
  <2>6. LoopInv'
    BY <1>7, <2>1, <2>3, <2>4 DEF EveryLayerPassed, IInv, LoopInv, inputs
  <2>7. AllowHasASource'
    <3>1. outcome'.action = "allow" /\ ~outcome'.would_deny => chain.default_action = "allow"
      BY <1>0, <2>1, TerminateShape, ChainShape DEF DefaultAction
    <3>2. outcome'.layer = DefaultAction
      BY <1>0, <2>1, TerminateShape, ChainShape DEF DefaultAction
    <3> QED BY <1>7, <2>2, <3>1, <3>2 DEF EveryLayerPassed, AllowHasASource, inputs
  <2> QED BY <2>5, <2>6, <2>7 DEF IInv
<1>8. CASE UNCHANGED vars
  <2>1. TypeOK'
    BY <1>8 DEF IInv, TypeOK, vars, inputs
  <2>2. LoopInv'
    BY <1>8 DEF IInv, LoopInv, NoneBefore, vars, inputs
  <2>3. AllowHasASource'
    BY <1>8 DEF IInv, AllowHasASource, vars, inputs
  <2> QED BY <2>1, <2>2, <2>3 DEF IInv
<1> QED
  BY <1>1, <1>2, <1>3, <1>4, <1>5, <1>6, <1>7, <1>8 DEF Next

\* Type correctness of the chain runner, for chains of any length.
THEOREM ChainTypeCorrect == Spec => []TypeOK
<1>1. IInv => TypeOK
  BY DEF IInv
<1> QED BY <1>1, InitIInv, NextIInv, PTL DEF Spec

\* Nothing becomes an allow by accident, whatever the layers, their failure
\* modes and the decider say.
THEOREM ChainAllowHasASource == Spec => []AllowHasASource
<1>1. IInv => AllowHasASource
  BY DEF IInv
<1> QED BY <1>1, InitIInv, NextIInv, PTL DEF Spec

\* The loop of Chain::evaluate implements the one-step promise of ChainSpec:
\* the only step that changes the outcome sets it, once, to the decision of
\* the first decisive layer.
THEOREM ChainImplementsPromise == Spec => ImplementsPromise
<1>1. Init => Promise!Init
  BY DEF Init, Promise!Init, Promise!Phase, Phase, Promise!Positions, Positions,
         Promise!Answer, Answer, Promise!DeciderAnswer, DeciderAnswer
<1>2. IInv /\ IInv' /\ [Next]_vars => [Promise!Next]_(Promise!vars)
  <2> SUFFICES ASSUME IInv, IInv', [Next]_vars
               PROVE  Promise!Next \/ UNCHANGED Promise!vars
    OBVIOUS
  <2>1. UNCHANGED inputs
    BY DEF Next, vars, SkipLayer, LayerErrors, LayerDecides, LayerPasses, LayerDefers,
           DeciderAnswers, EveryLayerPassed
  <2>2. CASE outcome' = outcome
    BY <2>1, <2>2 DEF Promise!vars, Promise!inputs, inputs
  <2>3. CASE outcome' # outcome
    <3>1. outcome = NoOutcome
      BY <2>3 DEF Next, vars, SkipLayer, LayerErrors, LayerDecides, LayerPasses,
                  LayerDefers, DeciderAnswers, EveryLayerPassed, Consulting, Running
    <3>2. outcome' = Decide(chain, phase, answers, approval)
      BY <2>1, <2>3, <3>1 DEF IInv, LoopInv, inputs
    <3>3. outcome' = Promise!Decide(chain, phase, answers, approval)
      BY <3>2 DEF Decide, Decisive, First, Terminate, Effective, Skipped, Positions,
                  DefaultAction, Promise!Decide, Promise!Decisive, Promise!First,
                  Promise!Terminate, Promise!Effective, Promise!Skipped,
                  Promise!Positions, Promise!DefaultAction
    <3> QED
      BY <2>1, <3>1, <3>3 DEF Promise!Next, Promise!Answers, Promise!inputs, inputs
  <2> QED BY <2>2, <2>3
<1> QED
  BY <1>1, <1>2, InitIInv, NextIInv, PTL DEF Spec, ImplementsPromise, Promise!Spec

-----------------------------------------------------------------------------
(* The audit trail. *)

\* Trail t tells of the layers up to `last`, as TrailIsComplete asks.
Tells(t, c, p, a, last) ==
  /\ {t[k].layer : k \in DOMAIN t} = {i \in 1 .. last : ~Skipped(c, p, i)}
  /\ \A k \in DOMAIN t : t[k].verdict = a[t[k].layer]
  /\ \A k, l \in DOMAIN t : k < l => t[k].layer < t[l].layer

\* A layer that is skipped leaves no entry, and none is missing for it.
LEMMA TellsPastSkipped ==
  ASSUME NEW t, NEW c, NEW p, NEW a, NEW n \in Nat \ {0},
         Tells(t, c, p, a, n - 1), Skipped(c, p, n)
  PROVE  Tells(t, c, p, a, n)
<1>1. {i \in 1 .. n : ~Skipped(c, p, i)} = {i \in 1 .. n - 1 : ~Skipped(c, p, i)}
  OBVIOUS
<1> QED BY <1>1 DEF Tells

\* A layer that is consulted adds its own entry after those of its predecessors.
LEMMA TellsOneMore ==
  ASSUME NEW t \in Seq(TrailEntry), NEW c, NEW p, NEW a, NEW n \in Nat \ {0},
         a[n] \in Answer, Tells(t, c, p, a, n - 1), ~Skipped(c, p, n)
  PROVE  Tells(Append(t, [layer |-> n, verdict |-> a[n]]), c, p, a, n)
<1> DEFINE e == [layer |-> n, verdict |-> a[n]]
           u == Append(t, e)
<1>1. /\ Len(t) \in Nat /\ DOMAIN t = 1 .. Len(t)
      /\ DOMAIN u = DOMAIN t \union {Len(t) + 1}
      /\ \A k \in DOMAIN t : u[k] = t[k] /\ t[k].layer \in Nat
      /\ u[Len(t) + 1] = e
  <2>1. e \in TrailEntry
    BY DEF TrailEntry
  <2>2. ASSUME NEW k \in DOMAIN t
        PROVE  t[k].layer \in Nat
    <3>1. t[k] \in TrailEntry
      OBVIOUS
    <3> QED BY <3>1 DEF TrailEntry
  <2> HIDE DEF e
  <2> QED BY <2>1, <2>2
<1>2. e.layer = n /\ e.verdict = a[n]
  OBVIOUS
<1> HIDE DEF e, u
<1>3. {u[k].layer : k \in DOMAIN u} = {t[k].layer : k \in DOMAIN t} \union {n}
  BY <1>1, <1>2
<1>4. {i \in 1 .. n : ~Skipped(c, p, i)} = {i \in 1 .. n - 1 : ~Skipped(c, p, i)} \union {n}
  OBVIOUS
<1>5. \A k \in DOMAIN t : t[k].layer \in 1 .. n - 1
  BY DEF Tells
<1>6. \A k \in DOMAIN u : u[k].verdict = a[u[k].layer]
  BY <1>1, <1>2 DEF Tells
<1>7. ASSUME NEW k \in DOMAIN u, NEW l \in DOMAIN u, k < l
      PROVE  u[k].layer < u[l].layer
  <2>1. CASE l \in DOMAIN t
    BY <1>1, <1>7, <2>1 DEF Tells
  <2>2. CASE l \notin DOMAIN t
    <3>1. k \in DOMAIN t /\ u[l].layer = n
      BY <1>1, <1>2, <1>7, <2>2
    <3>2. u[k].layer \in 1 .. n - 1
      BY <1>1, <1>5, <3>1
    <3> QED BY <3>1, <3>2
  <2> QED BY <2>1, <2>2
<1>8. Tells(u, c, p, a, n)
  BY <1>3, <1>4, <1>6, <1>7 DEF Tells
<1> QED BY <1>8 DEF u, e

\* What the trail tells at each point of the loop.
TrailSoFar ==
  outcome = NoOutcome =>
    Tells(trail, chain, phase, answers, IF asked = 0 THEN next - 1 ELSE next)

TrailIInv == IInv /\ TrailSoFar /\ TrailIsComplete

LEMMA InitTrail == Init => TrailIInv
<1> SUFFICES ASSUME Init PROVE TrailIInv
  OBVIOUS
<1>1. {trail[k].layer : k \in DOMAIN trail} = {} /\ DOMAIN trail = {}
  BY DEF Init
<1>2. {i \in 1 .. next - 1 : ~Skipped(chain, phase, i)} = {}
  BY DEF Init
<1>3. TrailSoFar
  BY <1>1, <1>2 DEF Init, TrailSoFar, Tells
<1> QED BY <1>3, InitIInv DEF TrailIInv, TrailIsComplete, Init

\* A return hands over the trail as it stands at the layer that decided, or at
\* the end of the chain.
LEMMA ReturnTrail ==
  ASSUME IInv, NEW last \in Nat, NEW layer \in Nat, NEW act \in Action,
         outcome' = Terminate(chain, act, layer), UNCHANGED inputs,
         last = IF layer = DefaultAction THEN Len(chain.layers) ELSE layer,
         Tells(trail', chain, phase, answers, last)
  PROVE  (TrailSoFar /\ TrailIsComplete)'
<1>1. outcome'.layer = layer /\ outcome' # NoOutcome
  BY TerminateShape DEF IInv, TypeOK
<1>2. TrailIsComplete'
  BY <1>1 DEF TrailIsComplete, Tells, inputs
<1> QED BY <1>1, <1>2 DEF TrailSoFar

LEMMA NextTrail == TrailIInv /\ [Next]_vars => TrailIInv'
<1> SUFFICES ASSUME TrailIInv, [Next]_vars PROVE (TrailSoFar /\ TrailIsComplete)'
  BY NextIInv DEF TrailIInv
<1>0. /\ IInv /\ TrailSoFar /\ next \in Nat \ {0} /\ trail \in Seq(TrailEntry)
      /\ answers \in [Positions(chain) -> Answer] /\ chain \in Chains
      /\ Len(chain.layers) \in Nat
  BY ChainShape DEF TrailIInv, IInv, TypeOK
<1>1. CASE SkipLayer
  <2>1. Tells(trail, chain, phase, answers, next)
    BY <1>0, <1>1, TellsPastSkipped DEF SkipLayer, Running, TrailSoFar
  <2> QED BY <1>0, <1>1, <2>1 DEF SkipLayer, Running, TrailSoFar, TrailIsComplete, inputs
<1>2. ASSUME Consulting, PushOutcome(answers[next])
      PROVE  Tells(trail', chain, phase, answers, next)
  BY <1>0, <1>2, TellsOneMore DEF Consulting, Running, PushOutcome, TrailSoFar
<1>3. next \in Positions(chain) => next # DefaultAction
  BY <1>0 DEF DefaultAction
<1>4. CASE LayerErrors
  <2>1. Tells(trail', chain, phase, answers, next)
    BY <1>2, <1>4 DEF LayerErrors
  <2>2. CASE OnError[chain.layers[next]] = "pass"
    BY <1>0, <1>4, <2>1, <2>2 DEF LayerErrors, Consulting, Running, TrailSoFar,
         TrailIsComplete, inputs
  <2>3. CASE OnError[chain.layers[next]] # "pass"
    <3>1. OnError[chain.layers[next]] \in Action
      BY <1>0, <1>4, <2>3, ChainShape, LayerFunctions
         DEF LayerErrors, Consulting, FailureMode, Action
    <3> QED BY <1>0, <1>3, <1>4, <2>1, <2>3, <3>1, ReturnTrail DEF LayerErrors, Return, Consulting
  <2> QED BY <2>2, <2>3
<1>5. CASE LayerDecides
  <2>1. Tells(trail', chain, phase, answers, next)
    BY <1>2, <1>5 DEF LayerDecides
  <2> QED BY <1>0, <1>3, <1>5, <2>1, ReturnTrail DEF LayerDecides, Return, Consulting, Action
<1>6. CASE LayerPasses
  <2>1. Tells(trail', chain, phase, answers, next)
    BY <1>2, <1>6 DEF LayerPasses
  <2> QED BY <1>0, <1>6, <2>1 DEF LayerPasses, Consulting, Running, TrailSoFar,
            TrailIsComplete, inputs
<1>7. CASE LayerDefers
  <2>1. Tells(trail', chain, phase, answers, next)
    BY <1>2, <1>7 DEF LayerDefers
  <2> QED BY <1>0, <1>7, <2>1 DEF LayerDefers, Consulting, Running, TrailSoFar,
            TrailIsComplete, inputs
<1>8. CASE DeciderAnswers
  <2>1. /\ asked = next /\ next \in Positions(chain)
        /\ Tells(trail', chain, phase, answers, next)
    BY <1>0, <1>8 DEF DeciderAnswers, IInv, LoopInv, TrailSoFar
  <2> DEFINE act == IF approval \in {"allow", "deny"} THEN approval ELSE "deny"
  <2>2. act \in Action
    BY DEF Action
  <2>3. outcome' = Terminate(chain, act, next) /\ UNCHANGED inputs
    BY <1>8, <2>1 DEF DeciderAnswers, Return
  <2> HIDE DEF act
  <2> QED BY <1>0, <1>3, <2>1, <2>2, <2>3, ReturnTrail
<1>9. CASE EveryLayerPassed
  <2>1. next - 1 = Len(chain.layers)
    BY <1>0, <1>9, ChainShape DEF EveryLayerPassed, Positions, IInv, TypeOK
  <2>2. Tells(trail', chain, phase, answers, Len(chain.layers))
    BY <1>0, <1>9, <2>1 DEF EveryLayerPassed, Running, TrailSoFar
  <2>3. /\ outcome' = Terminate(chain, chain.default_action, DefaultAction)
        /\ UNCHANGED inputs /\ chain.default_action \in Action /\ DefaultAction \in Nat
    BY <1>0, <1>9, ChainShape DEF EveryLayerPassed, Return, DefaultAction
  <2> QED BY <1>0, <2>2, <2>3, ReturnTrail
<1>10. CASE UNCHANGED vars
  BY <1>0, <1>10 DEF vars, inputs, TrailIInv, TrailSoFar, TrailIsComplete
<1> QED
  BY <1>1, <1>4, <1>5, <1>6, <1>7, <1>8, <1>9, <1>10 DEF Next

\* For chains of any length the evidence of a verdict is the layers of its
\* phase up to the one that decided, in order, each with what it said.
THEOREM ChainTrailIsComplete == Spec => []TrailIsComplete
<1>1. TrailIInv => TrailIsComplete
  BY DEF TrailIInv
<1> QED BY <1>1, InitTrail, NextTrail, PTL DEF Spec

-----------------------------------------------------------------------------
(***************************************************************************)
(* The judge layer, for any number of requests and cache keys, any          *)
(* threshold, any number of permits, and with or without a timeout.         *)
(*                                                                          *)
(* The permits add up because every step that enters or leaves the part of  *)
(* evaluate() that holds one moves exactly one request; the cache and the   *)
(* answers are the provider's because of what a request has heard before    *)
(* it writes either; a failed probe reopens because the streak that opened  *)
(* the breaker still counts for as long as there is a probe.                *)
(***************************************************************************)

\* The requests that have a permit.
Holders == {r \in Req : pc[r] \in Holding}

\* A request that has had its answer from the provider carries it.
HeardFirst ==
  \A r \in Req : pc[r] \in {"succeeded", "closing", "caching"} => <<KeyOf[r], heard[r]>> \in said

\* The mode a failure will be answered with is one that is configured.
ModeIsDeclared ==
  \A r \in Req : mode[r] = OnErrorMode \/ (HasTimeout /\ mode[r] = OnTimeoutMode)

\* While there is a probe, the streak that opened the breaker still counts.
StreakStands == probing # {} => failures >= Threshold

\* JudgeTypeOK but for the upper bound of the permits, which follows from the sum.
Typed ==
  /\ pc \in [Req -> PC]
  /\ mode \in [Req -> Verdict]
  /\ heard \in [Req -> Verdict \union {None}]
  /\ answer \in [Req -> Verdict \union {None}]
  /\ cache \in [Key -> Verdict \union {None}]
  /\ available \in Nat
  /\ failures \in Nat
  /\ opened \in {"closed", "cooling", "elapsed"}
  /\ said \in SUBSET (Key \X Verdict)
  /\ probing \in SUBSET Req

Sources == Typed /\ CacheIsTheProviders /\ AnswerHasASource /\ HeardFirst /\ ModeIsDeclared

JudgeIInv == Sources /\ StreakStands /\ PermitsAddUp

-----------------------------------------------------------------------------
(* The permits. *)

LEMMA HoldersFinite == IsFiniteSet(Holders) /\ Cardinality(Holders) \in Nat
  <1>1. IsFiniteSet(Req) /\ Holders \in SUBSET Req
    BY JudgeConfig DEF Holders
  <1> QED
    BY <1>1, FS_Subset, FS_CardinalityType

\* A request that gets its permit takes one from the semaphore.
LEMMA Enters ==
  ASSUME PermitsAddUp, Typed, NEW r \in Req, NEW to \in Holding, pc[r] \notin Holding,
         pc' = [pc EXCEPT ![r] = to], available' = available - 1
  PROVE  PermitsAddUp'
  <1>1. Holders' = Holders \cup {r} /\ r \notin Holders
    BY DEF Holders, Typed
  <1>2. Cardinality(Holders') = Cardinality(Holders) + 1
    BY <1>1, HoldersFinite, FS_AddElement
  <1> QED
    BY <1>2, HoldersFinite, JudgeConfig DEF PermitsAddUp, Typed, Holders

\* A request that ends, one way or another, gives its permit back.
LEMMA Leaves ==
  ASSUME PermitsAddUp, Typed, NEW r \in Req, NEW to \in PC \ Holding, pc[r] \in Holding,
         pc' = [pc EXCEPT ![r] = to], available' = available + 1
  PROVE  PermitsAddUp'
  <1>1. Holders' = Holders \ {r} /\ r \in Holders
    BY DEF Holders, Typed
  <1>2. Cardinality(Holders') = Cardinality(Holders) - 1
    BY <1>1, HoldersFinite, FS_RemoveElement
  <1> QED
    BY <1>2, HoldersFinite, JudgeConfig DEF PermitsAddUp, Typed, Holders

\* Every other step stays on its side.
LEMMA Stays ==
  ASSUME PermitsAddUp, Typed, NEW r \in Req, NEW to, to \in Holding <=> pc[r] \in Holding,
         pc' = [pc EXCEPT ![r] = to], available' = available
  PROVE  PermitsAddUp'
  <1>1. Holders' = Holders
    BY DEF Holders, Typed
  <1> QED
    BY <1>1 DEF PermitsAddUp, Holders

LEMMA Enough ==
  ASSUME PermitsAddUp, Typed
  PROVE  available \in 0 .. MaxConcurrent
  BY HoldersFinite, JudgeConfig DEF PermitsAddUp, Typed, Holders

LEMMA PermitsStep ==
  ASSUME PermitsAddUp, Typed, [JudgeNext]_judgeVars
  PROVE  PermitsAddUp'
  <1> USE DEF Goto, ReturnVerdict, Release, Holding, Done, Awaits, PC
  <1>1. ASSUME NEW r \in Req, OutOfScope(r) \/ CacheHit(r) \/ BreakerRefuses(r)
        PROVE  PermitsAddUp'
    BY <1>1, Stays DEF OutOfScope, CacheHit, BreakerRefuses
  <1>2. ASSUME NEW r \in Req, CacheMiss(r) \/ BreakerAdmits(r)
        PROVE  PermitsAddUp'
    BY <1>2, Stays DEF CacheMiss, BreakerAdmits
  <1>3. ASSUME NEW r \in Req, Acquire(r)
        PROVE  PermitsAddUp'
    BY <1>3, Enters DEF Acquire
  <1>4. ASSUME NEW r \in Req, CallTimesOut(r) \/ CallFails(r) \/ (\E v \in Verdict : CallSucceeds(r, v))
        PROVE  PermitsAddUp'
    BY <1>4, Stays DEF CallTimesOut, CallFails, CallSucceeds
  <1>5. ASSUME NEW r \in Req, CountFailure(r)
        PROVE  PermitsAddUp'
    <2>1. CASE failures + 1 >= Threshold
      BY <1>5, <2>1, Stays DEF CountFailure
    <2>2. CASE ~(failures + 1 >= Threshold)
      BY <1>5, <2>2, Leaves DEF CountFailure
    <2> QED
      BY <2>1, <2>2
  <1>6. ASSUME NEW r \in Req, Trip(r) \/ CacheVerdict(r)
        PROVE  PermitsAddUp'
    BY <1>6, Leaves DEF Trip, CacheVerdict
  <1>7. ASSUME NEW r \in Req, ResetStreak(r) \/ CloseBreaker(r)
        PROVE  PermitsAddUp'
    BY <1>7, Stays DEF ResetStreak, CloseBreaker
  <1>8. ASSUME NEW r \in Req, ClientGone(r)
        PROVE  PermitsAddUp'
    <2>1. CASE pc[r] \in Holding
      BY <1>8, <2>1, Leaves DEF ClientGone
    <2>2. CASE pc[r] \notin Holding
      BY <1>8, <2>2, Stays DEF ClientGone
    <2> QED
      BY <2>1, <2>2
  <1>9. CASE CooldownElapses \/ (\E k \in Key : Evicts(k)) \/ UNCHANGED judgeVars
    BY <1>9 DEF CooldownElapses, Evicts, PermitsAddUp, judgeVars
  <1> QED
    BY <1>1, <1>2, <1>3, <1>4, <1>5, <1>6, <1>7, <1>8, <1>9 DEF JudgeNext, Polls, Provider

-----------------------------------------------------------------------------
(* The cache, the answers and the streak. *)

LEMMA JudgeInitIInv == JudgeInit => JudgeIInv
  <1> SUFFICES ASSUME JudgeInit PROVE JudgeIInv
    OBVIOUS
  <1>1. Typed
    BY JudgeConfig DEF JudgeInit, Typed, PC, Holding, Done, Verdict
  <1>2. CacheIsTheProviders /\ AnswerHasASource /\ HeardFirst /\ ModeIsDeclared
    BY DEF JudgeInit, CacheIsTheProviders, AnswerHasASource, HeardFirst, ModeIsDeclared
  <1>3. StreakStands
    BY DEF JudgeInit, StreakStands
  <1>4. Holders = {}
    BY DEF JudgeInit, Holders, Holding
  <1>5. PermitsAddUp
    <2>1. Cardinality({}) = 0
      BY FS_EmptySet
    <2>2. PermitsAddUp <=> available + Cardinality(Holders) = MaxConcurrent
      BY DEF PermitsAddUp, Holders
    <2>3. available = MaxConcurrent /\ MaxConcurrent \in Nat
      BY JudgeConfig DEF JudgeInit
    <2> QED
      BY <1>4, <2>1, <2>2, <2>3
  <1> QED
    BY <1>1, <1>2, <1>3, <1>5 DEF JudgeIInv, Sources

LEMMA SourcesStep ==
  ASSUME Sources, [JudgeNext]_judgeVars
  PROVE  Sources'
  <1> USE JudgeConfig DEF Sources, Typed, Goto, ReturnVerdict, breaker
  <1>1. ASSUME NEW r \in Req, OutOfScope(r)
        PROVE  Sources'
    BY <1>1 DEF OutOfScope, CacheIsTheProviders, AnswerHasASource, HeardFirst, ModeIsDeclared,
         PC, Holding, Done, Verdict
  <1>2. ASSUME NEW r \in Req, CacheHit(r)
        PROVE  Sources'
    BY <1>2 DEF CacheHit, CacheIsTheProviders, AnswerHasASource, HeardFirst, ModeIsDeclared,
         PC, Holding, Done, Verdict
  <1>3. ASSUME NEW r \in Req, CacheMiss(r)
        PROVE  Sources'
    BY <1>3 DEF CacheMiss, CacheIsTheProviders, AnswerHasASource, HeardFirst, ModeIsDeclared,
         PC, Holding, Done
  <1>4. ASSUME NEW r \in Req, BreakerRefuses(r)
        PROVE  Sources'
    BY <1>4 DEF BreakerRefuses, CacheIsTheProviders, AnswerHasASource, HeardFirst, ModeIsDeclared,
         PC, Holding, Done
  <1>5. ASSUME NEW r \in Req, BreakerAdmits(r)
        PROVE  Sources'
    BY <1>5 DEF BreakerAdmits, Probes, CacheIsTheProviders, AnswerHasASource, HeardFirst,
         ModeIsDeclared, PC, Holding, Done
  <1>6. ASSUME NEW r \in Req, Acquire(r)
        PROVE  Sources'
    BY <1>6 DEF Acquire, CacheIsTheProviders, AnswerHasASource, HeardFirst, ModeIsDeclared,
         PC, Holding, Done
  <1>7. ASSUME NEW r \in Req, CallTimesOut(r) \/ CallFails(r)
        PROVE  Sources'
    BY <1>7 DEF CallTimesOut, CallFails, CacheIsTheProviders, AnswerHasASource, HeardFirst,
         ModeIsDeclared, PC, Holding, Done
  <1>8. ASSUME NEW r \in Req, NEW v \in Verdict, CallSucceeds(r, v)
        PROVE  Sources'
    BY <1>8 DEF CallSucceeds, CacheIsTheProviders, AnswerHasASource, HeardFirst, ModeIsDeclared,
         PC, Holding, Done
  <1>9. ASSUME NEW r \in Req, CountFailure(r)
        PROVE  Sources'
    BY <1>9 DEF CountFailure, Release, CacheIsTheProviders, AnswerHasASource, HeardFirst,
         ModeIsDeclared, PC, Holding, Done
  <1>10. ASSUME NEW r \in Req, Trip(r)
         PROVE  Sources'
    BY <1>10 DEF Trip, Release, CacheIsTheProviders, AnswerHasASource, HeardFirst,
         ModeIsDeclared, PC, Holding, Done
  <1>11. ASSUME NEW r \in Req, ResetStreak(r) \/ CloseBreaker(r)
         PROVE  Sources'
    BY <1>11 DEF ResetStreak, CloseBreaker, CacheIsTheProviders, AnswerHasASource, HeardFirst,
         ModeIsDeclared, PC, Holding, Done
  <1>12. ASSUME NEW r \in Req, CacheVerdict(r)
         PROVE  Sources'
    <2>1. <<KeyOf[r], heard[r]>> \in said /\ heard[r] \in Verdict /\ KeyOf[r] \in Key
      BY <1>12 DEF CacheVerdict, HeardFirst
    <2> QED
      BY <1>12, <2>1 DEF CacheVerdict, Release, CacheIsTheProviders, AnswerHasASource, HeardFirst,
           ModeIsDeclared, PC, Holding, Done
  <1>13. ASSUME NEW r \in Req, ClientGone(r)
         PROVE  Sources'
    BY <1>13 DEF ClientGone, Release, CacheIsTheProviders, AnswerHasASource, HeardFirst,
         ModeIsDeclared, PC, Holding, Done
  <1>14. CASE CooldownElapses \/ (\E k \in Key : Evicts(k))
    BY <1>14 DEF CooldownElapses, Evicts, CacheIsTheProviders, AnswerHasASource, HeardFirst,
         ModeIsDeclared
  <1>15. CASE UNCHANGED judgeVars
    BY <1>15 DEF judgeVars, CacheIsTheProviders, AnswerHasASource, HeardFirst, ModeIsDeclared
  <1> QED
    BY <1>1, <1>2, <1>3, <1>4, <1>5, <1>6, <1>7, <1>8, <1>9, <1>10, <1>11, <1>12, <1>13, <1>14,
       <1>15 DEF JudgeNext, Polls, Provider

LEMMA StreakStep ==
  ASSUME Typed, StreakStands, [JudgeNext]_judgeVars
  PROVE  StreakStands'
  <1> USE JudgeConfig DEF StreakStands, Typed, breaker
  <1>1. ASSUME NEW r \in Req, BreakerAdmits(r)
        PROVE  StreakStands'
    BY <1>1 DEF BreakerAdmits, Probes
  <1>2. ASSUME NEW r \in Req, CountFailure(r)
        PROVE  StreakStands'
    BY <1>2 DEF CountFailure
  <1>3. ASSUME NEW r \in Req, ResetStreak(r)
        PROVE  StreakStands'
    BY <1>3 DEF ResetStreak
  <1>4. CASE UNCHANGED <<failures, probing>>
    BY <1>4
  <1> QED
    BY <1>1, <1>2, <1>3, <1>4 DEF JudgeNext, Polls, Provider, OutOfScope, CacheHit, CacheMiss,
       BreakerRefuses, Acquire, CallTimesOut, CallFails, CallSucceeds, Trip, CloseBreaker,
       CacheVerdict, ClientGone, CooldownElapses, Evicts, judgeVars

\* The invariant behind both theorems: types, sources, the streak and the sum.
THEOREM JudgeInvariant == JudgeSpec => []JudgeIInv
  <1>1. JudgeIInv /\ [JudgeNext]_judgeVars => JudgeIInv'
    BY SourcesStep, StreakStep, PermitsStep DEF JudgeIInv, Sources
  <1> QED
    BY <1>1, JudgeInitIInv, PTL DEF JudgeSpec

\* In every order in which the steps of concurrent evaluations can fall, no
\* permit is leaked or returned twice (Judge::evaluate, the semaphore), only
\* the provider's verdicts are cached, and an answer is the provider's about
\* that very key or a configured failure mode.
THEOREM JudgeSharedStateIsSound == JudgeSpec => []SharedStateIsSound
  <1>1. JudgeIInv => SharedStateIsSound
    BY Enough DEF JudgeIInv, Sources, Typed, SharedStateIsSound, JudgeTypeOK
  <1> QED
    BY <1>1, JudgeInvariant, PTL

\* A failed half-open probe goes straight back to open (breaker.rs,
\* record_failure), whatever the other calls do, unless one of them succeeds.
THEOREM JudgeFailedProbeReopens == JudgeSpec => FailedProbeReopens
  <1> DEFINE Reopens == \A r \in probing : pc[r] = "failed" /\ pc'[r] # "failed"
                            => pc'[r] = "tripping"
  <1>1. JudgeIInv /\ [JudgeNext]_judgeVars => [Reopens]_judgeVars
    <2> SUFFICES ASSUME JudgeIInv, JudgeNext, NEW q \in probing, pc[q] = "failed", pc'[q] # "failed"
                 PROVE  pc'[q] = "tripping"
      OBVIOUS
    <2>1. q \in Req /\ failures >= Threshold /\ failures \in Nat /\ Threshold \in Nat
      BY JudgeConfig DEF JudgeIInv, StreakStands, Sources, Typed
    <2>2. ASSUME NEW r \in Req, Polls(r) \/ Provider(r) \/ ClientGone(r), r # q
          PROVE  pc'[q] = pc[q]
      BY <2>1, <2>2 DEF JudgeIInv, Sources, Typed, Polls, Provider, OutOfScope, CacheHit, CacheMiss,
         BreakerRefuses, BreakerAdmits, Acquire, CallTimesOut, CallFails, CallSucceeds,
         CountFailure, Trip, ResetStreak, CloseBreaker, CacheVerdict, ClientGone, Goto, ReturnVerdict
    <2>3. CASE Polls(q) \/ Provider(q) \/ ClientGone(q)
      BY <2>1, <2>3 DEF JudgeIInv, Sources, Typed, Polls, Provider, OutOfScope, CacheHit, CacheMiss,
         BreakerRefuses, BreakerAdmits, Acquire, CallTimesOut, CallFails, CallSucceeds,
         CountFailure, Trip, ResetStreak, CloseBreaker, CacheVerdict, ClientGone, Goto, ReturnVerdict,
         Awaits
    <2>4. CASE CooldownElapses \/ (\E k \in Key : Evicts(k))
      BY <2>4 DEF CooldownElapses, Evicts
    <2> QED
      BY <2>2, <2>3, <2>4 DEF JudgeNext
  <1> QED
    BY <1>1, JudgeInvariant, PTL DEF JudgeSpec, FailedProbeReopens
=============================================================================

---------------------------- MODULE PolicyChain -----------------------------
(***************************************************************************)
(* Chain::evaluate, one action per way an iteration of its loop can go.      *)
(* `answers` and `approval` are the inputs: what each layer and the decider *)
(* would say.  Each is asked at most once, so fixing them at the start is   *)
(* as general as choosing them when they are asked.                         *)
(***************************************************************************)
EXTENDS ChainOps

CONSTANTS Chains,   \* the chains of the configuration
          NoOutcome \* no verdict yet

ASSUME ChainsAreChains ==
  /\ Chains \subseteq Chain
  /\ NoOutcome \notin Outcome

VARIABLES chain, phase, answers, approval, outcome,
          next,     \* the layer the loop looks at next
          trail,    \* Evidence::trail: the outcome of every layer consulted
          asked     \* the deferral handed to the decider, 0 if none

inputs == <<chain, phase, answers, approval>>
vars   == <<inputs, outcome, next, trail, asked>>

TrailEntry == [layer : Nat, verdict : Answer]

Running == outcome = NoOutcome /\ asked = 0

\* The loop is at a layer that this phase consults.
Consulting == Running /\ next \in Positions(chain) /\ ~Skipped(chain, phase, next)

PushOutcome(verdict) == trail' = Append(trail, [layer |-> next, verdict |-> verdict])

Return(action, layer) == outcome' = Terminate(chain, action, layer)

Init ==
  /\ chain \in Chains
  /\ phase \in Phase
  /\ answers \in [Positions(chain) -> Answer]
  /\ approval \in DeciderAnswer
  /\ outcome = NoOutcome
  /\ next = 1
  /\ trail = <<>>
  /\ asked = 0

SkipLayer ==
  /\ Running
  /\ next \in Positions(chain)
  /\ Skipped(chain, phase, next)
  /\ next' = next + 1
  /\ UNCHANGED <<inputs, outcome, trail, asked>>

\* Mutant: a failing layer is logged and the loop goes on, whatever its
\* failure mode.
LayerErrorsContinue ==
  /\ Consulting
  /\ answers[next] = "error"
  /\ PushOutcome("error")
  /\ next' = next + 1
  /\ UNCHANGED <<inputs, outcome, asked>>

\* Mutant: the error path returns before it records the layer.
LayerErrorsUnrecorded ==
  /\ Consulting
  /\ answers[next] = "error"
  /\ IF OnError[chain.layers[next]] = "pass"
       THEN next' = next + 1 /\ UNCHANGED outcome
       ELSE Return(OnError[chain.layers[next]], next) /\ UNCHANGED next
  /\ UNCHANGED <<inputs, trail, asked>>

LayerErrors ==
  /\ Consulting
  /\ answers[next] = "error"
  /\ PushOutcome("error")
  /\ IF OnError[chain.layers[next]] = "pass"
       THEN next' = next + 1 /\ UNCHANGED outcome
       ELSE Return(OnError[chain.layers[next]], next) /\ UNCHANGED next
  /\ UNCHANGED <<inputs, asked>>

LayerDecides ==
  /\ Consulting
  /\ answers[next] \in {"allow", "deny"}
  /\ PushOutcome(answers[next])
  /\ Return(answers[next], next)
  /\ UNCHANGED <<inputs, next, asked>>

LayerPasses ==
  /\ Consulting
  /\ answers[next] = "pass"
  /\ PushOutcome("pass")
  /\ next' = next + 1
  /\ UNCHANGED <<inputs, outcome, asked>>

LayerDefers ==
  /\ Consulting
  /\ answers[next] = "defer"
  /\ PushOutcome("defer")
  /\ asked' = next
  /\ UNCHANGED <<inputs, outcome, next>>

\* Mutant: a decider that does not decide lets the request through.
DeciderIndeterminateAllows ==
  /\ outcome = NoOutcome
  /\ asked # 0
  /\ Return(IF approval \in {"allow", "deny"} THEN approval ELSE "allow", asked)
  /\ UNCHANGED <<inputs, next, trail, asked>>

\* Mutant: a decider that does not decide is waited for.
DeciderIndeterminateWaits ==
  /\ outcome = NoOutcome
  /\ asked # 0
  /\ approval \in {"allow", "deny"}
  /\ Return(approval, asked)
  /\ UNCHANGED <<inputs, next, trail, asked>>

DeciderAnswers ==
  /\ outcome = NoOutcome
  /\ asked # 0
  /\ Return(IF approval \in {"allow", "deny"} THEN approval ELSE "deny", asked)
  /\ UNCHANGED <<inputs, next, trail, asked>>

EveryLayerPassed ==
  /\ Running
  /\ next \notin Positions(chain)
  /\ Return(chain.default_action, DefaultAction)
  /\ UNCHANGED <<inputs, next, trail, asked>>

Next == \/ SkipLayer \/ LayerErrors \/ LayerDecides \/ LayerPasses
        \/ LayerDefers \/ DeciderAnswers \/ EveryLayerPassed

Spec == Init /\ [][Next]_vars

\* The runner is one async function the executor keeps polling; a layer's own
\* wait (the judge's call) is bounded by the layer.
FairSpec == Spec /\ WF_vars(Next)

-----------------------------------------------------------------------------
\* Type invariant: the loop index never leaves the chain by more than one,
\* and what is handed back is an Outcome.
TypeOK ==
  /\ chain \in Chains
  /\ phase \in Phase
  /\ answers \in [Positions(chain) -> Answer]
  /\ approval \in DeciderAnswer
  /\ outcome \in Outcome \union {NoOutcome}
  /\ next \in 1 .. Len(chain.layers) + 1
  /\ trail \in Seq(TrailEntry)
  /\ asked \in 0 .. Len(chain.layers)

\* Nothing becomes an allow by accident (the "an error can never quietly
\* become an allow" of the error arm, and the claim that default_action is
\* the only place where nobody's opinion turns into an allow): an allow that
\* is not warn mode's override was said by a layer consulted in this phase,
\* by its declared failure mode, by the decider it deferred to, or by a
\* default that allows when no consulted layer objected.
AllowHasASource ==
  outcome # NoOutcome /\ outcome.action = "allow" /\ ~outcome.would_deny =>
    \/ /\ outcome.layer = DefaultAction
       /\ chain.default_action = "allow"
       /\ \A i \in Positions(chain) :
            ~Skipped(chain, phase, i) => Effective(chain, i, answers[i], approval) = "pass"
    \/ /\ outcome.layer \in Positions(chain)
       /\ ~Skipped(chain, phase, outcome.layer)
       /\ Effective(chain, outcome.layer, answers[outcome.layer], approval) = "allow"

\* The audit trail tells the whole story of the verdict (Outcome::evidence,
\* "every layer's verdict, in order"): it lists exactly the layers of this
\* phase up to the one that decided, in chain order, each with what it said.
TrailIsComplete ==
  outcome # NoOutcome =>
    LET last == IF outcome.layer = DefaultAction THEN Len(chain.layers) ELSE outcome.layer
        consulted == {i \in 1 .. last : ~Skipped(chain, phase, i)}
    IN  /\ {trail[k].layer : k \in DOMAIN trail} = consulted
        /\ \A k \in DOMAIN trail : trail[k].verdict = answers[trail[k].layer]
        /\ \A k, l \in DOMAIN trail : k < l => trail[k].layer < trail[l].layer

\* The loop delivers what ChainSpec promises: the verdict of the first layer
\* that has one, decided once and never revised.
Promise == INSTANCE ChainSpec

ImplementsPromise == Promise!Spec

\* Every evaluation ends: no combination of answers leaves a request waiting.
EventuallyDecided == <>(outcome # NoOutcome)
=============================================================================

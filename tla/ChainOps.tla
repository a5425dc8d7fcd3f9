------------------------------ MODULE ChainOps ------------------------------
(***************************************************************************)
(* The vocabulary of marshal-policy/src/chain.rs: what a policy chain is    *)
(* made of, how the runner reads one layer's answer, and what the whole     *)
(* chain decides.  No state here: PolicyChain runs the loop of              *)
(* Chain::evaluate step by step, ChainSpec promises its result in one step, *)
(* and Proxy uses the result as the verdict of a connection or a request.   *)
(***************************************************************************)
EXTENDS Integers, Sequences

CONSTANTS
  Layer,         \* the configured policy layers
  NeedsRequest,  \* Layer -> BOOLEAN: PolicyLayer::needs_request
  OnError        \* Layer -> FailureMode: PolicyLayer::on_error

FailureMode == {"deny", "allow", "pass"}
Action      == {"allow", "deny"}
Phase       == {"connect", "request"}

\* What one call of PolicyLayer::evaluate can come back with: the four
\* verdicts, or an Err, which is not a verdict.
Answer == {"allow", "deny", "pass", "defer", "error"}

\* What Decider::decide may return for a deferred request: any Verdict.
DeciderAnswer == {"allow", "deny", "pass", "defer"}

ASSUME LayerFunctions ==
  /\ NeedsRequest \in [Layer -> BOOLEAN]
  /\ OnError \in [Layer -> FailureMode]

\* struct Chain: the ordered layers, the profile's default and its mode.
Chain == [layers : Seq(Layer), default_action : Action, warn_only : BOOLEAN]

\* Reason::layer of an outcome: a position in the chain, or 0 for the
\* "default_action" pseudo-layer that speaks when every layer passed.
DefaultAction == 0

\* struct Outcome without its evidence.
Outcome == [action : Action, layer : Nat, would_deny : BOOLEAN]

Positions(chain) == 1 .. Len(chain.layers)

\* A layer that needs a real request has nothing to say about a CONNECT.
Skipped(chain, phase, i) == NeedsRequest[chain.layers[i]] /\ phase = "connect"

\* Chain::request_only_layers
RequestOnly(chain) == {i \in Positions(chain) : NeedsRequest[chain.layers[i]]}

\* Chain::terminate: warn mode overrides a refusal at the single point every
\* verdict passes through.
Terminate(chain, action, layer) ==
  IF action = "deny" /\ chain.warn_only
    THEN [action |-> "allow", layer |-> layer, would_deny |-> TRUE]
    ELSE [action |-> action, layer |-> layer, would_deny |-> FALSE]

\* What the runner makes of an answer, as if it were a verdict: an error is
\* read through the layer's failure mode, a deferral through the decider, and
\* a decider that does not decide is a denial.
Effective(chain, i, answer, approval) ==
  CASE answer = "error" -> OnError[chain.layers[i]]
    [] answer = "defer" -> IF approval = "allow" THEN "allow" ELSE "deny"
    [] OTHER -> answer

-----------------------------------------------------------------------------
\* The reference reading of a chain, with no loop: the first layer that is
\* consulted and does not pass decides; if there is none, the default does.

Decisive(chain, phase, answers, approval) ==
  {i \in Positions(chain) :
     /\ ~Skipped(chain, phase, i)
     /\ Effective(chain, i, answers[i], approval) # "pass"}

First(S) == CHOOSE i \in S : \A j \in S : i <= j

Decide(chain, phase, answers, approval) ==
  LET D == Decisive(chain, phase, answers, approval)
  IN  IF D = {}
        THEN Terminate(chain, chain.default_action, DefaultAction)
        ELSE Terminate(chain, Effective(chain, First(D), answers[First(D)], approval),
                       First(D))
=============================================================================

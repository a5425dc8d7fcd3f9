----------------------------- MODULE ChainSpec ------------------------------
(***************************************************************************)
(* What a policy chain promises its callers (the listener and the           *)
(* interception path): asked once about a request, it answers once, with    *)
(* the verdict of the first layer that has one.                             *)
(***************************************************************************)
EXTENDS ChainOps

CONSTANTS Chains,   \* the chains of the configuration
          NoOutcome \* no verdict yet

VARIABLES chain,    \* the chain of the resolved profile
          phase,    \* RequestContext::phase
          answers,  \* what each layer says when it is consulted
          approval, \* what the decider says when it is asked
          outcome   \* the Outcome handed back, or NoOutcome

inputs == <<chain, phase, answers, approval>>
vars   == <<inputs, outcome>>

Init ==
  /\ chain \in Chains
  /\ phase \in Phase
  /\ answers \in [Positions(chain) -> Answer]
  /\ approval \in DeciderAnswer
  /\ outcome = NoOutcome

Answers ==
  /\ outcome = NoOutcome
  /\ outcome' = Decide(chain, phase, answers, approval)
  /\ UNCHANGED inputs

Next == Answers

Spec == Init /\ [][Next]_vars
=============================================================================

------------------------------ MODULE MCProxy -------------------------------
(***************************************************************************)
(* A host-level layer and a request-level layer, three configurations that  *)
(* differ in what matters to the pipeline, and two destinations: api, which *)
(* the LLM router of one configuration maps to other, and other, which one  *)
(* configuration lets through without interception.                         *)
(***************************************************************************)
EXTENDS Proxy

CONSTANTS hosts, rules,           \* the two layers
          enforce, warn, open,    \* the configurations
          api, other,             \* the destinations
          c1

MCLayer        == {hosts, rules}
MCNeedsRequest == [l \in MCLayer |-> l = rules]
MCOnError      == [l \in MCLayer |-> IF l = hosts THEN "deny" ELSE "pass"]
MCSays         == [l \in MCLayer |-> IF l = hosts THEN {"deny", "pass", "allow"}
                                                 ELSE {"allow", "pass", "error"}]
MCHost         == {api, other}
MCConfig       == {enforce, warn, open}

MCChainOf == [g \in MCConfig |->
  [layers |-> IF g = open THEN <<hosts>> ELSE <<hosts, rules>>,
   default_action |-> IF g = open THEN "allow" ELSE "deny",
   warn_only |-> g = warn]]

MCPassthrough      == [g \in MCConfig |-> IF g = open THEN {other} ELSE {}]
MCDenyUnidentified == [g \in MCConfig |-> g = enforce]
MCMappedTo == [g \in MCConfig |-> [h \in MCHost |->
                 IF g = enforce /\ h = api THEN {other} ELSE {}]]

OneConn == {c1}
=============================================================================

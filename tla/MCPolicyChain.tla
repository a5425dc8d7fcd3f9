--------------------------- MODULE MCPolicyChain ----------------------------
(***************************************************************************)
(* Every chain of up to MaxLayers layers over four layers that differ in    *)
(* what the runner can see of a layer: whether it needs a request, and its  *)
(* failure mode.                                                            *)
(***************************************************************************)
EXTENDS PolicyChain

CONSTANTS hostDeny, hostPass, reqDeny, reqAllow, MaxLayers

MCLayer == {hostDeny, hostPass, reqDeny, reqAllow}
MCNeedsRequest == [l \in MCLayer |-> l \in {reqDeny, reqAllow}]
MCOnError == [l \in MCLayer |-> CASE l = hostPass -> "pass"
                                  [] l = reqAllow -> "allow"
                                  [] OTHER -> "deny"]
MCChains == [layers : UNION {[1 .. n -> MCLayer] : n \in 0 .. MaxLayers},
             default_action : Action, warn_only : BOOLEAN]
=============================================================================

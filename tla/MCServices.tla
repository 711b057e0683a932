----------------------------- MODULE MCServices ------------------------------
(***************************************************************************)
(* Services for TLC.                                                       *)
(***************************************************************************)
EXTENDS Services

\* As shipped, and with the Redis of the first VM for both.
MCDeployments == {[v \in VMs |-> v], [v \in VMs |-> "vm1"]}

MCType == <<"confirmed", "failed", "cancelled">>
MCSegments == <<2, 0, 1>>
MCPrefetch == [c \in Consumers |-> 2]
=============================================================================

--------------------------- MODULE MCEC2Interfaces ---------------------------
(* Small instances of EC2Interfaces for TLC. *)
EXTENDS EC2Interfaces, TLC

CONSTANTS s1, v1, v2, g1, g2, g3

MCVpcOf      == [s \in Subnets |-> v1]
MCDefaultOf  == [v \in Vpcs |-> IF v = v1 THEN g1 ELSE g2]
MCPerms      == [egress: {FALSE}, ports: {"80", "443"}]
MCGroupLists == {{g1}, {g3}}
MCSources    == {"cidr", g3}

\* Every id derives one address, so that the second of two has to move on.
MCDerive == [x \in Enis \cup Eips |-> 0]

MCSymmetry ==
    Permutations(Clients) \cup Permutations(LoadedInstances) \cup Permutations(Instances \ LoadedInstances)
        \cup Permutations(Enis \ LoadedEnis) \cup Permutations(Eips) \cup Permutations(Rules)

MCRules      == {"CreateSecurityGroup", "DeleteSecurityGroup", "AuthorizeSecurityGroupRules",
                 "RevokeSecurityGroupRules"}
MCGroups     == {"CreateSecurityGroup", "DeleteSecurityGroup", "RunInstances", "ModifyNetworkInterfaceAttribute"}
MCAddresses  == {"RunInstances", "AllocateAddress", "AssociateAddress", "DisassociateAddress", "ReleaseAddress"}
MCTerminates == {"RunInstances", "TerminateInstances", "AllocateAddress", "AssociateAddress",
                 "DisassociateAddress"}
\* Of a load's instances, with interfaces that termination may leave and with volumes.
MCLoaded     == {"Load", "AllocateAddress", "AssociateAddress", "DisassociateAddress", "TerminateInstances",
                 "ModifyNetworkInterfaceAttribute"}
MCAttributes == {"Load", "TerminateInstances", "ModifyInstanceAttribute", "ModifyNetworkInterfaceAttribute"}

MCMixes == {MCRules, MCGroups, MCAddresses, MCTerminates, MCLoaded, MCAttributes}
=============================================================================

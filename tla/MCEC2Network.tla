---------------------------- MODULE MCEC2Network ----------------------------
(* Small instances of EC2Network for TLC. *)
EXTENDS EC2Network, TLC

MCSymmetry ==
    Permutations(Clients) \cup Permutations(Vpcs) \cup Permutations(Subnets)
        \cup Permutations(Tables)

\* Two blocks apart, and one over both.
MCCidrs == {{1}, {2}, {1, 2}}

MCVpcs     == {"CreateVpc", "DeleteVpc"}
MCSubnets  == MCVpcs \cup {"CreateSubnet", "DeleteSubnet"}
MCTables   == MCVpcs \cup {"CreateRouteTable", "DeleteRouteTable"}
MCRouting  == MCSubnets \cup MCTables \cup {"AssociateRouteTable", "DisassociateRouteTable"}
MCRoutes   == MCTables \cup {"CreateRoute", "DeleteRoute"}
MCGateways == MCVpcs \cup {"CreateInternetGateway", "AttachInternetGateway", "DetachInternetGateway",
                           "DeleteInternetGateway"}
\* A VPC whose delete an instance refuses, with its gateway.
MCRefused  == MCVpcs \cup {"CreateSubnet", "RunInstances", "CreateInternetGateway", "AttachInternetGateway"}
MCModify   == MCVpcs \cup {"ModifyVpcAttribute"}
MCCompute  == MCSubnets \cup {"RunInstances", "TerminateInstances"}
MCTagging  == MCSubnets \cup {"ModifySubnetAttribute", "CreateTags", "DeleteTags"}

MCMixes == {MCRouting, MCRoutes, MCGateways, MCRefused, MCModify, MCCompute, MCTagging}
=============================================================================

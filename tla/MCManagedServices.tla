------------------------- MODULE MCManagedServices -------------------------
(* RDS, EKS, DynamoDB and S3 on small instances. *)
EXTENDS ManagedServices, TLC

CONSTANTS c1, c2, none

MCClients  == {c1, c2}
MCSymmetry == Permutations(MCClients)

\* Two subnets of one VPC; a third, and a security group, of another.
s1 == <<"subnet", "s1">>
s2 == <<"subnet", "s2">>
s3 == <<"subnet", "s3">>
g1 == <<"securityGroup", "g1">>
r1 == <<"role", "r1">>
MCVpcOf == [x \in {s1, s2, s3, g1} |-> IF x \in {s1, s2} THEN "v1" ELSE "v2"]

Mix(os, es, xs, ts) == [ops |-> os, entities |-> es, outside |-> xs, tags |-> ts]

MCGroups == Mix(
    {"CreateDBSubnetGroup", "DeleteDBSubnetGroup", "CreateDBClusterParameterGroup",
     "DeleteDBClusterParameterGroup", "CreateDBCluster", "DeleteDBCluster"},
    {<<"subnetGroup", "n1">>, <<"clusterParameterGroup", "n1">>, <<"dbCluster", "n1">>}, {s1, s3}, {FALSE})
MCInstances == Mix(
    {"CreateDBInstance", "DeleteDBInstance"},
    {<<"dbInstance", "n1">>, <<"dbInstance", "n2">>}, {}, {FALSE})
MCParameters == Mix(
    {"CreateDBParameterGroup", "DeleteDBParameterGroup", "CreateDBInstance", "DeleteDBInstance"},
    {<<"parameterGroup", "n1">>, <<"dbInstance", "n1">>}, {}, {FALSE})
MCTags == Mix(
    {"CreateDBCluster", "DeleteDBCluster", "CreateDBInstance", "DeleteDBInstance",
     "AddTagsToResource", "RemoveTagsFromResource"},
    {<<"dbCluster", "n1">>, <<"dbInstance", "n1">>}, {}, BOOLEAN)
MCKubernetes == Mix(
    {"eksCreateCluster", "eksDeleteCluster", "eksCreateNodeGroup", "eksDeleteNodeGroup"},
    {<<"eksCluster", "n1">>, <<"nodeGroup", "n1">>}, {s1, s2, r1}, {FALSE})
MCAddons == Mix(
    {"eksCreateCluster", "eksDeleteCluster", "eksCreateAddon", "eksDeleteAddon",
     "eksTagResource", "eksUntagResource"},
    {<<"eksCluster", "n1">>, <<"addon", "n1">>}, {s1, g1, r1}, BOOLEAN)

MCTables == Mix(
    {"ddbCreateTable", "ddbDeleteTable", "ddbPutItem", "ddbUpdateItem", "ddbDeleteItem",
     "ddbTagResource", "ddbUntagResource"},
    {<<"table", "n1">>, <<"item", "n1">>}, {}, BOOLEAN)
MCBuckets == Mix(
    {"s3PutBucket", "s3DeleteBucket", "s3PutConfig", "s3DeleteConfig"},
    {<<"bucket", "n1">>, <<"bucketConfig", "n1">>}, {}, {FALSE})

MCMixes == {MCGroups, MCInstances, MCParameters, MCTags, MCKubernetes, MCAddons, MCTables,
            MCBuckets}
=============================================================================

--------------------------- MODULE ManagedServices ---------------------------
(***************************************************************************)
(* RDS, EKS, DynamoDB and S3 in one account and region: the resources of   *)
(* the four services, what they name of one another and of EC2 and IAM,    *)
(* and the requests that create, put and delete them, one SQL statement at *)
(* a time.                                                                 *)
(*                                                                         *)
(* A create looks up what it names, in statements of their own, and then   *)
(* inserts.  Foreign keys keep some of those references; subnets, security *)
(* groups and roles are kept by none, so EC2 and IAM may delete them.      *)
(***************************************************************************)
EXTENDS Naturals, FiniteSets

CONSTANTS
    Clients,  \* requests that may be in flight at once
    Mixes,    \* what clients may work on: their operations, the keys of rows, and
              \* the rows EC2 and IAM hold as a behaviour starts, <<kind, id>> each
    VpcOf,    \* the VPC of each of those subnets and security groups
    Attrs,    \* the attributes an item may have beside its key
    None      \* no row

Groups     == {"subnetGroup", "parameterGroup", "clusterParameterGroup"}
Replaced   == {"item", "bucketConfig"}           \* those a put replaces
Children   == {"nodeGroup", "addon"} \cup Replaced \* those of one parent, by ON DELETE CASCADE
Kinds      == Groups \cup {"dbCluster", "dbInstance", "eksCluster", "table", "bucket"} \cup Children
OutsideKinds == {"subnet", "securityGroup", "role"}

\* The rows, by key.  A child's key is its parent's name: of those a parent may
\* have, which do not interact, one of each kind is taken.
Entities == UNION {m.entities : m \in Mixes}
Outside  == UNION {m.outside : m \in Mixes}

ASSUME EntitiesAssumption ==
    /\ Entities \subseteq Kinds \X {e[2] : e \in Entities}
    /\ \A x \in Outside : x[1] \in OutsideKinds
    /\ \A x \in Outside : x[1] # "role" => x \in DOMAIN VpcOf
    /\ \A x \in DOMAIN VpcOf : x[1] \in {"subnet", "securityGroup"}

\* The kinds of rows that a row of each kind names, and those it has to name.
Names == [
    subnetGroup           |-> {"subnet"},
    parameterGroup        |-> {},
    clusterParameterGroup |-> {},
    dbCluster             |-> {"subnetGroup", "clusterParameterGroup"},
    dbInstance            |-> {"subnetGroup", "dbCluster", "parameterGroup", "dbInstance"},
    eksCluster            |-> {"role", "subnet", "securityGroup"},
    nodeGroup             |-> {"eksCluster", "role", "subnet"},
    addon                 |-> {"eksCluster"},
    table                 |-> {},
    item                  |-> {"table"},
    bucket                |-> {},
    bucketConfig          |-> {"bucket"} ]

Required(e) == CASE e[1] = "subnetGroup" -> {"subnet"}
                 [] e[1] = "eksCluster"  -> {"role", "subnet"}
                 [] e[1] = "nodeGroup"   -> {"role", "eksCluster"}
                 [] e[1] \in {"addon", "item", "bucketConfig"} -> Names[e[1]]
                 [] OTHER                -> {}

ParentKind == [nodeGroup |-> "eksCluster", addon |-> "eksCluster", item |-> "table",
               bucketConfig |-> "bucket"]
ParentOf(e) == <<ParentKind[e[1]], e[2]>>

\* The references a create of e may carry: lists of subnets and security
\* groups, as sets (a list may repeat an id), at most one of everything else.
RefsOf(e, m) ==
    {R \in SUBSET {x \in m.entities \cup m.outside : x[1] \in Names[e[1]]} :
        /\ Required(e) \subseteq {x[1] : x \in R}
        /\ \A x, y \in R : x[1] = y[1] /\ x # y => x[1] \in {"subnet", "securityGroup"}
        /\ e[1] \in Children => ParentOf(e) \in R}

\* Whether the table has a deletion_protection column.
MayProtect(e) == IF e[1] \in {"dbCluster", "dbInstance"} THEN BOOLEAN ELSE {FALSE}

\* The operations that write and delete each kind of row.
CreateOp == [
    subnetGroup |-> "CreateDBSubnetGroup", parameterGroup |-> "CreateDBParameterGroup",
    clusterParameterGroup |-> "CreateDBClusterParameterGroup",
    dbCluster |-> "CreateDBCluster", dbInstance |-> "CreateDBInstance",
    eksCluster |-> "eksCreateCluster", nodeGroup |-> "eksCreateNodeGroup", addon |-> "eksCreateAddon",
    table |-> "ddbCreateTable", item |-> "ddbPutItem", bucket |-> "s3PutBucket",
    bucketConfig |-> "s3PutConfig" ]
DeleteOp == [
    subnetGroup |-> "DeleteDBSubnetGroup", parameterGroup |-> "DeleteDBParameterGroup",
    clusterParameterGroup |-> "DeleteDBClusterParameterGroup",
    dbCluster |-> "DeleteDBCluster", dbInstance |-> "DeleteDBInstance",
    eksCluster |-> "eksDeleteCluster", nodeGroup |-> "eksDeleteNodeGroup", addon |-> "eksDeleteAddon",
    table |-> "ddbDeleteTable", item |-> "ddbDeleteItem", bucket |-> "s3DeleteBucket",
    bucketConfig |-> "s3DeleteConfig" ]
WriteOps(e) == {CreateOp[e[1]]} \cup (IF e[1] = "item" THEN {"ddbUpdateItem"} ELSE {})

\* resource_tags has none for buckets, items and configurations.
Taggable(e) == e[1] \notin {"bucket"} \cup Replaced
TagOp(e)    == CASE e[1] = "table" -> "ddbTagResource"
                 [] e[1] \in {"eksCluster", "nodeGroup", "addon"} -> "eksTagResource"
                 [] OTHER -> "AddTagsToResource"
UntagOp(e)  == CASE e[1] = "table" -> "ddbUntagResource"
                 [] e[1] \in {"eksCluster", "nodeGroup", "addon"} -> "eksUntagResource"
                 [] OTHER -> "RemoveTagsFromResource"

\* An item is the attributes it has, a configuration that there is one.
MayHold(e)   == IF e[1] = "item" THEN SUBSET Attrs ELSE {{}}
RowsOf(e, m) == [refs: RefsOf(e, m), protected: MayProtect(e), attrs: MayHold(e)]

\* Constants of each mix, so that TLC computes them once.
Creates  == [m \in Mixes |-> UNION {
    [op: m.ops \cap WriteOps(e), e: {e}, row: RowsOf(e, m),
     tags: IF Taggable(e) THEN m.tags ELSE {FALSE}] : e \in m.entities}]
Deletes  == [m \in Mixes |-> UNION {
    [op: m.ops \cap {DeleteOp[e[1]]}, e: {e}] : e \in m.entities}]

\* None is no row.
ASSUME NoneAssumption == \A m \in Mixes : \A e \in m.entities : None \notin RowsOf(e, m)

-----------------------------------------------------------------------------
VARIABLES
    row,      \* each entity's row, or None
    tagged,   \* resource_tags: the entities that carry a tag
    outside,  \* the rows of EC2 and IAM there are still
    mix,      \* what the clients of this behaviour work on
    pc, req,  \* each client's place and request
    todo,     \* what it has not looked up yet
    got,      \* what it has read: its node group's cluster, or the item it updates
    quiet     \* no other step has written a row since its request began

db   == <<row, tagged, outside>>
vars == <<row, tagged, outside, mix, pc, req, todo, got, quiet>>

Places == {"idle", "look", "read", "insert", "tag", "get", "count", "delete"}

Init ==
    /\ row = [e \in Entities |-> None]
    /\ tagged = {}
    /\ mix \in Mixes /\ outside = mix.outside
    /\ pc = [c \in Clients |-> "idle"]
    /\ req = [c \in Clients |-> None]
    /\ todo = [c \in Clients |-> {}]
    /\ got = [c \in Clients |-> None]
    /\ quiet = [c \in Clients |-> TRUE]

Stored    == {e \in Entities : row[e] # None}
Exists(x) == x \in Stored \cup outside

Begin(c, place, r, lookups) ==
    /\ pc[c] = "idle"
    /\ pc' = [pc EXCEPT ![c] = place]
    /\ req' = [req EXCEPT ![c] = r]
    /\ todo' = [todo EXCEPT ![c] = lookups]
    /\ UNCHANGED <<db, got>>

\* A request of one statement, or whose other statements only find its answer.
Whole(c) == pc[c] = "idle" /\ UNCHANGED <<pc, req, todo, got>>

At(c, place, o) == pc[c] = place /\ req[c].op = o

Goto(c, place) == pc' = [pc EXCEPT ![c] = place] /\ UNCHANGED <<req, todo, got>>

End(c) ==
    /\ pc' = [pc EXCEPT ![c] = "idle"]
    /\ req' = [req EXCEPT ![c] = None]
    /\ todo' = [todo EXCEPT ![c] = {}]
    /\ got' = [got EXCEPT ![c] = None]

-----------------------------------------------------------------------------
\* Lookups.

\* A node group's subnets are compared with its cluster's, not looked up.
LookedUp(e, refs) == {x \in refs : e[1] = "nodeGroup" => x[1] # "subnet"}

\* The order a create looks its references up in; a list's is its own.
Order == [subnetGroup |-> 1, dbCluster |-> 2, clusterParameterGroup |-> 2, parameterGroup |-> 3,
          dbInstance |-> 4, eksCluster |-> 1, role |-> 2, subnet |-> 3, securityGroup |-> 4,
          table |-> 1, bucket |-> 1]

\* What comes after the lookups.
LookedUpAll(o) == IF o = "ddbUpdateItem" THEN "read" ELSE "insert"

LookUp(c, o) ==
    /\ At(c, "look", o)
    /\ \E x \in todo[c] :
          /\ \A y \in todo[c] : Order[x[1]] <= Order[y[1]]
          /\ \/ ~Exists(x) /\ End(c)
             \/ /\ Exists(x)
                /\ todo' = [todo EXCEPT ![c] = @ \ {x}]
                /\ got' = IF x[1] = "eksCluster" THEN [got EXCEPT ![c] = row[x]] ELSE got
                /\ pc' = [pc EXCEPT ![c] = IF todo[c] = {x} THEN LookedUpAll(o) ELSE "look"]
                /\ UNCHANGED req
    /\ UNCHANGED db

\* The subnets, and then the security groups, must be of one VPC.
OneVpc(refs) == \A x, y \in refs \cap DOMAIN VpcOf : VpcOf[x] = VpcOf[y]

SubnetsIn(refs) == {x \in refs : x[1] = "subnet"}

\* A variant for the runs' mutants: no comparison of the subnets.
AnySubnets(c) == TRUE

\* CreateEKSNodeGroup's subset check.
InClusterSubnets(c) == SubnetsIn(req[c].row.refs) \subseteq SubnetsIn(got[c].refs)

-----------------------------------------------------------------------------
\* A variant for the runs' mutants: a table without foreign keys.
KeyHolds(e, refs) == row[e] = None

\* INSERT, refused by the primary key, unless it replaces, or by a foreign key. A
\* row may be its own parent: the key is checked when the row is in.
KeysHold(e, refs) == (row[e] = None \/ e[1] \in Replaced) /\ \A x \in refs \ Outside : x = e \/ row[x] # None

InsertRow(e, r) == row' = [row EXCEPT ![e] = r]

\* An update writes what it read with its own attributes over it.
Merged(c) ==
    IF req[c].op = "ddbUpdateItem" /\ got[c] # None
    THEN [req[c].row EXCEPT !.attrs = @ \cup got[c].attrs] ELSE req[c].row

Insert(c, o, fits) ==
    LET e == req[c].e  r == Merged(c) IN
    \/ /\ At(c, "insert", o) /\ ~(fits /\ KeysHold(e, r.refs))
       /\ End(c)
       /\ UNCHANGED db
    \/ /\ At(c, "insert", o) /\ fits /\ KeysHold(e, r.refs)
       /\ InsertRow(e, r)
       /\ IF req[c].tags THEN Goto(c, "tag") ELSE End(c)
       /\ UNCHANGED <<tagged, outside>>

CreateDBSubnetGroup(c, o)           == Insert(c, o, OneVpc(req[c].row.refs))
CreateDBParameterGroup(c, o)        == Insert(c, o, TRUE)
CreateDBClusterParameterGroup(c, o) == Insert(c, o, TRUE)
CreateDBCluster(c, o)               == Insert(c, o, TRUE)
CreateDBInstance(c, o)              == Insert(c, o, TRUE)
CreateEKSCluster(c, o)              == Insert(c, o, OneVpc(req[c].row.refs))
CreateEKSNodeGroup(c, o)            == Insert(c, o, InClusterSubnets(c))
CreateEKSAddon(c, o)                == Insert(c, o, TRUE)
CreateDynamoDBTable(c, o)           == Insert(c, o, TRUE)
PutDynamoDBItem(c, o)               == Insert(c, o, TRUE)
CreateBucket(c, o)                  == Insert(c, o, TRUE)
PutBucketConfig(c, o)               == Insert(c, o, TRUE)

GetDynamoDBItem(c, o) ==
    /\ At(c, "read", o)
    /\ pc' = [pc EXCEPT ![c] = "insert"]
    /\ got' = [got EXCEPT ![c] = row[req[c].e]]
    /\ UNCHANGED <<db, req, todo>>

-----------------------------------------------------------------------------
\* Deletes.

\* RESTRICT: a row some other row names, but for what goes by ON DELETE CASCADE.
Held(e) == \E x \in Stored \ {e} : x[1] \notin Children /\ e \in row[x].refs

\* The rows a DELETE takes: the cascade reaches a parent's children.
WithChildren(e) == {e} \cup {x \in Stored : x[1] \in Children /\ e \in row[x].refs}

\* The rows go, and by their tables' triggers their tags.
Remove(e) ==
    /\ row' = [x \in Entities |-> IF x \in WithChildren(e) THEN None ELSE row[x]]
    /\ tagged' = tagged \ WithChildren(e)
    /\ UNCHANGED outside

Drop(e) == IF e \in Stored /\ ~Held(e) THEN Remove(e) ELSE UNCHANGED db

\* A delete that is one DELETE by key.
DeleteRow(c, o) ==
    \/ \E r \in Deletes[mix] : r.op = o /\ Whole(c) /\ Drop(r.e)
    \/ At(c, "delete", o) /\ Drop(req[c].e) /\ End(c)

\* A variant for the runs' mutants: no look at deletion_protection.
Deletable(e) == e \in Stored

Unprotected(e) == e \in Stored /\ ~row[e].protected

\* The read of the row before its DELETE.
ReadProtection(c, o, next) ==
    /\ At(c, "get", o)
    /\ IF Unprotected(req[c].e) THEN Goto(c, next) ELSE End(c)
    /\ UNCHANGED db

DeleteDBCluster(c, o) ==
    \/ \E r \in Deletes[mix] : r.op = o /\ Begin(c, "get", r, {})
    \/ ReadProtection(c, o, "delete")
    \/ At(c, "delete", o) /\ Drop(req[c].e) /\ End(c)

Replicated(e) == \E x \in Stored : x[1] = "dbInstance" /\ e \in row[x].refs

DeleteDBInstance(c, o) ==
    \/ \E r \in Deletes[mix] : r.op = o /\ Begin(c, "get", r, {})
    \/ ReadProtection(c, o, "count")
    \/ /\ At(c, "count", o)
       /\ IF Replicated(req[c].e) THEN End(c) ELSE Goto(c, "delete")
       /\ UNCHANGED db
    \/ At(c, "delete", o) /\ Drop(req[c].e) /\ End(c)

-----------------------------------------------------------------------------
\* Tags.

PutTags(e) ==
    /\ e \in Stored
    /\ tagged' = tagged \cup {e}
    /\ UNCHANGED <<row, outside>>

\* tagCreated: tags what was created; when that fails, undoes it by a delete.
tagCreated(c, o, undo) ==
    \/ At(c, "tag", o) /\ PutTags(req[c].e) /\ End(c)
    \/ At(c, "tag", o) /\ ~Exists(req[c].e) /\ Goto(c, undo) /\ UNCHANGED db

TagResource(c) ==
    \E e \in mix.entities : Taggable(e) /\ TagOp(e) \in mix.ops /\ Whole(c) /\ PutTags(e)

UntagResource(c) ==
    \E e \in mix.entities :
        /\ Taggable(e) /\ UntagOp(e) \in mix.ops /\ Whole(c)
        /\ e \in Stored
        /\ tagged' = tagged \ {e}
        /\ UNCHANGED <<row, outside>>

-----------------------------------------------------------------------------
\* The handlers.

Receive(c, o) ==
    \E r \in Creates[mix] :
        /\ r.op = o
        /\ LET xs == LookedUp(r.e, r.row.refs) IN
           Begin(c, IF xs = {} THEN "insert" ELSE "look", r, xs)

rdsCreateDBSubnetGroup(c) ==
    LET o == "CreateDBSubnetGroup" IN
    \/ Receive(c, o) \/ LookUp(c, o) \/ CreateDBSubnetGroup(c, o)
    \/ tagCreated(c, o, "delete") \/ DeleteRow(c, o)

rdsCreateDBParameterGroup(c) ==
    LET o == "CreateDBParameterGroup" IN
    \/ Receive(c, o) \/ CreateDBParameterGroup(c, o)
    \/ tagCreated(c, o, "delete") \/ DeleteRow(c, o)

rdsCreateDBClusterParameterGroup(c) ==
    LET o == "CreateDBClusterParameterGroup" IN
    \/ Receive(c, o) \/ CreateDBClusterParameterGroup(c, o)
    \/ tagCreated(c, o, "delete") \/ DeleteRow(c, o)

rdsCreateDBCluster(c) ==
    LET o == "CreateDBCluster" IN
    \/ Receive(c, o) \/ LookUp(c, o) \/ CreateDBCluster(c, o)
    \/ tagCreated(c, o, "get") \/ DeleteDBCluster(c, o)

rdsCreateDBInstance(c) ==
    LET o == "CreateDBInstance" IN
    \/ Receive(c, o) \/ LookUp(c, o) \/ CreateDBInstance(c, o)
    \/ tagCreated(c, o, "get") \/ DeleteDBInstance(c, o)

eksCreateCluster(c) ==
    LET o == "eksCreateCluster" IN
    \/ Receive(c, o) \/ LookUp(c, o) \/ CreateEKSCluster(c, o)
    \/ tagCreated(c, o, "delete") \/ DeleteRow(c, o)

eksCreateNodeGroup(c) ==
    LET o == "eksCreateNodeGroup" IN
    \/ Receive(c, o) \/ LookUp(c, o) \/ CreateEKSNodeGroup(c, o)
    \/ tagCreated(c, o, "delete") \/ DeleteRow(c, o)

eksCreateAddon(c) ==
    LET o == "eksCreateAddon" IN
    \/ Receive(c, o) \/ LookUp(c, o) \/ CreateEKSAddon(c, o)
    \/ tagCreated(c, o, "delete") \/ DeleteRow(c, o)

ddbCreateTable(c) ==
    LET o == "ddbCreateTable" IN
    \/ Receive(c, o) \/ CreateDynamoDBTable(c, o)
    \/ tagCreated(c, o, "delete") \/ DeleteRow(c, o)

ddbPutItem(c) ==
    LET o == "ddbPutItem" IN Receive(c, o) \/ LookUp(c, o) \/ PutDynamoDBItem(c, o)

ddbUpdateItem(c) ==
    LET o == "ddbUpdateItem" IN
    Receive(c, o) \/ LookUp(c, o) \/ GetDynamoDBItem(c, o) \/ PutDynamoDBItem(c, o)

s3PutBucket(c) == LET o == "s3PutBucket" IN Receive(c, o) \/ CreateBucket(c, o)

s3PutConfig(c) ==
    LET o == "s3PutConfig" IN Receive(c, o) \/ LookUp(c, o) \/ PutBucketConfig(c, o)

rdsDeleteDBSubnetGroup(c)           == DeleteRow(c, "DeleteDBSubnetGroup")
rdsDeleteDBParameterGroup(c)        == DeleteRow(c, "DeleteDBParameterGroup")
rdsDeleteDBClusterParameterGroup(c) == DeleteRow(c, "DeleteDBClusterParameterGroup")
rdsDeleteDBCluster(c)               == DeleteDBCluster(c, "DeleteDBCluster")
rdsDeleteDBInstance(c)              == DeleteDBInstance(c, "DeleteDBInstance")
eksDeleteCluster(c)                 == DeleteRow(c, "eksDeleteCluster")
eksDeleteNodeGroup(c)               == DeleteRow(c, "eksDeleteNodeGroup")
eksDeleteAddon(c)                   == DeleteRow(c, "eksDeleteAddon")
ddbDeleteTable(c)                   == DeleteRow(c, "ddbDeleteTable")
ddbDeleteItem(c)                    == DeleteRow(c, "ddbDeleteItem")
s3DeleteBucket(c)                   == DeleteRow(c, "s3DeleteBucket")

\* ?policy, ?publicAccessBlock and ?tagging name a row; a DELETE with any other of
\* the six kinds falls through to s3DeleteBucket.
s3DeleteConfig(c)                   == DeleteRow(c, "s3DeleteConfig")

\* EC2 deletes a subnet or a security group, whose ids do not recur; IAM deletes
\* a role and creates it again.
ForgetOutside == \E x \in outside : outside' = outside \ {x}
CreateRole    == \E x \in mix.outside \ outside : x[1] = "role" /\ outside' = outside \cup {x}

Handle(c) ==
    \/ rdsCreateDBSubnetGroup(c) \/ rdsDeleteDBSubnetGroup(c)
    \/ rdsCreateDBParameterGroup(c) \/ rdsDeleteDBParameterGroup(c)
    \/ rdsCreateDBClusterParameterGroup(c) \/ rdsDeleteDBClusterParameterGroup(c)
    \/ rdsCreateDBCluster(c) \/ rdsDeleteDBCluster(c)
    \/ rdsCreateDBInstance(c) \/ rdsDeleteDBInstance(c)
    \/ eksCreateCluster(c) \/ eksDeleteCluster(c)
    \/ eksCreateNodeGroup(c) \/ eksDeleteNodeGroup(c)
    \/ eksCreateAddon(c) \/ eksDeleteAddon(c)
    \/ ddbCreateTable(c) \/ ddbDeleteTable(c)
    \/ ddbPutItem(c) \/ ddbUpdateItem(c) \/ ddbDeleteItem(c)
    \/ s3PutBucket(c) \/ s3DeleteBucket(c) \/ s3PutConfig(c) \/ s3DeleteConfig(c)
    \/ TagResource(c) \/ UntagResource(c)

\* A written row disturbs the other requests under way, each until its end.
Disturbed(others) == [d \in Clients |-> quiet[d] /\ (pc[d] = "idle" \/ d \notin others)]

Next ==
    /\ UNCHANGED mix
    /\ \/ \E c \in Clients :
             /\ Handle(c)
             /\ LET seen == IF UNCHANGED <<row, outside>> THEN quiet ELSE Disturbed(Clients \ {c})
                IN quiet' = [seen EXCEPT ![c] = @ \/ pc'[c] = "idle"]
       \/ /\ ForgetOutside \/ CreateRole
          /\ quiet' = Disturbed(Clients)
          /\ UNCHANGED <<row, tagged, pc, req, todo, got>>

Spec == Init /\ [][Next]_vars

-----------------------------------------------------------------------------
\* Properties.

\* Type correctness: every row is of its own table, under references its create
\* could carry.
TypeOK ==
    /\ \A e \in Entities : row[e] # None => e \in mix.entities /\ row[e] \in RowsOf(e, mix)
    /\ tagged \subseteq Entities
    /\ outside \subseteq mix.outside
    /\ pc \in [Clients -> Places]
    /\ req \in [Clients -> Creates[mix] \cup Deletes[mix] \cup {None}]
    /\ \A c \in Clients : (todo[c] # {}) = (pc[c] = "look")
    /\ quiet \in [Clients -> BOOLEAN]

\* The references that foreign keys keep, and a resource's tags, never outlive
\* what they are of: an instance its cluster, groups and replication source, a
\* cluster its groups, a node group or add-on its cluster, an item its table, a
\* configuration its bucket, whatever was deleted between the lookups of a create
\* and its INSERT.
NothingOutlivesItsParent ==
    /\ \A e \in Stored : row[e].refs \ Outside \subseteq Stored
    /\ tagged \subseteq Stored

\* What holds of the rows whatever overlaps: both of the above.
RowsAreSound == TypeOK /\ NothingOutlivesItsParent

\* What the code checks at a create holds of the row it inserts: a subnet group or
\* cluster is of one VPC, and if no other step wrote since the request began, what
\* it looked up is there, a node group's subnets are its cluster's, and an
\* instance does not replicate itself.
CreateIsSound(c, e) ==
    /\ OneVpc(row'[e].refs)
    /\ quiet[c] =>
          /\ \A x \in LookedUp(e, row'[e].refs) : Exists(x) /\ x # e
          /\ e[1] = "nodeGroup" =>
                SubnetsIn(row'[e].refs) \subseteq SubnetsIn(row'[ParentOf(e)].refs)

\* An update of an item changes the attributes it names and no other, unless a write
\* fell between its read of the item and its own.
UpdateMerges(c, e) ==
    quiet[c] => row'[e].attrs =
        req[c].row.attrs \cup (IF row[e] = None THEN {} ELSE row[e].attrs)

\* A request that inserts a row leaves the one it was checked to be; both of the
\* above.
WritesAreSound ==
    [][\A c \in Clients, e \in Entities :
          pc[c] = "insert" /\ pc'[c] # "insert" /\ req[c].e = e /\ row'[e] # None =>
             /\ row[e] = None => CreateIsSound(c, e)
             /\ req[c].op = "ddbUpdateItem" => UpdateMerges(c, e)]_vars

\* A protected cluster or instance is deleted only by a request that another one
\* overtook: one that read an unprotected row of that name, since replaced.
QuietProtectedStay ==
    [][\A e \in Stored : row[e].protected /\ row'[e] = None =>
          \E c \in Clients : pc[c] = "delete" /\ pc'[c] # "delete" /\ ~quiet[c]]_vars
=============================================================================

----------------------------- MODULE EC2Network -----------------------------
(***************************************************************************)
(* EC2's network in one account and region: VPCs with their main route     *)
(* table, subnets, internet gateways, route tables with their associations *)
(* and routes, the instances that hold a subnet, and the tags of all of    *)
(* them, with the foreign keys, cascades and triggers between them.        *)
(*                                                                         *)
(* A request that is one statement or one transaction is one step. Of a    *)
(* longer one, the lookups it begins with are the step it arrives in, and  *)
(* each later statement a step of its own; a refusal by a lookup changes   *)
(* nothing and is no step.                                                 *)
(***************************************************************************)
EXTENDS Naturals, FiniteSets

CONSTANTS
    Clients,                                       \* requests that may be in flight at once
    Vpcs, Subnets, Gateways, Tables, Assocs, Instances, \* the ids ec2RandID may draw
    Cidrs,                                         \* the blocks subnets ask for, as sets of addresses
    Taggable,                                      \* the ids that tags are put on
    Mixes,                                         \* the sets of operations clients send
    None, Detached                                 \* no row; a gateway's missing VPC

Ids == Vpcs \cup Subnets \cup Gateways \cup Tables \cup Assocs \cup Instances

\* ec2VpcDNSAttributes.
DNS == {"support", "hostnames"}

\* The VPC's own block, which its tables' local routes have, and another.
Dests == {"local", "other"}

SubnetRows   == [vpc: Vpcs, cidr: Cidrs, public: BOOLEAN]
AssocRows    == [table: Tables, subnet: Subnets]
InstanceRows == [subnet: Subnets, live: BOOLEAN]

ASSUME IdsAssumption ==
    /\ Taggable \subseteq Ids
    /\ \A row \in (SUBSET DNS) \cup SubnetRows \cup AssocRows \cup InstanceRows : row # None
    /\ None \notin Vpcs \cup {"local", "target"}
    /\ Detached \notin Vpcs \cup {None}

VARIABLES
    vpc,      \* ec2_vpcs: the DNS attributes each has on
    subnet,   \* ec2_subnets
    gateway,  \* ec2_internet_gateways: each one's VPC, or Detached
    table,    \* ec2_route_tables: each one's VPC
    main,     \* the tables that hold a main association
    assoc,    \* ec2_route_table_associations with a subnet
    route,    \* ec2_routes: <<table, destination>> -> what it leads to
    instance, \* ec2_instances, each live one with its interface
    tagged,   \* ec2_tags: the ids that carry a tag
    used,     \* the ids drawn so far: 64 random bits do not recur
    ops,      \* the operations the clients of this behaviour send
    pc, req,  \* each client's place and request
    seen,     \* what it read of the rows it works on
    quiet     \* no other request has written to its VPC since it began

db   == <<vpc, subnet, gateway, table, main, assoc, route, instance, tagged, used>>
vars == <<vpc, subnet, gateway, table, main, assoc, route, instance, tagged, used, ops, pc, req, seen, quiet>>

Init ==
    /\ vpc = [v \in Vpcs |-> None]
    /\ subnet = [s \in Subnets |-> None]
    /\ gateway = [g \in Gateways |-> None]
    /\ table = [t \in Tables |-> None]
    /\ main = {}
    /\ assoc = [a \in Assocs |-> None]
    /\ route = [r \in Tables \X Dests |-> None]
    /\ instance = [i \in Instances |-> None]
    /\ tagged = {} /\ used = {}
    /\ ops \in Mixes
    /\ pc = [c \in Clients |-> "idle"]
    /\ req = [c \in Clients |-> None]
    /\ seen = [c \in Clients |-> {}]
    /\ quiet = [c \in Clients |-> TRUE]

Stored ==
    {v \in Vpcs : vpc[v] # None} \cup {s \in Subnets : subnet[s] # None} \cup
    {g \in Gateways : gateway[g] # None} \cup {t \in Tables : table[t] # None} \cup
    {i \in Instances : instance[i] # None}

-----------------------------------------------------------------------------
\* How requests go from one statement to the next.

\* A request arrives, and its lookups of the rows `needs` have found them.
Begin(c, r, place, needs, reads) ==
    /\ pc[c] = "idle" /\ r.op \in ops
    /\ needs \subseteq Stored
    /\ pc' = [pc EXCEPT ![c] = place]
    /\ req' = [req EXCEPT ![c] = r]
    /\ seen' = [seen EXCEPT ![c] = reads]
    /\ UNCHANGED <<db, quiet>>

At(c, place, o) == pc[c] = place /\ req[c].op = o

\* A request of one step.
Whole(c, o) == pc[c] = "idle" /\ o \in ops /\ UNCHANGED <<pc, req, seen, quiet>>

End(c) ==
    /\ pc' = [pc EXCEPT ![c] = "idle"]
    /\ req' = [req EXCEPT ![c] = None]
    /\ seen' = [seen EXCEPT ![c] = {}]
    /\ quiet' = [quiet EXCEPT ![c] = TRUE]

\* A create draws its ids. Its tags follow in a statement of their own.
Draw(ids) == ids \cap used = {} /\ used' = used \cup ids

ThenTag(c, id, withTags) ==
    IF withTags
    THEN /\ pc' = [pc EXCEPT ![c] = "write"]
         /\ req' = [req EXCEPT ![c] = [op |-> "CreateTags", id |-> id]]
         /\ seen' = [seen EXCEPT ![c] = {}]
         /\ quiet' = [quiet EXCEPT ![c] = TRUE]
    ELSE End(c)

MayTag(id) == IF id \in Taggable THEN BOOLEAN ELSE {FALSE}

-----------------------------------------------------------------------------
\* VPCs.

\* The main table, its main association and its local route.
InsertMainRouteTable(v, t) ==
    /\ table' = [table EXCEPT ![t] = v]
    /\ main' = main \cup {t}
    /\ route' = [route EXCEPT ![<<t, "local">>] = "local"]

CreateVpc(c) ==
    /\ pc[c] = "idle" /\ "CreateVpc" \in ops
    /\ \E v \in Vpcs, t \in Tables : \E withTags \in MayTag(v) :
          /\ Draw({v, t})
          /\ vpc' = [vpc EXCEPT ![v] = {"support"}]
          /\ InsertMainRouteTable(v, t)
          /\ ThenTag(c, v, withTags)
    /\ UNCHANGED <<subnet, gateway, assoc, instance, tagged>>

\* ModifyVpcAttribute: GetVPC and the check, then UpdateVPC's GetVPC and UPDATE.
ModifyVpcAttribute(c) ==
    \E v \in Vpcs, a \in DNS, on \in BOOLEAN :
        /\ a = "hostnames" /\ on /\ vpc[v] # None => "support" \in vpc[v]
        /\ Begin(c, [op |-> "ModifyVpcAttribute", vpc |-> v, attr |-> a, on |-> on], "read", {v}, {})

ReadVpc(c) ==
    /\ At(c, "read", "ModifyVpcAttribute")
    /\ \/ vpc[req[c].vpc] = None /\ End(c)
       \/ /\ vpc[req[c].vpc] # None
          /\ pc' = [pc EXCEPT ![c] = "write"]
          /\ seen' = [seen EXCEPT ![c] = vpc[req[c].vpc]]
          /\ UNCHANGED <<req, quiet>>
    /\ UNCHANGED db

\* A variant for the runs' mutants: both attributes written from the request.
Unread(c) == IF req[c].on THEN {req[c].attr} ELSE {}

Changed(c) == IF req[c].on THEN seen[c] \cup {req[c].attr} ELSE seen[c] \ {req[c].attr}

Modifies(d, v) == pc[d] # "idle" /\ req[d].op = "ModifyVpcAttribute" /\ req[d].vpc = v

\* The UPDATE of a row that is gone changes nothing and is no error.
UpdateVpc(c) ==
    LET v == req[c].vpc IN
    /\ At(c, "write", "ModifyVpcAttribute")
    /\ vpc' = IF vpc[v] = None THEN vpc ELSE [vpc EXCEPT ![v] = Changed(c)]
    /\ pc' = [pc EXCEPT ![c] = "idle"]
    /\ req' = [req EXCEPT ![c] = None]
    /\ seen' = [seen EXCEPT ![c] = {}]
    /\ quiet' = [d \in Clients |-> d = c \/ (quiet[d] /\ ~Modifies(d, v))]
    /\ UNCHANGED <<subnet, gateway, table, main, assoc, route, instance, tagged, used>>

\* What ON DELETE CASCADE takes along with the rows of a VPC's or a subnet's delete.
SubnetsOf(v) == {s \in Subnets : subnet[s] # None /\ subnet[s].vpc = v}
TablesOf(v)  == {t \in Tables : table[t] = v}
Inhabited(S) == \E i \in Instances : instance[i] # None /\ instance[i].subnet \in S

Without(f, gone) == [x \in DOMAIN f |-> IF x \in gone THEN None ELSE f[x]]

AssocsAt(T, S) == {a \in Assocs : assoc[a] # None /\ (assoc[a].table \in T \/ assoc[a].subnet \in S)}

\* A variant for the runs' mutants: the triggers of the VPC's own row alone.
OwnRow(v) == {v}

\* The tagged rows a VPC's delete takes. Each row's trigger drops its tags.
Cascade(v) == {v} \cup SubnetsOf(v) \cup TablesOf(v)

DropTags(ids) == tagged' = tagged \ ids

Restricted(S) == Inhabited(S)

\* A variant for the runs' mutants: the detach in a transaction of its own.
DeleteVpcApart(c) ==
    \E v \in Vpcs :
        LET S == SubnetsOf(v)  T == TablesOf(v) IN
        /\ Whole(c, "DeleteVpc")
        /\ vpc[v] # None
        /\ gateway' = [g \in Gateways |-> IF gateway[g] = v THEN Detached ELSE gateway[g]]
        /\ IF Restricted(S)
           THEN UNCHANGED <<vpc, subnet, table, main, assoc, route, tagged>>
           ELSE /\ vpc' = Without(vpc, {v})
                /\ subnet' = Without(subnet, S)
                /\ table' = Without(table, T)
                /\ main' = main \ T
                /\ assoc' = Without(assoc, AssocsAt(T, S))
                /\ route' = Without(route, T \X Dests)
                /\ DropTags(Cascade(v))
        /\ UNCHANGED <<instance, used>>

\* DeleteVPC: detach the gateways and delete, in one transaction.
DeleteVpc(c) ==
    \E v \in Vpcs :
        LET S == SubnetsOf(v)  T == TablesOf(v) IN
        /\ Whole(c, "DeleteVpc")
        /\ vpc[v] # None /\ ~Restricted(S)
        /\ gateway' = [g \in Gateways |-> IF gateway[g] = v THEN Detached ELSE gateway[g]]
        /\ vpc' = Without(vpc, {v})
        /\ subnet' = Without(subnet, S)
        /\ table' = Without(table, T)
        /\ main' = main \ T
        /\ assoc' = Without(assoc, AssocsAt(T, S))
        /\ route' = Without(route, T \X Dests)
        /\ DropTags(Cascade(v))
        /\ UNCHANGED <<instance, used>>

-----------------------------------------------------------------------------
\* Subnets.

CreateSubnet(c) ==
    \E v \in Vpcs, b \in Cidrs :
        Begin(c, [op |-> "CreateSubnet", vpc |-> v, cidr |-> b], "write", {v}, {})

Overlaps(v, b) == \E s \in SubnetsOf(v) : subnet[s].cidr \cap b # {}

\* A variant for the runs' mutants: the siblings not looked at.
InsertSubnetUnchecked(c) ==
    /\ At(c, "write", "CreateSubnet")
    /\ IF vpc[req[c].vpc] = None
       THEN End(c) /\ UNCHANGED db
       ELSE \E s \in Subnets : \E withTags \in MayTag(s) :
               /\ Draw({s})
               /\ subnet' = [subnet EXCEPT ![s] = [vpc |-> req[c].vpc, cidr |-> req[c].cidr, public |-> FALSE]]
               /\ ThenTag(c, s, withTags)
               /\ UNCHANGED <<vpc, gateway, table, main, assoc, route, instance, tagged>>

\* Repository.CreateSubnet: the VPC and the siblings' blocks are read in the transaction.
InsertSubnet(c) ==
    /\ At(c, "write", "CreateSubnet")
    /\ IF vpc[req[c].vpc] = None \/ Overlaps(req[c].vpc, req[c].cidr)
       THEN End(c) /\ UNCHANGED db
       ELSE \E s \in Subnets : \E withTags \in MayTag(s) :
               /\ Draw({s})
               /\ subnet' = [subnet EXCEPT ![s] = [vpc |-> req[c].vpc, cidr |-> req[c].cidr, public |-> FALSE]]
               /\ ThenTag(c, s, withTags)
               /\ UNCHANGED <<vpc, gateway, table, main, assoc, route, instance, tagged>>

\* ModifySubnetAttribute: GetSubnet, then the UPDATE.
ModifySubnetAttribute(c) ==
    \E s \in Subnets, on \in BOOLEAN :
        Begin(c, [op |-> "ModifySubnetAttribute", subnet |-> s, on |-> on], "write", {s}, {})

UpdateSubnet(c) ==
    LET s == req[c].subnet IN
    /\ At(c, "write", "ModifySubnetAttribute")
    /\ subnet' = IF subnet[s] = None THEN subnet ELSE [subnet EXCEPT ![s].public = req[c].on]
    /\ End(c)
    /\ UNCHANGED <<vpc, gateway, table, main, assoc, route, instance, tagged, used>>

\* DeleteSubnet: list the instances, delete each that was terminated, and the subnet.
DeleteSubnet(c) ==
    \E s \in Subnets :
        Begin(c, [op |-> "DeleteSubnet", subnet |-> s], "write", {s},
              {i \in Instances : instance[i] # None /\ instance[i].subnet = s /\ ~instance[i].live})

\* DeleteInstance, whose error is ignored; the row may be gone.
PurgeInstance(c) ==
    /\ At(c, "write", "DeleteSubnet")
    /\ \E i \in seen[c] :
          /\ instance' = Without(instance, {i})
          /\ DropTags({i})
          /\ seen' = [seen EXCEPT ![c] = @ \ {i}]
    /\ UNCHANGED <<vpc, subnet, gateway, table, main, assoc, route, used, pc, req, quiet>>

DropSubnet(c) ==
    LET s == req[c].subnet IN
    /\ At(c, "write", "DeleteSubnet") /\ seen[c] = {}
    /\ IF Restricted({s})
       THEN UNCHANGED <<subnet, assoc, tagged>>
       ELSE /\ subnet' = Without(subnet, {s})
            /\ assoc' = Without(assoc, AssocsAt({}, {s}))
            /\ DropTags({s})
    /\ End(c)
    /\ UNCHANGED <<vpc, gateway, table, main, route, instance, used>>

-----------------------------------------------------------------------------
\* Internet gateways.

CreateInternetGateway(c) ==
    /\ pc[c] = "idle" /\ "CreateInternetGateway" \in ops
    /\ \E g \in Gateways : \E withTags \in MayTag(g) :
          /\ Draw({g})
          /\ gateway' = [gateway EXCEPT ![g] = Detached]
          /\ ThenTag(c, g, withTags)
    /\ UNCHANGED <<vpc, subnet, table, main, assoc, route, instance, tagged>>

AttachInternetGateway(c) ==
    \E g \in Gateways, v \in Vpcs :
        Begin(c, [op |-> "AttachInternetGateway", gateway |-> g, vpc |-> v], "write", {g, v}, {})

DetachInternetGateway(c) ==
    \E g \in Gateways : Begin(c, [op |-> "DetachInternetGateway", gateway |-> g], "write", {g}, {})

\* The UPDATE of either: no foreign key holds vpc_id to a VPC.
UpdateGateway(c) ==
    LET g == req[c].gateway IN
    /\ At(c, "write", "AttachInternetGateway") \/ At(c, "write", "DetachInternetGateway")
    /\ gateway' = IF gateway[g] = None THEN gateway
                  ELSE [gateway EXCEPT ![g] = IF req[c].op = "AttachInternetGateway" THEN req[c].vpc ELSE Detached]
    /\ End(c)
    /\ UNCHANGED <<vpc, subnet, table, main, assoc, route, instance, tagged, used>>

\* One DELETE, attached or not.
DeleteInternetGateway(c) ==
    \E g \in Gateways :
        /\ Whole(c, "DeleteInternetGateway")
        /\ gateway[g] # None
        /\ gateway' = Without(gateway, {g})
        /\ DropTags({g})
        /\ UNCHANGED <<vpc, subnet, table, main, assoc, route, instance, used>>

-----------------------------------------------------------------------------
\* Route tables, their associations and routes.

CreateRouteTable(c) ==
    \E v \in Vpcs : Begin(c, [op |-> "CreateRouteTable", vpc |-> v], "write", {v}, {})

\* The table with its local route; its foreign key fails when the VPC is gone.
InsertRouteTable(c) ==
    /\ At(c, "write", "CreateRouteTable")
    /\ IF vpc[req[c].vpc] = None
       THEN End(c) /\ UNCHANGED db
       ELSE \E t \in Tables : \E withTags \in MayTag(t) :
               /\ Draw({t})
               /\ table' = [table EXCEPT ![t] = req[c].vpc]
               /\ route' = [route EXCEPT ![<<t, "local">>] = "local"]
               /\ ThenTag(c, t, withTags)
               /\ UNCHANGED <<vpc, subnet, gateway, main, assoc, instance, tagged>>

\* A variant for the runs' mutants: the main table is like any other.
DeletesAny(t) == TRUE

NotMain(t) == t \notin main

\* DeleteRouteTable: a DELETE that spares a main table; a read for the error alone follows.
DeleteRouteTable(c) ==
    \E t \in Tables :
        /\ Whole(c, "DeleteRouteTable")
        /\ table[t] # None /\ NotMain(t)
        /\ table' = Without(table, {t})
        /\ main' = main \ {t}
        /\ assoc' = Without(assoc, AssocsAt({t}, {}))
        /\ route' = Without(route, {t} \X Dests)
        /\ DropTags({t})
        /\ UNCHANGED <<vpc, subnet, gateway, instance, used>>

AssociateRouteTable(c) ==
    \E t \in Tables, s \in Subnets :
        Begin(c, [op |-> "AssociateRouteTable", table |-> t, subnet |-> s], "write", {t, s}, {})

\* The INSERT's foreign keys and UNIQUE (account_id, subnet_id).
MayAssociate(t, s) ==
    table[t] # None /\ subnet[s] # None /\ \A a \in Assocs : assoc[a] # None => assoc[a].subnet # s

InsertAssociation(c) ==
    LET t == req[c].table  s == req[c].subnet IN
    /\ At(c, "write", "AssociateRouteTable")
    /\ IF ~MayAssociate(t, s)
       THEN UNCHANGED db
       ELSE /\ \E a \in Assocs :
                  Draw({a}) /\ assoc' = [assoc EXCEPT ![a] = [table |-> t, subnet |-> s]]
            /\ UNCHANGED <<vpc, subnet, gateway, table, main, route, instance, tagged>>
    /\ End(c)

\* DisassociateRouteTable reads `main`, refuses a main association, and deletes by id.
DisassociateRouteTable(c) ==
    \E a \in Assocs :
        /\ assoc[a] # None
        /\ Begin(c, [op |-> "DisassociateRouteTable", assoc |-> a], "write", {}, {})

DropAssociation(c) ==
    /\ At(c, "write", "DisassociateRouteTable")
    /\ assoc' = Without(assoc, {req[c].assoc})
    /\ End(c)
    /\ UNCHANGED <<vpc, subnet, gateway, table, main, route, instance, tagged, used>>

CreateRoute(c) ==
    \E t \in Tables, d \in Dests :
        Begin(c, [op |-> "CreateRoute", table |-> t, dest |-> d], "write", {t}, {})

\* The INSERT: the foreign key and PRIMARY KEY (route_table_id, destination_cidr_block).
InsertRoute(c) ==
    LET r == <<req[c].table, req[c].dest>> IN
    /\ At(c, "write", "CreateRoute")
    /\ route' = IF table[r[1]] # None /\ route[r] = None THEN [route EXCEPT ![r] = "target"] ELSE route
    /\ End(c)
    /\ UNCHANGED <<vpc, subnet, gateway, table, main, assoc, instance, tagged, used>>

\* DeleteRoute reads the route's gateway_id, refuses the local route, and deletes by key.
MayDeleteRoute(r) == route[r] \notin {None, "local"}

DeleteRoute(c) ==
    \E t \in Tables, d \in Dests :
        /\ MayDeleteRoute(<<t, d>>)
        /\ Begin(c, [op |-> "DeleteRoute", table |-> t, dest |-> d], "write", {t}, {})

DropRoute(c) ==
    /\ At(c, "write", "DeleteRoute")
    /\ route' = Without(route, {<<req[c].table, req[c].dest>>})
    /\ End(c)
    /\ UNCHANGED <<vpc, subnet, gateway, table, main, assoc, instance, tagged, used>>

-----------------------------------------------------------------------------
\* Instances, as far as subnets see them.

RunInstances(c) ==
    \E s \in Subnets : Begin(c, [op |-> "RunInstances", subnet |-> s], "write", {s}, {})

\* CreateInstance's transaction: the instance and its interface in the subnet.
InsertInstance(c) ==
    /\ At(c, "write", "RunInstances")
    /\ IF subnet[req[c].subnet] = None
       THEN End(c) /\ UNCHANGED db
       ELSE \E i \in Instances : \E withTags \in MayTag(i) :
               /\ Draw({i})
               /\ instance' = [instance EXCEPT ![i] = [subnet |-> req[c].subnet, live |-> TRUE]]
               /\ ThenTag(c, i, withTags)
               /\ UNCHANGED <<vpc, subnet, gateway, table, main, assoc, route, tagged>>

\* SetInstanceState to terminated: all the ids or none, in one transaction.
TerminateInstances(c) ==
    \E S \in SUBSET Instances \ {{}} :
        /\ Whole(c, "TerminateInstances")
        /\ \A i \in S : instance[i] # None
        /\ instance' = [i \in Instances |-> IF i \in S THEN [instance[i] EXCEPT !.live = FALSE] ELSE instance[i]]
        /\ UNCHANGED <<vpc, subnet, gateway, table, main, assoc, route, tagged, used>>

-----------------------------------------------------------------------------
\* Tags.

CreateTags(c) == \E x \in Taggable : Begin(c, [op |-> "CreateTags", id |-> x], "write", {x}, {})
DeleteTags(c) == \E x \in Taggable : Begin(c, [op |-> "DeleteTags", id |-> x], "write", {x}, {})

\* PutTags, of CreateTags or of a create's tagNew: no foreign key to the resource.
PutTags(c) ==
    /\ At(c, "write", "CreateTags")
    /\ tagged' = tagged \cup {req[c].id}
    /\ End(c)
    /\ UNCHANGED <<vpc, subnet, gateway, table, main, assoc, route, instance, used>>

RemoveTags(c) ==
    /\ At(c, "write", "DeleteTags")
    /\ tagged' = tagged \ {req[c].id}
    /\ End(c)
    /\ UNCHANGED <<vpc, subnet, gateway, table, main, assoc, route, instance, used>>

-----------------------------------------------------------------------------
Vpc(c)     == CreateVpc(c) \/ ModifyVpcAttribute(c) \/ ReadVpc(c) \/ UpdateVpc(c) \/ DeleteVpc(c)
Subnet(c)  == \/ CreateSubnet(c) \/ InsertSubnet(c) \/ ModifySubnetAttribute(c) \/ UpdateSubnet(c)
              \/ DeleteSubnet(c) \/ PurgeInstance(c) \/ DropSubnet(c)
Gateway(c) == \/ CreateInternetGateway(c) \/ AttachInternetGateway(c) \/ DetachInternetGateway(c)
              \/ UpdateGateway(c) \/ DeleteInternetGateway(c)
Routing(c) == \/ CreateRouteTable(c) \/ InsertRouteTable(c) \/ DeleteRouteTable(c)
              \/ AssociateRouteTable(c) \/ InsertAssociation(c)
              \/ DisassociateRouteTable(c) \/ DropAssociation(c)
              \/ CreateRoute(c) \/ InsertRoute(c) \/ DeleteRoute(c) \/ DropRoute(c)
Compute(c) == RunInstances(c) \/ InsertInstance(c) \/ TerminateInstances(c)
Tags(c)    == CreateTags(c) \/ DeleteTags(c) \/ PutTags(c) \/ RemoveTags(c)

Next ==
    /\ \E c \in Clients : Vpc(c) \/ Subnet(c) \/ Gateway(c) \/ Routing(c) \/ Compute(c) \/ Tags(c)
    /\ UNCHANGED ops

Spec == Init /\ [][Next]_vars

-----------------------------------------------------------------------------
\* Properties.

TypeOK ==
    /\ vpc \in [Vpcs -> {None} \cup SUBSET DNS]
    /\ subnet \in [Subnets -> SubnetRows \cup {None}]
    /\ gateway \in [Gateways -> Vpcs \cup {Detached, None}]
    /\ table \in [Tables -> Vpcs \cup {None}]
    /\ main \subseteq Tables
    /\ assoc \in [Assocs -> AssocRows \cup {None}]
    /\ route \in [Tables \X Dests -> {"local", "target", None}]
    /\ instance \in [Instances -> InstanceRows \cup {None}]
    /\ tagged \subseteq Taggable /\ used \subseteq Ids
    /\ pc \in [Clients -> {"idle", "read", "write"}]
    /\ quiet \in [Clients -> BOOLEAN]

\* The foreign keys and their cascades: whatever runs beside a delete, nothing is
\* left in a VPC, a subnet or a route table that is gone, and no instance's
\* subnet goes from under it.
NothingOutlivesItsParent ==
    /\ \A s \in Subnets : subnet[s] # None => vpc[subnet[s].vpc] # None
    /\ \A t \in Tables : table[t] # None => vpc[table[t]] # None
    /\ \A a \in Assocs : assoc[a] # None => table[assoc[a].table] # None /\ subnet[assoc[a].subnet] # None
    /\ \A t \in Tables, d \in Dests : route[<<t, d>>] # None => table[t] # None
    /\ \A i \in Instances : instance[i] # None => subnet[instance[i].subnet] # None

\* "which DeleteRouteTable refuses and DeleteVpc removes": a VPC has its one main
\* route table for its life, every table its local route, and a subnet at most one
\* association of its own.
EveryVpcRoutes ==
    /\ \A v \in Vpcs : vpc[v] # None => \E t \in main : main \cap TablesOf(v) = {t}
    /\ \A t \in Tables : table[t] # None => route[<<t, "local">>] = "local"
    /\ \A a, b \in Assocs : assoc[a] # None /\ assoc[b] # None /\ assoc[a].subnet = assoc[b].subnet => a = b

\* What holds of the network whatever overlaps: both of the above.
NetworkIsSound == TypeOK /\ NothingOutlivesItsParent /\ EveryVpcRoutes

\* CRITICAL[ec2-subnet-overlap-refused], "so concurrent creates cannot both pass":
\* the subnets of a VPC share no address.
SubnetsNeverOverlap ==
    \A s, r \in Subnets :
        s # r /\ subnet[s] # None /\ subnet[r] # None /\ subnet[s].vpc = subnet[r].vpc =>
            subnet[s].cidr \cap subnet[r].cidr = {}

\* ModifyVpcAttribute reads the row twice and writes it whole. With no other
\* change of the VPC beside it, it leaves the other attribute alone, and host names
\* are turned on only beside DNS support.
QuietModifyIsExact ==
    [][\A c \in Clients :
          At(c, "write", "ModifyVpcAttribute") /\ pc'[c] = "idle" /\ quiet[c] =>
             LET v == req[c].vpc  a == req[c].attr IN
             vpc[v] # None =>
                /\ vpc'[v] \ {a} = vpc[v] \ {a} /\ (a \in vpc'[v] <=> req[c].on)
                /\ a = "hostnames" /\ req[c].on => "support" \in vpc'[v]]_vars

\* "so a refused delete leaves the gateways attached": a gateway loses its VPC only to
\* a detach or with the VPC. "purging terminated-state rows here is the right scope":
\* DeleteSubnet deletes by a list it read earlier, and no live instance is deleted.
DeletesSpareTheLiving ==
    [][/\ \A g \in Gateways :
             gateway[g] \in Vpcs /\ gateway'[g] = Detached =>
                \/ vpc[gateway[g]] = None \/ vpc'[gateway[g]] = None
                \/ \E c \in Clients : At(c, "write", "DetachInternetGateway") /\ req[c].gateway = g
       /\ \A i \in Instances : instance[i] # None /\ instance[i].live => instance'[i] # None]_vars

\* "including rows a foreign-key cascade removes": whatever deletes a resource
\* deletes its tags in the same step.
TagsGoWithTheirResource ==
    [][\A x \in tagged \cap Stored : x \notin Stored' => x \notin tagged']_vars
=============================================================================

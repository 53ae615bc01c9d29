-------------------------- MODULE EC2NetworkProofs --------------------------
(***************************************************************************)
(* For any clients, ids and blocks: nothing outlives its VPC, subnet or    *)
(* route table, every VPC keeps its main route table, the subnets of a VPC *)
(* never overlap, and deletes take what they may and its tags.             *)
(***************************************************************************)
EXTENDS EC2Network, TLAPS

-----------------------------------------------------------------------------
(* The inductive invariant. *)

RowTypes ==
    /\ vpc \in [Vpcs -> {None} \cup SUBSET DNS]
    /\ subnet \in [Subnets -> SubnetRows \cup {None}]
    /\ gateway \in [Gateways -> Vpcs \cup {Detached, None}]
    /\ table \in [Tables -> Vpcs \cup {None}]
    /\ main \subseteq Tables
    /\ assoc \in [Assocs -> AssocRows \cup {None}]
    /\ route \in [Tables \X Dests -> {"local", "target", None}]
    /\ instance \in [Instances -> InstanceRows \cup {None}]
    /\ tagged \subseteq Taggable /\ used \subseteq Ids

\* Whatever is stored was drawn, so an id drawn anew names no row.
Drawn ==
    /\ \A v \in Vpcs : vpc[v] # None => v \in used
    /\ \A s \in Subnets : subnet[s] # None => s \in used
    /\ \A g \in Gateways : gateway[g] # None => g \in used
    /\ \A t \in Tables : table[t] # None => t \in used
    /\ \A a \in Assocs : assoc[a] # None => a \in used
    /\ \A i \in Instances : instance[i] # None => i \in used

\* A main association goes with its table.
MainsAreTables == \A t \in main : table[t] # None

DbInv ==
    /\ RowTypes /\ Drawn /\ MainsAreTables
    /\ NothingOutlivesItsParent /\ EveryVpcRoutes /\ SubnetsNeverOverlap

\* The requests have no set of their own in the model: only that req and seen are of clients.
ClientTypes ==
    /\ pc \in [Clients -> {"idle", "read", "write"}]
    /\ quiet \in [Clients -> BOOLEAN]
    /\ DOMAIN req = Clients /\ DOMAIN seen = Clients

\* What a request carries. What it found stored had been drawn.
RequestOK(r) ==
    /\ r.op = "ModifyVpcAttribute" => r.vpc \in Vpcs \cap used /\ r.attr \in DNS /\ r.on \in BOOLEAN
    /\ r.op \in {"CreateSubnet", "CreateRouteTable", "AttachInternetGateway"} => r.vpc \in Vpcs
    /\ r.op = "CreateSubnet" => r.cidr \in Cidrs
    /\ r.op \in {"ModifySubnetAttribute", "DeleteSubnet", "RunInstances", "AssociateRouteTable"} =>
          r.subnet \in Subnets
    /\ r.op = "ModifySubnetAttribute" => r.on \in BOOLEAN
    /\ r.op \in {"AttachInternetGateway", "DetachInternetGateway"} => r.gateway \in Gateways
    /\ r.op = "AssociateRouteTable" => r.table \in Tables
    /\ r.op = "DisassociateRouteTable" => r.assoc \in Assocs
    /\ r.op \in {"CreateRoute", "DeleteRoute"} => r.table \in Tables \cap used /\ r.dest \in Dests
    /\ r.op = "CreateTags" => r.id \in Taggable

\* DeleteSubnet's list is of instances that are not live or gone, for good.
ListedOK(c) == \A i \in seen[c] : i \in Instances \cap used /\ (instance[i] = None \/ ~instance[i].live)

\* A quiet ModifyVpcAttribute has read the row as it still is, and its check still holds.
ModifyOK(c) ==
    LET v == req[c].vpc IN
    /\ pc[c] = "write" => seen[c] \subseteq DNS
    /\ quiet[c] /\ vpc[v] # None =>
          /\ req[c].attr = "hostnames" /\ req[c].on => "support" \in vpc[v]
          /\ pc[c] = "write" => seen[c] = vpc[v]

ClientOK(c) ==
    pc[c] # "idle" =>
        /\ RequestOK(req[c])
        /\ req[c].op = "ModifyVpcAttribute" => ModifyOK(c)
        /\ req[c].op = "DeleteSubnet" => ListedOK(c)
        /\ req[c].op = "DeleteRoute" => route[<<req[c].table, req[c].dest>>] # "local"

Inv == DbInv /\ ClientTypes /\ \A c \in Clients : ClientOK(c)

-----------------------------------------------------------------------------
(* What a step of one request leaves the others, and what is promised of it. *)

OthersStay(c) ==
    \A d \in Clients \ {c} :
        pc'[d] = pc[d] /\ req'[d] = req[d] /\ seen'[d] = seen[d] /\ (quiet'[d] => quiet[d])

\* Of the rows whose ids were drawn before, a step only takes away; and a VPC it
\* changes leaves no other change of that VPC quiet.
RowsFade(c) ==
    /\ used \subseteq used'
    /\ \A i \in Instances \cap used :
          instance'[i] # None => instance[i] # None /\ (instance'[i].live => instance[i].live)
    /\ \A t \in Tables \cap used, d \in Dests : route'[<<t, d>>] = "local" => route[<<t, d>>] = "local"
    /\ \A v \in Vpcs \cap used :
          \/ vpc'[v] = None \/ vpc'[v] = vpc[v]
          \/ \A d \in Clients \ {c} : Modifies(d, v) => ~quiet'[d]

GatewaysSpared ==
    \A g \in Gateways :
        gateway[g] \in Vpcs /\ gateway'[g] = Detached =>
            \/ vpc[gateway[g]] = None \/ vpc'[gateway[g]] = None
            \/ \E c \in Clients : At(c, "write", "DetachInternetGateway") /\ req[c].gateway = g

LivingSpared == \A i \in Instances : instance[i] # None /\ instance[i].live => instance'[i] # None

TagsGo == \A x \in tagged \cap Stored : x \notin Stored' => x \notin tagged'

ModifyIsExact(c) ==
    At(c, "write", "ModifyVpcAttribute") /\ pc'[c] = "idle" /\ quiet[c] =>
        LET v == req[c].vpc  a == req[c].attr IN
        vpc[v] # None =>
            /\ vpc'[v] \ {a} = vpc[v] \ {a} /\ (a \in vpc'[v] <=> req[c].on)
            /\ a = "hostnames" /\ req[c].on => "support" \in vpc'[v]

\* Of the rows a step writes.
GoodRows(c) == DbInv' /\ RowsFade(c) /\ GatewaysSpared /\ LivingSpared /\ TagsGo

GoodStep(c) ==
    /\ Inv' /\ GatewaysSpared /\ LivingSpared /\ TagsGo
    /\ \A d \in Clients : ModifyIsExact(d)

LEMMA OthersAreOK ==
    ASSUME Inv, NEW c \in Clients, OthersStay(c), RowsFade(c), NEW d \in Clients \ {c}
    PROVE  ClientOK(d)'
<1> SUFFICES ASSUME pc'[d] # "idle"
             PROVE  /\ RequestOK(req[d])'
                    /\ req[d].op = "ModifyVpcAttribute" => ModifyOK(d)'
                    /\ req[d].op = "DeleteSubnet" => ListedOK(d)'
                    /\ req[d].op = "DeleteRoute" => route'[<<req[d].table, req[d].dest>>] # "local"
  BY DEF ClientOK, OthersStay
<1>1. /\ pc'[d] = pc[d] /\ req'[d] = req[d] /\ seen'[d] = seen[d] /\ (quiet'[d] => quiet[d])
      /\ pc[d] # "idle" /\ used \subseteq used'
  BY DEF OthersStay, RowsFade
<1>2. /\ RequestOK(req[d])
      /\ req[d].op = "ModifyVpcAttribute" => ModifyOK(d)
      /\ req[d].op = "DeleteSubnet" => ListedOK(d)
      /\ req[d].op = "DeleteRoute" => route[<<req[d].table, req[d].dest>>] # "local"
  BY <1>1 DEF Inv, ClientOK
<1>3. RequestOK(req[d])'
  BY <1>1, <1>2 DEF RequestOK
<1>4. ASSUME req[d].op = "ModifyVpcAttribute" PROVE ModifyOK(d)'
  <2>1. req[d].vpc \in Vpcs \cap used /\ Modifies(d, req[d].vpc)
    BY <1>1, <1>2, <1>4 DEF RequestOK, Modifies
  <2>2. \/ vpc'[req[d].vpc] = None \/ vpc'[req[d].vpc] = vpc[req[d].vpc] \/ ~quiet'[d]
    BY <2>1 DEF RowsFade
  <2> QED
    BY <1>1, <1>2, <1>4, <2>2 DEF ModifyOK
<1>5. ASSUME req[d].op = "DeleteSubnet" PROVE ListedOK(d)'
  BY <1>1, <1>2, <1>5 DEF ListedOK, RowsFade
<1>6. ASSUME req[d].op = "DeleteRoute" PROVE route'[<<req[d].table, req[d].dest>>] # "local"
  BY <1>1, <1>2, <1>6 DEF RequestOK, RowsFade
<1> QED
  BY <1>3, <1>4, <1>5, <1>6

LEMMA StepIsGood ==
    ASSUME Inv, NEW c \in Clients, OthersStay(c), ClientTypes', ClientOK(c)', GoodRows(c), ModifyIsExact(c)
    PROVE  GoodStep(c)
<1>1. \A d \in Clients \ {c} : ClientOK(d)'
  BY OthersAreOK DEF GoodRows
<1>2. \A d \in Clients \ {c} : ModifyIsExact(d)
  BY DEF OthersStay, ModifyIsExact, At
<1> QED
  BY <1>1, <1>2 DEF GoodStep, GoodRows, Inv
-----------------------------------------------------------------------------
(* The ways a request moves. *)

LEMMA EndMoves ==
    ASSUME Inv, NEW c \in Clients, End(c)
    PROVE  OthersStay(c) /\ ClientTypes' /\ ClientOK(c)'
<1>1. pc'[c] = "idle"
  BY DEF Inv, ClientTypes, End
<1> QED
  BY <1>1 DEF Inv, ClientTypes, End, OthersStay, ClientOK

LEMMA ThenTagMoves ==
    ASSUME Inv, NEW c \in Clients, NEW id, NEW withTags \in MayTag(id), ThenTag(c, id, withTags), pc[c] # "read"
    PROVE  /\ OthersStay(c) /\ ClientTypes' /\ ClientOK(c)'
           /\ pc[c] = "write" \/ pc[c] = "idle"
<1>1. CASE withTags
  <2>1. id \in Taggable
    BY <1>1 DEF MayTag
  <2>2. /\ pc' = [pc EXCEPT ![c] = "write"]
        /\ req' = [req EXCEPT ![c] = [op |-> "CreateTags", id |-> id]]
        /\ seen' = [seen EXCEPT ![c] = {}]
        /\ quiet' = [quiet EXCEPT ![c] = TRUE]
    BY <1>1 DEF ThenTag
  <2>3. OthersStay(c) /\ ClientTypes'
    BY <2>2 DEF Inv, ClientTypes, OthersStay
  <2>4. req'[c] = [op |-> "CreateTags", id |-> id]
    BY <2>2 DEF Inv, ClientTypes
  <2>5. ClientOK(c)'
    BY <2>1, <2>4 DEF ClientOK, RequestOK
  <2> QED
    BY <2>3, <2>5 DEF Inv, ClientTypes
<1>2. CASE ~withTags
  BY <1>2, EndMoves DEF ThenTag, Inv, ClientTypes
<1> QED
  BY <1>1, <1>2

LEMMA QuietRows ==
    ASSUME Inv, NEW c \in Clients, UNCHANGED db
    PROVE  GoodRows(c)
<1>1. DbInv'
  BY DEF db, Inv, DbInv, RowTypes, Drawn, MainsAreTables, NothingOutlivesItsParent, EveryVpcRoutes,
         TablesOf, SubnetsNeverOverlap
<1>2. RowsFade(c)
  BY DEF db, RowsFade, Inv, DbInv, RowTypes
<1>3. GatewaysSpared
  BY IdsAssumption DEF db, GatewaysSpared
<1>4. LivingSpared /\ TagsGo
  BY DEF db, LivingSpared, TagsGo, Stored
<1> QED
  BY <1>1, <1>2, <1>3, <1>4 DEF GoodRows

\* A request that arrives, once what it carries and has read is as it should be.
LEMMA BeginIsGood ==
    ASSUME Inv, NEW c \in Clients, NEW r, NEW place \in {"read", "write"}, NEW needs, NEW STATE reads,
           Begin(c, r, place, needs, reads),
           RequestOK(r),
           r.op = "DeleteRoute" => route[<<r.table, r.dest>>] # "local",
           r.op = "DeleteSubnet" =>
               \A i \in reads : i \in Instances \cap used /\ (instance[i] = None \/ ~instance[i].live),
           r.op = "ModifyVpcAttribute" =>
               /\ place = "read"
               /\ vpc[r.vpc] # None => (r.attr = "hostnames" /\ r.on => "support" \in vpc[r.vpc])
    PROVE  GoodStep(c)
<1>1. /\ pc[c] = "idle" /\ pc' = [pc EXCEPT ![c] = place] /\ req' = [req EXCEPT ![c] = r]
      /\ seen' = [seen EXCEPT ![c] = reads] /\ UNCHANGED <<db, quiet>>
  BY DEF Begin
<1>2. OthersStay(c) /\ ClientTypes'
  BY <1>1 DEF Inv, ClientTypes, OthersStay
<1>3. pc'[c] = place /\ req'[c] = r /\ seen'[c] = reads
  BY <1>1 DEF Inv, ClientTypes
<1>4. ClientOK(c)'
  BY <1>1, <1>3 DEF ClientOK, RequestOK, ListedOK, ModifyOK, db
<1>5. GoodRows(c) /\ ModifyIsExact(c)
  BY <1>1, QuietRows DEF ModifyIsExact, At
<1> QED
  BY <1>2, <1>4, <1>5, StepIsGood

LEMMA StoredIsUsed ==
    ASSUME Inv
    PROVE  Stored \subseteq used
BY DEF Inv, DbInv, Drawn, Stored

\* The requests of more than one step, as they arrive.
LEMMA ArrivalsAreGood ==
    ASSUME Inv, NEW c \in Clients,
           \/ ModifyVpcAttribute(c) \/ CreateSubnet(c) \/ ModifySubnetAttribute(c) \/ DeleteSubnet(c)
           \/ AttachInternetGateway(c) \/ DetachInternetGateway(c) \/ CreateRouteTable(c)
           \/ AssociateRouteTable(c) \/ DisassociateRouteTable(c) \/ CreateRoute(c) \/ DeleteRoute(c)
           \/ RunInstances(c) \/ CreateTags(c) \/ DeleteTags(c)
    PROVE  GoodStep(c)
<1>1. CASE ModifyVpcAttribute(c)
  <2>1. PICK v \in Vpcs, a \in DNS, on \in BOOLEAN :
            /\ a = "hostnames" /\ on /\ vpc[v] # None => "support" \in vpc[v]
            /\ Begin(c, [op |-> "ModifyVpcAttribute", vpc |-> v, attr |-> a, on |-> on], "read", {v}, {})
    BY <1>1 DEF ModifyVpcAttribute
  <2>2. v \in used
    BY <2>1, StoredIsUsed DEF Begin
  <2> QED
    BY <2>1, <2>2, BeginIsGood DEF RequestOK
<1>2. CASE CreateSubnet(c)
  BY <1>2, BeginIsGood DEF CreateSubnet, RequestOK
<1>3. CASE ModifySubnetAttribute(c)
  BY <1>3, BeginIsGood DEF ModifySubnetAttribute, RequestOK
<1>4. CASE DeleteSubnet(c)
  <2>1. PICK s \in Subnets :
            Begin(c, [op |-> "DeleteSubnet", subnet |-> s], "write", {s},
                  {i \in Instances : instance[i] # None /\ instance[i].subnet = s /\ ~instance[i].live})
    BY <1>4 DEF DeleteSubnet
  <2>2. \A i \in Instances : instance[i] # None => i \in used
    BY DEF Inv, DbInv, Drawn
  <2> QED
    BY <2>1, <2>2, BeginIsGood DEF RequestOK
<1>5. CASE AttachInternetGateway(c)
  BY <1>5, BeginIsGood DEF AttachInternetGateway, RequestOK
<1>6. CASE DetachInternetGateway(c)
  BY <1>6, BeginIsGood DEF DetachInternetGateway, RequestOK
<1>7. CASE CreateRouteTable(c)
  BY <1>7, BeginIsGood DEF CreateRouteTable, RequestOK
<1>8. CASE AssociateRouteTable(c)
  BY <1>8, BeginIsGood DEF AssociateRouteTable, RequestOK
<1>9. CASE DisassociateRouteTable(c)
  BY <1>9, BeginIsGood DEF DisassociateRouteTable, RequestOK
<1>10. CASE CreateRoute(c)
  <2>1. PICK t \in Tables, d \in Dests :
            Begin(c, [op |-> "CreateRoute", table |-> t, dest |-> d], "write", {t}, {})
    BY <1>10 DEF CreateRoute
  <2>2. t \in used
    BY <2>1, StoredIsUsed DEF Begin
  <2> QED
    BY <2>1, <2>2, BeginIsGood DEF RequestOK
<1>11. CASE DeleteRoute(c)
  <2>1. PICK t \in Tables, d \in Dests :
            /\ MayDeleteRoute(<<t, d>>)
            /\ Begin(c, [op |-> "DeleteRoute", table |-> t, dest |-> d], "write", {t}, {})
    BY <1>11 DEF DeleteRoute
  <2>2. t \in used /\ route[<<t, d>>] # "local"
    BY <2>1, StoredIsUsed DEF Begin, MayDeleteRoute
  <2> QED
    BY <2>1, <2>2, BeginIsGood DEF RequestOK
<1>12. CASE RunInstances(c)
  BY <1>12, BeginIsGood DEF RunInstances, RequestOK
<1>13. CASE CreateTags(c)
  BY <1>13, BeginIsGood DEF CreateTags, RequestOK
<1>14. CASE DeleteTags(c)
  BY <1>14, BeginIsGood DEF DeleteTags, RequestOK
<1> QED
  BY <1>1, <1>2, <1>3, <1>4, <1>5, <1>6, <1>7, <1>8, <1>9, <1>10, <1>11, <1>12, <1>13, <1>14


\* A request that ends, one that goes on to its tags, and one of a single step, once
\* the rows it writes are as they should be.
LEMMA EndIsGood ==
    ASSUME Inv, NEW c \in Clients, End(c), GoodRows(c), ~At(c, "write", "ModifyVpcAttribute")
    PROVE  GoodStep(c)
BY EndMoves, StepIsGood DEF ModifyIsExact

LEMMA ThenTagIsGood ==
    ASSUME Inv, NEW c \in Clients, NEW id, NEW withTags \in MayTag(id), ThenTag(c, id, withTags), GoodRows(c),
           pc[c] = "idle" \/ (pc[c] = "write" /\ req[c].op # "ModifyVpcAttribute")
    PROVE  GoodStep(c)
BY ThenTagMoves, StepIsGood DEF ModifyIsExact, At

LEMMA WholeIsGood ==
    ASSUME Inv, NEW c \in Clients, pc[c] = "idle", UNCHANGED <<pc, req, seen, quiet>>, GoodRows(c)
    PROVE  GoodStep(c)
<1>1. OthersStay(c) /\ ClientTypes' /\ ClientOK(c)'
  BY DEF OthersStay, Inv, ClientTypes, ClientOK
<1>2. ModifyIsExact(c)
  BY DEF ModifyIsExact, At
<1> QED
  BY <1>1, <1>2, StepIsGood
-----------------------------------------------------------------------------
(* VPCs. *)

LEMMA CreateVpcIsGood ==
    ASSUME Inv, NEW c \in Clients, CreateVpc(c)
    PROVE  GoodStep(c)
<1>0. PICK v \in Vpcs, t \in Tables :
          \E withTags \in MayTag(v) :
              /\ Draw({v, t})
              /\ vpc' = [vpc EXCEPT ![v] = {"support"}]
              /\ InsertMainRouteTable(v, t)
              /\ ThenTag(c, v, withTags)
  BY DEF CreateVpc
<1>1. PICK withTags \in MayTag(v) :
          /\ Draw({v, t})
          /\ vpc' = [vpc EXCEPT ![v] = {"support"}]
          /\ InsertMainRouteTable(v, t)
          /\ ThenTag(c, v, withTags)
  BY <1>0
<1>2. UNCHANGED <<subnet, gateway, assoc, instance, tagged>> /\ pc[c] = "idle"
  BY DEF CreateVpc
<1>3. v \notin used /\ t \notin used /\ used' = used \cup {v, t}
  BY <1>1 DEF Draw
<1>4. /\ vpc' = [vpc EXCEPT ![v] = {"support"}] /\ table' = [table EXCEPT ![t] = v]
      /\ main' = main \cup {t} /\ route' = [route EXCEPT ![<<t, "local">>] = "local"]
  BY <1>1 DEF InsertMainRouteTable
<1>5. RowTypes /\ Drawn /\ MainsAreTables /\ NothingOutlivesItsParent /\ EveryVpcRoutes /\ SubnetsNeverOverlap
  BY DEF Inv, DbInv
<1>6. vpc[v] = None /\ table[t] = None /\ t \notin main
  BY <1>3, <1>5 DEF Drawn, MainsAreTables
<1>7. vpc'[v] = {"support"} /\ {"support"} \in SUBSET DNS /\ {"support"} # None /\ v # None
  BY <1>4, <1>5, IdsAssumption DEF RowTypes, DNS
<1>8. RowTypes'
  BY <1>2, <1>3, <1>4, <1>5, <1>7 DEF RowTypes, Dests, Ids
<1>9. Drawn' /\ MainsAreTables' /\ SubnetsNeverOverlap'
  BY <1>2, <1>3, <1>4, <1>5, <1>7 DEF RowTypes, Drawn, MainsAreTables, SubnetsNeverOverlap
<1>10. NothingOutlivesItsParent'
  BY <1>2, <1>4, <1>5, <1>6, <1>7 DEF RowTypes, NothingOutlivesItsParent, SubnetRows, AssocRows
<1>11. EveryVpcRoutes'
  <2>1. ASSUME NEW w \in Vpcs, vpc'[w] # None PROVE \E u \in main' : main' \cap TablesOf(w)' = {u}
    <3>1. CASE w = v
      <4>1. \A u \in Tables : table[u] # v
        BY <1>5, <1>6, <1>7 DEF NothingOutlivesItsParent
      <4>2. TablesOf(w)' = {t}
        BY <3>1, <4>1, <1>4, <1>5 DEF TablesOf, RowTypes
      <4> QED
        BY <4>2, <1>4
    <3>2. CASE w # v
      <4>1. PICK u \in main : main \cap TablesOf(w) = {u}
        BY <2>1, <3>2, <1>4, <1>5 DEF EveryVpcRoutes, RowTypes
      <4>2. TablesOf(w)' = TablesOf(w) /\ t \notin TablesOf(w)
        BY <3>2, <1>4, <1>5, <1>6, IdsAssumption DEF TablesOf, RowTypes
      <4> QED
        BY <4>1, <4>2, <1>4
    <3> QED
      BY <3>1, <3>2
  <2>2. \A u \in Tables : table'[u] # None => route'[<<u, "local">>] = "local"
    BY <1>4, <1>5 DEF RowTypes, EveryVpcRoutes, Dests
  <2> QED
    BY <2>1, <2>2, <1>2, <1>5 DEF EveryVpcRoutes
<1>12. RowsFade(c)
  <2>1. \A i \in Instances \cap used :
            instance'[i] # None => instance[i] # None /\ (instance'[i].live => instance[i].live)
    BY <1>2
  <2>2. \A u \in Tables \cap used, d \in Dests : route'[<<u, d>>] = "local" => route[<<u, d>>] = "local"
    BY <1>3, <1>4, <1>5 DEF RowTypes
  <2>3. \A w \in Vpcs \cap used : vpc'[w] = vpc[w]
    BY <1>3, <1>4, <1>5 DEF RowTypes
  <2> QED
    BY <2>1, <2>2, <2>3, <1>3 DEF RowsFade
<1>13. GatewaysSpared /\ LivingSpared
  BY <1>2, IdsAssumption DEF GatewaysSpared, LivingSpared
<1>14. TagsGo
  <2>1. Stored \subseteq Stored'
    BY <1>2, <1>4, <1>5, <1>6 DEF Stored, RowTypes
  <2> QED
    BY <2>1 DEF TagsGo
<1>15. GoodRows(c)
  BY <1>8, <1>9, <1>10, <1>11, <1>12, <1>13, <1>14, <1>5 DEF GoodRows, DbInv
<1> QED
  BY <1>1, <1>2, <1>15, ThenTagIsGood

LEMMA ReadVpcIsGood ==
    ASSUME Inv, NEW c \in Clients, ReadVpc(c)
    PROVE  GoodStep(c)
<1>1. pc[c] = "read" /\ req[c].op = "ModifyVpcAttribute" /\ UNCHANGED db /\ RequestOK(req[c]) /\ ModifyOK(c)
  BY DEF ReadVpc, At, Inv, ClientOK
<1>2. CASE End(c)
  BY <1>1, <1>2, EndIsGood, QuietRows DEF At
<1>3. CASE /\ vpc[req[c].vpc] # None
           /\ pc' = [pc EXCEPT ![c] = "write"]
           /\ seen' = [seen EXCEPT ![c] = vpc[req[c].vpc]]
           /\ UNCHANGED <<req, quiet>>
  <2>1. OthersStay(c) /\ ClientTypes'
    BY <1>3 DEF OthersStay, Inv, ClientTypes
  <2>2. /\ pc'[c] = "write" /\ req'[c] = req[c] /\ quiet'[c] = quiet[c]
        /\ seen'[c] = vpc[req[c].vpc] /\ UNCHANGED <<vpc, used>>
    BY <1>1, <1>3 DEF Inv, ClientTypes, db
  <2>3. seen'[c] \subseteq DNS
    BY <1>1, <1>3, <2>2 DEF Inv, DbInv, RowTypes, RequestOK
  <2>4. ClientOK(c)'
    BY <1>1, <2>2, <2>3 DEF ClientOK, RequestOK, ModifyOK
  <2> QED
    BY <1>1, <2>1, <2>4, StepIsGood, QuietRows DEF ModifyIsExact, At
<1> QED
  BY <1>2, <1>3 DEF ReadVpc

LEMMA UpdateVpcIsGood ==
    ASSUME Inv, NEW c \in Clients, UpdateVpc(c)
    PROVE  GoodStep(c)
<1> DEFINE v == req[c].vpc
<1>1. /\ pc[c] = "write" /\ req[c].op = "ModifyVpcAttribute"
      /\ v \in Vpcs /\ req[c].attr \in DNS /\ req[c].on \in BOOLEAN /\ ModifyOK(c)
  BY DEF UpdateVpc, At, Inv, ClientOK, RequestOK
<1>2. /\ vpc' = IF vpc[v] = None THEN vpc ELSE [vpc EXCEPT ![v] = Changed(c)]
      /\ pc' = [pc EXCEPT ![c] = "idle"]
      /\ req' = [req EXCEPT ![c] = None]
      /\ seen' = [seen EXCEPT ![c] = {}]
      /\ quiet' = [d \in Clients |-> d = c \/ (quiet[d] /\ ~Modifies(d, v))]
      /\ UNCHANGED <<subnet, gateway, table, main, assoc, route, instance, tagged, used>>
  BY DEF UpdateVpc
<1>3. OthersStay(c) /\ ClientTypes' /\ pc'[c] = "idle"
  BY <1>2 DEF Inv, ClientTypes, OthersStay
<1>4. Changed(c) \in SUBSET DNS /\ Changed(c) # None
  BY <1>1, IdsAssumption DEF Changed, ModifyOK
<1>5. RowTypes /\ Drawn /\ MainsAreTables /\ NothingOutlivesItsParent /\ EveryVpcRoutes /\ SubnetsNeverOverlap
  BY DEF Inv, DbInv
<1>6. /\ vpc' \in [Vpcs -> {None} \cup SUBSET DNS]
      /\ \A w \in Vpcs : (vpc'[w] = None <=> vpc[w] = None) /\ (w # v => vpc'[w] = vpc[w])
      /\ vpc[v] # None => vpc'[v] = Changed(c)
  BY <1>1, <1>2, <1>4, <1>5 DEF RowTypes
<1>7. DbInv'
  BY <1>2, <1>5, <1>6 DEF DbInv, RowTypes, Drawn, MainsAreTables, NothingOutlivesItsParent, SubnetRows,
                          EveryVpcRoutes, TablesOf, SubnetsNeverOverlap
<1>8. RowsFade(c)
  <2>1. \A w \in Vpcs \cap used :
            \/ vpc'[w] = None \/ vpc'[w] = vpc[w]
            \/ \A d \in Clients \ {c} : Modifies(d, w) => ~quiet'[d]
    BY <1>2, <1>6
  <2> QED
    BY <2>1, <1>2 DEF RowsFade
<1>9. GatewaysSpared /\ LivingSpared /\ TagsGo
  <2>1. Stored' = Stored
    BY <1>2, <1>6 DEF Stored
  <2> QED
    BY <2>1, <1>2, IdsAssumption DEF GatewaysSpared, LivingSpared, TagsGo
<1>10. ModifyIsExact(c)
  <2> SUFFICES ASSUME quiet[c], vpc[v] # None
               PROVE  /\ vpc'[v] \ {req[c].attr} = vpc[v] \ {req[c].attr}
                      /\ req[c].attr \in vpc'[v] <=> req[c].on
                      /\ req[c].attr = "hostnames" /\ req[c].on => "support" \in vpc'[v]
    BY DEF ModifyIsExact
  <2>1. seen[c] = vpc[v] /\ (req[c].attr = "hostnames" /\ req[c].on => "support" \in vpc[v])
    BY <1>1 DEF ModifyOK
  <2> QED
    BY <2>1, <1>1, <1>6 DEF Changed
<1> QED
  BY <1>3, <1>7, <1>8, <1>9, <1>10, StepIsGood DEF GoodRows, ClientOK

LEMMA DeleteVpcIsGood ==
    ASSUME Inv, NEW c \in Clients, DeleteVpc(c)
    PROVE  GoodStep(c)
<1> PICK v \in Vpcs :
        /\ Whole(c, "DeleteVpc")
        /\ vpc[v] # None /\ ~Restricted(SubnetsOf(v))
        /\ gateway' = [g \in Gateways |-> IF gateway[g] = v THEN Detached ELSE gateway[g]]
        /\ vpc' = Without(vpc, {v})
        /\ subnet' = Without(subnet, SubnetsOf(v))
        /\ table' = Without(table, TablesOf(v))
        /\ main' = main \ TablesOf(v)
        /\ assoc' = Without(assoc, AssocsAt(TablesOf(v), SubnetsOf(v)))
        /\ route' = Without(route, TablesOf(v) \X Dests)
        /\ DropTags(Cascade(v))
        /\ UNCHANGED <<instance, used>>
  BY DEF DeleteVpc
<1>1. RowTypes /\ Drawn /\ MainsAreTables /\ NothingOutlivesItsParent /\ EveryVpcRoutes /\ SubnetsNeverOverlap
  BY DEF Inv, DbInv
<1>2. v # None /\ None \notin Vpcs
  BY IdsAssumption
<1>3. /\ \A w \in Vpcs : vpc'[w] = IF w = v THEN None ELSE vpc[w]
      /\ DOMAIN vpc' = Vpcs
  BY <1>1 DEF Without, RowTypes
<1>4. /\ \A s \in Subnets : subnet'[s] = IF s \in SubnetsOf(v) THEN None ELSE subnet[s]
      /\ DOMAIN subnet' = Subnets
  BY <1>1 DEF Without, RowTypes
<1>5. /\ \A t \in Tables : table'[t] = IF t \in TablesOf(v) THEN None ELSE table[t]
      /\ DOMAIN table' = Tables
  BY <1>1 DEF Without, RowTypes
<1>6. /\ \A a \in Assocs : assoc'[a] = IF a \in AssocsAt(TablesOf(v), SubnetsOf(v)) THEN None ELSE assoc[a]
      /\ DOMAIN assoc' = Assocs
  BY <1>1 DEF Without, RowTypes
<1>7. /\ \A t \in Tables, d \in Dests : route'[<<t, d>>] = IF t \in TablesOf(v) THEN None ELSE route[<<t, d>>]
      /\ DOMAIN route' = Tables \X Dests
  BY <1>1 DEF Without, RowTypes
<1>8. \A i \in Instances : instance[i] # None => instance[i].subnet \notin SubnetsOf(v)
  BY DEF Restricted, Inhabited
<1>9. RowTypes'
  <2>1. vpc' \in [Vpcs -> {None} \cup SUBSET DNS]
    BY <1>1 DEF RowTypes, Without
  <2>2. subnet' \in [Subnets -> SubnetRows \cup {None}]
    BY <1>1 DEF RowTypes, Without
  <2>3. gateway' \in [Gateways -> Vpcs \cup {Detached, None}]
    BY <1>1 DEF RowTypes
  <2>4. table' \in [Tables -> Vpcs \cup {None}] /\ main' \subseteq Tables
    BY <1>1 DEF RowTypes, Without
  <2>5. assoc' \in [Assocs -> AssocRows \cup {None}]
    BY <1>1 DEF RowTypes, Without
  <2>6. route' \in [Tables \X Dests -> {"local", "target", None}]
    BY <1>1 DEF RowTypes, Without
  <2> QED
    BY <2>1, <2>2, <2>3, <2>4, <2>5, <2>6, <1>1 DEF RowTypes, DropTags
<1>10. Drawn'
  <2>1. \A g \in Gateways : gateway'[g] # None => gateway[g] # None
    BY <1>1, <1>2 DEF RowTypes
  <2> QED
    BY <2>1, <1>1, <1>3, <1>4, <1>5, <1>6 DEF Drawn
<1>11. MainsAreTables' /\ SubnetsNeverOverlap'
  BY <1>1, <1>4, <1>5 DEF RowTypes, MainsAreTables, SubnetsNeverOverlap
<1>12. NothingOutlivesItsParent'
  <2>1. ASSUME NEW s \in Subnets, subnet'[s] # None PROVE vpc'[subnet'[s].vpc] # None
    <3>1. s \notin SubnetsOf(v) /\ subnet'[s] = subnet[s]
      BY <2>1, <1>4
    <3>2. subnet[s].vpc # v /\ subnet[s].vpc \in Vpcs /\ vpc[subnet[s].vpc] # None
      BY <2>1, <3>1, <1>1 DEF SubnetsOf, RowTypes, SubnetRows, NothingOutlivesItsParent
    <3> QED
      BY <3>1, <3>2, <1>3
  <2>2. \A t \in Tables : table'[t] # None => vpc'[table'[t]] # None
    <3>1. ASSUME NEW t \in Tables, table'[t] # None PROVE vpc'[table'[t]] # None
      <4>1. t \notin TablesOf(v) /\ table'[t] = table[t] /\ table[t] # None
        BY <3>1, <1>5
      <4>2. table[t] \in Vpcs /\ table[t] # v /\ vpc[table[t]] # None
        BY <4>1, <1>1 DEF TablesOf, RowTypes, NothingOutlivesItsParent
      <4> QED
        BY <4>1, <4>2, <1>3
    <3> QED
      BY <3>1
  <2>3. ASSUME NEW a \in Assocs, assoc'[a] # None
        PROVE  table'[assoc'[a].table] # None /\ subnet'[assoc'[a].subnet] # None
    <3>1. a \notin AssocsAt(TablesOf(v), SubnetsOf(v)) /\ assoc'[a] = assoc[a] /\ assoc[a] # None
      BY <2>3, <1>6
    <3>2. assoc[a].table \in Tables \ TablesOf(v) /\ assoc[a].subnet \in Subnets \ SubnetsOf(v)
      BY <3>1, <1>1 DEF AssocsAt, RowTypes, AssocRows
    <3>3. table[assoc[a].table] # None /\ subnet[assoc[a].subnet] # None
      BY <3>1, <1>1 DEF NothingOutlivesItsParent
    <3> QED
      BY <3>1, <3>2, <3>3, <1>4, <1>5
  <2>4. ASSUME NEW t \in Tables, NEW d \in Dests, route'[<<t, d>>] # None PROVE table'[t] # None
    <3>1. t \notin TablesOf(v) /\ route[<<t, d>>] # None
      BY <2>4, <1>7
    <3>2. table[t] # None
      BY <3>1, <1>1 DEF NothingOutlivesItsParent
    <3> QED
      BY <3>1, <3>2, <1>5
  <2>5. ASSUME NEW i \in Instances, instance'[i] # None PROVE subnet'[instance'[i].subnet] # None
    <3>1. instance'[i] = instance[i] /\ instance[i] \in InstanceRows
      BY <2>5, <1>1 DEF RowTypes
    <3>2. instance[i].subnet \in Subnets \ SubnetsOf(v) /\ subnet[instance[i].subnet] # None
      BY <2>5, <3>1, <1>1, <1>8 DEF NothingOutlivesItsParent, InstanceRows
    <3> QED
      BY <3>1, <3>2, <1>4
  <2> QED
    BY <2>1, <2>2, <2>3, <2>4, <2>5 DEF NothingOutlivesItsParent
<1>13. EveryVpcRoutes'
  <2>1. ASSUME NEW w \in Vpcs, vpc'[w] # None PROVE \E u \in main' : main' \cap TablesOf(w)' = {u}
    <3>1. w # v /\ vpc[w] # None
      BY <2>1, <1>3
    <3>2. PICK u \in main : main \cap TablesOf(w) = {u}
      BY <3>1, <1>1 DEF EveryVpcRoutes
    <3>3. TablesOf(w)' = TablesOf(w) /\ TablesOf(w) \cap TablesOf(v) = {}
      BY <3>1, <1>2, <1>5 DEF TablesOf
    <3> QED
      BY <3>2, <3>3
  <2>2. \A u \in Tables : table'[u] # None => route'[<<u, "local">>] = "local"
    BY <1>1, <1>5, <1>7 DEF EveryVpcRoutes, Dests
  <2>3. \A a, b \in Assocs :
            assoc'[a] # None /\ assoc'[b] # None /\ assoc'[a].subnet = assoc'[b].subnet => a = b
    BY <1>1, <1>6 DEF EveryVpcRoutes
  <2> QED
    BY <2>1, <2>2, <2>3 DEF EveryVpcRoutes
<1>14. RowsFade(c)
  BY <1>3, <1>7, IdsAssumption DEF RowsFade
<1>15. GatewaysSpared
  BY <1>1, <1>3, IdsAssumption DEF GatewaysSpared, RowTypes
<1>16. LivingSpared /\ TagsGo
  <2>1. ASSUME NEW x \in Stored, x \notin Stored' PROVE x \in Cascade(v)
    <3>1. \A g \in Gateways : gateway[g] # None => gateway'[g] # None
      BY IdsAssumption
    <3> QED
      BY <2>1, <3>1, <1>3, <1>4, <1>5 DEF Stored, Cascade
  <2> QED
    BY <2>1 DEF LivingSpared, TagsGo, DropTags
<1> QED
  BY <1>1, <1>9, <1>10, <1>11, <1>12, <1>13, <1>14, <1>15, <1>16, WholeIsGood DEF GoodRows, DbInv, Whole
-----------------------------------------------------------------------------
(* Subnets. *)

LEMMA InsertSubnetIsGood ==
    ASSUME Inv, NEW c \in Clients, InsertSubnet(c)
    PROVE  GoodStep(c)
<1>1. /\ At(c, "write", "CreateSubnet") /\ pc[c] = "write" /\ req[c].op = "CreateSubnet"
      /\ req[c].vpc \in Vpcs /\ req[c].cidr \in Cidrs
  BY DEF InsertSubnet, At, Inv, ClientOK, RequestOK
<1>2. CASE vpc[req[c].vpc] = None \/ Overlaps(req[c].vpc, req[c].cidr)
  BY <1>1, <1>2, EndIsGood, QuietRows DEF InsertSubnet, At
<1>3. CASE ~(vpc[req[c].vpc] = None \/ Overlaps(req[c].vpc, req[c].cidr))
  <2> DEFINE row == [vpc |-> req[c].vpc, cidr |-> req[c].cidr, public |-> FALSE]
  <2>0. PICK s \in Subnets :
            \E withTags \in MayTag(s) :
               /\ Draw({s})
               /\ subnet' = [subnet EXCEPT ![s] = row]
               /\ ThenTag(c, s, withTags)
               /\ UNCHANGED <<vpc, gateway, table, main, assoc, route, instance, tagged>>
    BY <1>3 DEF InsertSubnet
  <2>1. PICK withTags \in MayTag(s) : ThenTag(c, s, withTags)
    BY <2>0
  <2>2. /\ s \notin used /\ used' = used \cup {s} /\ subnet' = [subnet EXCEPT ![s] = row]
        /\ UNCHANGED <<vpc, gateway, table, main, assoc, route, instance, tagged>>
    BY <2>0 DEF Draw
  <2>3. RowTypes /\ Drawn /\ MainsAreTables /\ NothingOutlivesItsParent /\ EveryVpcRoutes /\ SubnetsNeverOverlap
    BY DEF Inv, DbInv
  <2>4. subnet[s] = None /\ row \in SubnetRows /\ row # None
    BY <1>1, <2>2, <2>3, IdsAssumption DEF Drawn, SubnetRows
  <2>5. row.vpc = req[c].vpc /\ row.cidr = req[c].cidr
    OBVIOUS
  <2> HIDE DEF row
  <2>6. /\ \A r \in Subnets : subnet'[r] = IF r = s THEN row ELSE subnet[r]
        /\ subnet' \in [Subnets -> SubnetRows \cup {None}]
    BY <2>2, <2>3, <2>4 DEF RowTypes
  <2>7. RowTypes' /\ Drawn' /\ MainsAreTables'
    BY <2>2, <2>3, <2>6 DEF RowTypes, Drawn, MainsAreTables, Ids
  <2>8. NothingOutlivesItsParent'
    <3>1. \A r \in Subnets : subnet'[r] # None => vpc'[subnet'[r].vpc] # None
      BY <1>3, <2>2, <2>3, <2>5, <2>6 DEF NothingOutlivesItsParent
    <3>2. \A r \in Subnets : subnet[r] # None => subnet'[r] # None
      BY <2>4, <2>6
    <3>3. ASSUME NEW i \in Instances, instance'[i] # None PROVE subnet'[instance'[i].subnet] # None
      BY <3>2, <3>3, <2>2, <2>3 DEF NothingOutlivesItsParent, RowTypes, InstanceRows
    <3>4. ASSUME NEW a \in Assocs, assoc'[a] # None
          PROVE  table'[assoc'[a].table] # None /\ subnet'[assoc'[a].subnet] # None
      BY <3>2, <3>4, <2>2, <2>3 DEF NothingOutlivesItsParent, RowTypes, AssocRows
    <3> QED
      BY <3>1, <3>3, <3>4, <2>2, <2>3 DEF NothingOutlivesItsParent
  <2>9. EveryVpcRoutes'
    BY <2>2, <2>3 DEF EveryVpcRoutes, TablesOf
  <2>10. SubnetsNeverOverlap'
    <3>1. ASSUME NEW r \in Subnets, r # s, subnet[r] # None, subnet[r].vpc = row.vpc
          PROVE  subnet[r].cidr \cap row.cidr = {}
      BY <3>1, <1>3, <2>5 DEF Overlaps, SubnetsOf
    <3>2. ASSUME NEW p \in Subnets, NEW r \in Subnets, p # r, subnet'[p] # None, subnet'[r] # None,
                 subnet'[p].vpc = subnet'[r].vpc
          PROVE  subnet'[p].cidr \cap subnet'[r].cidr = {}
      <4>1. CASE p = s
        BY <4>1, <3>1, <3>2, <2>6
      <4>2. CASE r = s
        BY <4>2, <3>1, <3>2, <2>6
      <4>3. CASE p # s /\ r # s
        BY <4>3, <3>2, <2>3, <2>6 DEF SubnetsNeverOverlap
      <4> QED
        BY <4>1, <4>2, <4>3
    <3> QED
      BY <3>2 DEF SubnetsNeverOverlap
  <2>11. RowsFade(c)
    BY <2>2 DEF RowsFade
  <2>12. GatewaysSpared /\ LivingSpared
    BY <2>2, IdsAssumption DEF GatewaysSpared, LivingSpared
  <2>13. TagsGo
    <3>1. Stored \subseteq Stored'
      BY <2>2, <2>4, <2>6 DEF Stored
    <3> QED
      BY <3>1 DEF TagsGo
  <2>14. GoodRows(c)
    BY <2>7, <2>8, <2>9, <2>10, <2>11, <2>12, <2>13 DEF GoodRows, DbInv
  <2> QED
    BY <1>1, <2>1, <2>14, ThenTagIsGood
<1> QED
  BY <1>2, <1>3

LEMMA UpdateSubnetIsGood ==
    ASSUME Inv, NEW c \in Clients, UpdateSubnet(c)
    PROVE  GoodStep(c)
<1> DEFINE s == req[c].subnet
<1>1. /\ req[c].op = "ModifySubnetAttribute" /\ s \in Subnets /\ req[c].on \in BOOLEAN
      /\ subnet' = IF subnet[s] = None THEN subnet ELSE [subnet EXCEPT ![s].public = req[c].on]
      /\ End(c)
      /\ UNCHANGED <<vpc, gateway, table, main, assoc, route, instance, tagged, used>>
  BY DEF UpdateSubnet, At, Inv, ClientOK, RequestOK
<1>2. RowTypes /\ Drawn /\ MainsAreTables /\ NothingOutlivesItsParent /\ EveryVpcRoutes /\ SubnetsNeverOverlap
  BY DEF Inv, DbInv
<1>3. subnet \in [Subnets -> SubnetRows \cup {None}]
  BY <1>2 DEF RowTypes
<1>4. \A r \in SubnetRows : r # None
  BY IdsAssumption
<1>5. subnet[s] # None => subnet[s] \in SubnetRows
  BY <1>1, <1>3
<1>6. subnet[s] # None =>
          /\ [subnet[s] EXCEPT !.public = req[c].on] \in SubnetRows
          /\ [subnet[s] EXCEPT !.public = req[c].on].vpc = subnet[s].vpc
          /\ [subnet[s] EXCEPT !.public = req[c].on].cidr = subnet[s].cidr
  BY <1>1, <1>5 DEF SubnetRows
<1>7. subnet[s] # None => subnet' = [subnet EXCEPT ![s] = [subnet[s] EXCEPT !.public = req[c].on]]
  BY <1>1, <1>3
<1>8. /\ subnet' \in [Subnets -> SubnetRows \cup {None}]
      /\ \A r \in Subnets : subnet'[r] = None <=> subnet[r] = None
      /\ \A r \in Subnets : subnet[r] # None => subnet'[r].vpc = subnet[r].vpc /\ subnet'[r].cidr = subnet[r].cidr
  <2>1. CASE subnet[s] = None
    BY <2>1, <1>1, <1>3
  <2>2. CASE subnet[s] # None
    <3> DEFINE row == [subnet[s] EXCEPT !.public = req[c].on]
    <3>1. row \in SubnetRows /\ row.vpc = subnet[s].vpc /\ row.cidr = subnet[s].cidr /\ row # None
      BY <2>2, <1>4, <1>6
    <3>2. subnet' = [subnet EXCEPT ![s] = row]
      BY <2>2, <1>7
    <3> HIDE DEF row
    <3> QED
      BY <2>2, <3>1, <3>2, <1>1, <1>3
  <2> QED
    BY <2>1, <2>2
<1>9. RowTypes' /\ Drawn' /\ MainsAreTables'
  BY <1>1, <1>2, <1>8 DEF RowTypes, Drawn, MainsAreTables
<1>10. NothingOutlivesItsParent'
  <2>1. \A r \in Subnets : subnet'[r] # None => vpc'[subnet'[r].vpc] # None
    BY <1>1, <1>2, <1>8 DEF NothingOutlivesItsParent
  <2>2. ASSUME NEW i \in Instances, instance'[i] # None PROVE subnet'[instance'[i].subnet] # None
    BY <2>2, <1>1, <1>2, <1>8 DEF NothingOutlivesItsParent, RowTypes, InstanceRows
  <2>3. ASSUME NEW a \in Assocs, assoc'[a] # None
        PROVE  table'[assoc'[a].table] # None /\ subnet'[assoc'[a].subnet] # None
    BY <2>3, <1>1, <1>2, <1>8 DEF NothingOutlivesItsParent, RowTypes, AssocRows
  <2> QED
    BY <2>1, <2>2, <2>3, <1>1, <1>2 DEF NothingOutlivesItsParent
<1>11. EveryVpcRoutes' /\ SubnetsNeverOverlap'
  BY <1>1, <1>2, <1>8 DEF EveryVpcRoutes, TablesOf, SubnetsNeverOverlap
<1>12. RowsFade(c)
  BY <1>1 DEF RowsFade
<1>13. GatewaysSpared /\ LivingSpared /\ TagsGo
  <2>1. Stored' = Stored
    BY <1>1, <1>8 DEF Stored
  <2> QED
    BY <2>1, <1>1, IdsAssumption DEF GatewaysSpared, LivingSpared, TagsGo
<1> QED
  BY <1>1, <1>9, <1>10, <1>11, <1>12, <1>13, EndIsGood DEF GoodRows, DbInv, At

LEMMA PurgeInstanceIsGood ==
    ASSUME Inv, NEW c \in Clients, PurgeInstance(c)
    PROVE  GoodStep(c)
<1>1. PICK i \in seen[c] :
          /\ instance' = Without(instance, {i})
          /\ DropTags({i})
          /\ seen' = [seen EXCEPT ![c] = @ \ {i}]
  BY DEF PurgeInstance
<1>2. /\ pc[c] = "write" /\ req[c].op = "DeleteSubnet" /\ ListedOK(c) /\ RequestOK(req[c])
      /\ UNCHANGED <<vpc, subnet, gateway, table, main, assoc, route, used, pc, req, quiet>>
  BY DEF PurgeInstance, At, Inv, ClientOK
<1>3. i \in Instances /\ (instance[i] = None \/ ~instance[i].live)
  BY <1>2 DEF ListedOK
<1>4. RowTypes /\ Drawn /\ MainsAreTables /\ NothingOutlivesItsParent /\ EveryVpcRoutes /\ SubnetsNeverOverlap
  BY DEF Inv, DbInv
<1>5. /\ \A j \in Instances : instance'[j] = IF j = i THEN None ELSE instance[j]
      /\ instance' \in [Instances -> InstanceRows \cup {None}]
  BY <1>1, <1>4 DEF Without, RowTypes
<1>6. RowTypes' /\ Drawn' /\ MainsAreTables'
  BY <1>1, <1>2, <1>4, <1>5 DEF RowTypes, Drawn, MainsAreTables, DropTags
<1>7. NothingOutlivesItsParent' /\ EveryVpcRoutes' /\ SubnetsNeverOverlap'
  BY <1>2, <1>4, <1>5 DEF NothingOutlivesItsParent, EveryVpcRoutes, TablesOf, SubnetsNeverOverlap
<1>8. RowsFade(c)
  BY <1>2, <1>5 DEF RowsFade
<1>9. GatewaysSpared /\ LivingSpared /\ TagsGo
  <2>1. \A x \in Stored : x \notin Stored' => x = i
    BY <1>2, <1>5 DEF Stored
  <2> QED
    BY <2>1, <1>1, <1>2, <1>3, <1>5, IdsAssumption DEF GatewaysSpared, LivingSpared, TagsGo, DropTags
<1>10. OthersStay(c) /\ ClientTypes'
  BY <1>1, <1>2 DEF Inv, ClientTypes, OthersStay
<1>11. ClientOK(c)'
  <2>1. seen'[c] = seen[c] \ {i}
    BY <1>1 DEF Inv, ClientTypes
  <2>2. ListedOK(c)'
    BY <2>1, <1>2, <1>5 DEF ListedOK
  <2>3. RequestOK(req[c])'
    BY <1>2 DEF RequestOK
  <2> QED
    BY <2>2, <2>3, <1>2 DEF ClientOK
<1> QED
  BY <1>2, <1>6, <1>7, <1>8, <1>9, <1>10, <1>11, StepIsGood DEF GoodRows, DbInv, ModifyIsExact, At

LEMMA DropSubnetIsGood ==
    ASSUME Inv, NEW c \in Clients, DropSubnet(c)
    PROVE  GoodStep(c)
<1> DEFINE s == req[c].subnet
<1>1. /\ req[c].op = "DeleteSubnet" /\ s \in Subnets /\ End(c)
      /\ UNCHANGED <<vpc, gateway, table, main, route, instance, used>>
  BY DEF DropSubnet, At, Inv, ClientOK, RequestOK
<1>2. CASE Restricted({s})
  BY <1>1, <1>2, EndIsGood, QuietRows DEF DropSubnet, db, At
<1>3. CASE ~Restricted({s})
  <2>1. /\ subnet' = Without(subnet, {s})
        /\ assoc' = Without(assoc, AssocsAt({}, {s}))
        /\ DropTags({s})
    BY <1>3 DEF DropSubnet
  <2>2. RowTypes /\ Drawn /\ MainsAreTables /\ NothingOutlivesItsParent /\ EveryVpcRoutes /\ SubnetsNeverOverlap
    BY DEF Inv, DbInv
  <2>3. /\ \A r \in Subnets : subnet'[r] = IF r = s THEN None ELSE subnet[r]
        /\ subnet' \in [Subnets -> SubnetRows \cup {None}]
    BY <2>1, <2>2 DEF Without, RowTypes
  <2>4. /\ \A a \in Assocs : assoc'[a] = IF a \in AssocsAt({}, {s}) THEN None ELSE assoc[a]
        /\ assoc' \in [Assocs -> AssocRows \cup {None}]
    BY <2>1, <2>2 DEF Without, RowTypes
  <2>5. RowTypes' /\ Drawn' /\ MainsAreTables'
    BY <1>1, <2>1, <2>2, <2>3, <2>4 DEF RowTypes, Drawn, MainsAreTables, DropTags
  <2>6. NothingOutlivesItsParent'
    <3>1. \A r \in Subnets : subnet'[r] # None => vpc'[subnet'[r].vpc] # None
      BY <1>1, <2>2, <2>3 DEF NothingOutlivesItsParent
    <3>2. ASSUME NEW i \in Instances, instance'[i] # None PROVE subnet'[instance'[i].subnet] # None
      <4>1. instance[i].subnet # s
        BY <1>1, <1>3, <3>2 DEF Restricted, Inhabited
      <4>2. instance[i].subnet \in Subnets /\ subnet[instance[i].subnet] # None
        BY <1>1, <3>2, <2>2 DEF NothingOutlivesItsParent, RowTypes, InstanceRows
      <4> QED
        BY <4>1, <4>2, <1>1, <2>3
    <3>3. ASSUME NEW a \in Assocs, assoc'[a] # None
          PROVE  table'[assoc'[a].table] # None /\ subnet'[assoc'[a].subnet] # None
      <4>1. a \notin AssocsAt({}, {s}) /\ assoc'[a] = assoc[a] /\ assoc[a] # None
        BY <3>3, <2>4
      <4>2. assoc[a].subnet \in Subnets \ {s} /\ table[assoc[a].table] # None /\ subnet[assoc[a].subnet] # None
        BY <4>1, <2>2 DEF AssocsAt, NothingOutlivesItsParent, RowTypes, AssocRows
      <4> QED
        BY <4>1, <4>2, <1>1, <2>3
    <3> QED
      BY <3>1, <3>2, <3>3, <1>1, <2>2 DEF NothingOutlivesItsParent
  <2>7. EveryVpcRoutes' /\ SubnetsNeverOverlap'
    BY <1>1, <2>2, <2>3, <2>4 DEF EveryVpcRoutes, TablesOf, SubnetsNeverOverlap
  <2>8. RowsFade(c)
    BY <1>1 DEF RowsFade
  <2>9. GatewaysSpared /\ LivingSpared /\ TagsGo
    <3>1. \A x \in Stored : x \notin Stored' => x = s
      BY <1>1, <2>3 DEF Stored
    <3> QED
      BY <3>1, <1>1, <2>1, IdsAssumption DEF GatewaysSpared, LivingSpared, TagsGo, DropTags
  <2> QED
    BY <1>1, <2>5, <2>6, <2>7, <2>8, <2>9, EndIsGood DEF GoodRows, DbInv, At
<1> QED
  BY <1>2, <1>3
-----------------------------------------------------------------------------
(* Internet gateways. *)

\* A step that writes nothing but one gateway.
LEMMA GatewayRows ==
    ASSUME Inv, NEW c \in Clients, NEW g \in Gateways, NEW w \in Vpcs \cup {Detached, None},
           gateway' = [gateway EXCEPT ![g] = w],
           UNCHANGED <<vpc, subnet, table, main, assoc, route, instance>>,
           \/ gateway[g] # None /\ w # None /\ UNCHANGED <<used, tagged>>
           \/ Draw({g}) /\ UNCHANGED tagged
           \/ w = None /\ DropTags({g}) /\ UNCHANGED used,
           \/ w # Detached \/ gateway[g] \notin Vpcs
           \/ At(c, "write", "DetachInternetGateway") /\ req[c].gateway = g
    PROVE  GoodRows(c)
<1>1. RowTypes /\ Drawn /\ MainsAreTables /\ NothingOutlivesItsParent /\ EveryVpcRoutes /\ SubnetsNeverOverlap
  BY DEF Inv, DbInv
<1>2. /\ \A h \in Gateways : gateway'[h] = IF h = g THEN w ELSE gateway[h]
      /\ gateway' \in [Gateways -> Vpcs \cup {Detached, None}]
  BY <1>1 DEF RowTypes
<1>3. used \subseteq used' /\ (w # None => g \in used') /\ used' \subseteq Ids /\ tagged' \subseteq Taggable
  BY <1>1 DEF RowTypes, Drawn, Draw, DropTags, Ids
<1>4. RowTypes' /\ Drawn' /\ MainsAreTables'
  BY <1>1, <1>2, <1>3 DEF RowTypes, Drawn, MainsAreTables
<1>5. NothingOutlivesItsParent' /\ EveryVpcRoutes' /\ SubnetsNeverOverlap'
  BY <1>1 DEF NothingOutlivesItsParent, EveryVpcRoutes, TablesOf, SubnetsNeverOverlap
<1>6. RowsFade(c)
  BY <1>3 DEF RowsFade
<1>7. GatewaysSpared /\ LivingSpared
  BY <1>2, IdsAssumption DEF GatewaysSpared, LivingSpared
<1>8. TagsGo
  <2>1. CASE w # None
    <3>1. Stored \subseteq Stored'
      BY <2>1, <1>2 DEF Stored
    <3> QED
      BY <3>1 DEF TagsGo
  <2>2. CASE w = None
    <3>1. \A x \in Stored : x \notin Stored' => x = g /\ gateway[g] # None
      BY <2>2, <1>2 DEF Stored
    <3>2. gateway[g] # None => g \in used
      BY <1>1 DEF Drawn
    <3> QED
      BY <2>2, <3>1, <3>2 DEF TagsGo, DropTags, Draw
  <2> QED
    BY <2>1, <2>2
<1> QED
  BY <1>1, <1>4, <1>5, <1>6, <1>7, <1>8 DEF GoodRows, DbInv

LEMMA GatewayActionsAreGood ==
    ASSUME Inv, NEW c \in Clients,
           CreateInternetGateway(c) \/ UpdateGateway(c) \/ DeleteInternetGateway(c)
    PROVE  GoodStep(c)
<1>1. RowTypes /\ Drawn
  BY DEF Inv, DbInv
<1>2. CASE CreateInternetGateway(c)
  <2>0. PICK g \in Gateways :
            \E withTags \in MayTag(g) :
                Draw({g}) /\ gateway' = [gateway EXCEPT ![g] = Detached] /\ ThenTag(c, g, withTags)
    BY <1>2 DEF CreateInternetGateway
  <2>1. PICK withTags \in MayTag(g) :
            Draw({g}) /\ gateway' = [gateway EXCEPT ![g] = Detached] /\ ThenTag(c, g, withTags)
    BY <2>0
  <2>2. gateway[g] = None
    BY <1>1, <2>1 DEF Draw, Drawn
  <2>3. GoodRows(c)
    BY <1>2, <2>1, <2>2, GatewayRows, IdsAssumption DEF CreateInternetGateway
  <2> QED
    BY <1>2, <2>1, <2>3, ThenTagIsGood DEF CreateInternetGateway
<1>3. CASE UpdateGateway(c)
  <2> DEFINE g == req[c].gateway
             w == IF req[c].op = "AttachInternetGateway" THEN req[c].vpc ELSE Detached
  <2>1. /\ pc[c] = "write" /\ req[c].op \in {"AttachInternetGateway", "DetachInternetGateway"}
        /\ gateway' = IF gateway[g] = None THEN gateway ELSE [gateway EXCEPT ![g] = w]
        /\ End(c)
        /\ UNCHANGED <<vpc, subnet, table, main, assoc, route, instance, tagged, used>>
    BY <1>3 DEF UpdateGateway, At
  <2>2. g \in Gateways /\ w \in Vpcs \cup {Detached}
    BY <2>1 DEF Inv, ClientOK, RequestOK
  <2>3. w # None
    BY <2>2, IdsAssumption
  <2>4. w # Detached \/ (At(c, "write", "DetachInternetGateway") /\ req[c].gateway = g)
    BY <2>1, <2>2, IdsAssumption DEF At, Inv, ClientOK, RequestOK
  <2> HIDE DEF w
  <2>5. GoodRows(c)
    <3>1. CASE gateway[g] = None
      BY <2>1, <3>1, QuietRows DEF db
    <3>2. CASE gateway[g] # None
      BY <2>1, <2>2, <2>3, <2>4, <3>2, GatewayRows
    <3> QED
      BY <3>1, <3>2
  <2> QED
    BY <2>1, <2>5, EndIsGood DEF At
<1>4. CASE DeleteInternetGateway(c)
  <2>1. PICK g \in Gateways :
            /\ Whole(c, "DeleteInternetGateway")
            /\ gateway[g] # None
            /\ gateway' = Without(gateway, {g})
            /\ DropTags({g})
            /\ UNCHANGED <<vpc, subnet, table, main, assoc, route, instance, used>>
    BY <1>4 DEF DeleteInternetGateway
  <2>2. gateway' = [gateway EXCEPT ![g] = None]
    BY <1>1, <2>1 DEF RowTypes, Without
  <2>3. GoodRows(c)
    BY <2>1, <2>2, GatewayRows, IdsAssumption
  <2> QED
    BY <2>1, <2>3, WholeIsGood DEF Whole
<1> QED
  BY <1>2, <1>3, <1>4
-----------------------------------------------------------------------------
(* Route tables, their associations and routes. *)

LEMMA InsertRouteTableIsGood ==
    ASSUME Inv, NEW c \in Clients, InsertRouteTable(c)
    PROVE  GoodStep(c)
<1> DEFINE v == req[c].vpc
<1>1. pc[c] = "write" /\ req[c].op = "CreateRouteTable" /\ v \in Vpcs
  BY DEF InsertRouteTable, At, Inv, ClientOK, RequestOK
<1>2. CASE vpc[v] = None
  BY <1>1, <1>2, EndIsGood, QuietRows DEF InsertRouteTable, At
<1>3. CASE vpc[v] # None
  <2>0. PICK t \in Tables :
            \E withTags \in MayTag(t) :
               /\ Draw({t})
               /\ table' = [table EXCEPT ![t] = v]
               /\ route' = [route EXCEPT ![<<t, "local">>] = "local"]
               /\ ThenTag(c, t, withTags)
               /\ UNCHANGED <<vpc, subnet, gateway, main, assoc, instance, tagged>>
    BY <1>3 DEF InsertRouteTable
  <2>1. PICK withTags \in MayTag(t) : ThenTag(c, t, withTags)
    BY <2>0
  <2>2. /\ t \notin used /\ used' = used \cup {t} /\ table' = [table EXCEPT ![t] = v]
        /\ route' = [route EXCEPT ![<<t, "local">>] = "local"]
        /\ UNCHANGED <<vpc, subnet, gateway, main, assoc, instance, tagged>>
    BY <2>0 DEF Draw
  <2>3. RowTypes /\ Drawn /\ MainsAreTables /\ NothingOutlivesItsParent /\ EveryVpcRoutes /\ SubnetsNeverOverlap
    BY DEF Inv, DbInv
  <2>4. table[t] = None /\ t \notin main /\ v # None
    BY <1>1, <2>2, <2>3, IdsAssumption DEF Drawn, MainsAreTables
  <2>5. /\ \A u \in Tables : table'[u] = IF u = t THEN v ELSE table[u]
        /\ table' \in [Tables -> Vpcs \cup {None}]
    BY <1>1, <2>2, <2>3 DEF RowTypes
  <2>6. /\ \A u \in Tables, d \in Dests :
               route'[<<u, d>>] = IF u = t /\ d = "local" THEN "local" ELSE route[<<u, d>>]
        /\ route' \in [Tables \X Dests -> {"local", "target", None}]
    BY <2>2, <2>3 DEF RowTypes
  <2>7. RowTypes'
    BY <2>2, <2>3, <2>5, <2>6 DEF RowTypes, Ids
  <2>8. Drawn' /\ MainsAreTables' /\ SubnetsNeverOverlap'
    BY <2>2, <2>3, <2>4, <2>5 DEF RowTypes, Drawn, MainsAreTables, SubnetsNeverOverlap
  <2>9. NothingOutlivesItsParent'
    <3>1. \A u \in Tables : table'[u] # None => vpc'[table'[u]] # None
      BY <1>3, <2>2, <2>3, <2>5 DEF NothingOutlivesItsParent
    <3>2. ASSUME NEW a \in Assocs, assoc'[a] # None
          PROVE  table'[assoc'[a].table] # None /\ subnet'[assoc'[a].subnet] # None
      BY <3>2, <2>2, <2>3, <2>4, <2>5 DEF NothingOutlivesItsParent, RowTypes, AssocRows
    <3>3. ASSUME NEW u \in Tables, NEW d \in Dests, route'[<<u, d>>] # None PROVE table'[u] # None
      BY <3>3, <2>3, <2>4, <2>5, <2>6 DEF NothingOutlivesItsParent
    <3> QED
      BY <3>1, <3>2, <3>3, <2>2, <2>3 DEF NothingOutlivesItsParent
  <2>10. EveryVpcRoutes'
    <3>1. ASSUME NEW w \in Vpcs, vpc'[w] # None PROVE \E u \in main' : main' \cap TablesOf(w)' = {u}
      <4>1. PICK u \in main : main \cap TablesOf(w) = {u}
        BY <3>1, <2>2, <2>3 DEF EveryVpcRoutes
      <4>2. TablesOf(w)' \ {t} = TablesOf(w) \ {t}
        BY <2>5 DEF TablesOf
      <4> QED
        BY <4>1, <4>2, <2>2, <2>4
    <3>2. \A u \in Tables : table'[u] # None => route'[<<u, "local">>] = "local"
      BY <2>3, <2>5, <2>6 DEF EveryVpcRoutes, Dests
    <3> QED
      BY <3>1, <3>2, <2>2, <2>3 DEF EveryVpcRoutes
  <2>11. RowsFade(c)
    BY <2>2, <2>6 DEF RowsFade
  <2>12. GatewaysSpared /\ LivingSpared
    BY <2>2, IdsAssumption DEF GatewaysSpared, LivingSpared
  <2>13. TagsGo
    <3>1. Stored \subseteq Stored'
      BY <2>2, <2>4, <2>5 DEF Stored
    <3> QED
      BY <3>1 DEF TagsGo
  <2> QED
    BY <1>1, <2>1, <2>7, <2>8, <2>9, <2>10, <2>11, <2>12, <2>13, <2>3, ThenTagIsGood DEF GoodRows, DbInv
<1> QED
  BY <1>2, <1>3

LEMMA DeleteRouteTableIsGood ==
    ASSUME Inv, NEW c \in Clients, DeleteRouteTable(c)
    PROVE  GoodStep(c)
<1> PICK t \in Tables :
        /\ Whole(c, "DeleteRouteTable")
        /\ table[t] # None /\ NotMain(t)
        /\ table' = Without(table, {t})
        /\ main' = main \ {t}
        /\ assoc' = Without(assoc, AssocsAt({t}, {}))
        /\ route' = Without(route, {t} \X Dests)
        /\ DropTags({t})
        /\ UNCHANGED <<vpc, subnet, gateway, instance, used>>
  BY DEF DeleteRouteTable
<1>1. RowTypes /\ Drawn /\ MainsAreTables /\ NothingOutlivesItsParent /\ EveryVpcRoutes /\ SubnetsNeverOverlap
  BY DEF Inv, DbInv
<1>2. main' = main
  BY DEF NotMain
<1>3. /\ \A u \in Tables : table'[u] = IF u = t THEN None ELSE table[u]
      /\ table' \in [Tables -> Vpcs \cup {None}]
  BY <1>1 DEF Without, RowTypes
<1>4. /\ \A a \in Assocs : assoc'[a] = IF a \in AssocsAt({t}, {}) THEN None ELSE assoc[a]
      /\ assoc' \in [Assocs -> AssocRows \cup {None}]
  BY <1>1 DEF Without, RowTypes
<1>5. /\ \A u \in Tables, d \in Dests : route'[<<u, d>>] = IF u = t THEN None ELSE route[<<u, d>>]
      /\ route' \in [Tables \X Dests -> {"local", "target", None}]
  BY <1>1 DEF Without, RowTypes
<1>6. RowTypes' /\ Drawn' /\ MainsAreTables' /\ SubnetsNeverOverlap'
  BY <1>1, <1>2, <1>3, <1>4, <1>5
     DEF RowTypes, Drawn, MainsAreTables, SubnetsNeverOverlap, DropTags, NotMain
<1>7. NothingOutlivesItsParent'
  <2>1. \A u \in Tables : table'[u] # None => vpc'[table'[u]] # None
    BY <1>1, <1>3 DEF NothingOutlivesItsParent
  <2>2. ASSUME NEW a \in Assocs, assoc'[a] # None
        PROVE  table'[assoc'[a].table] # None /\ subnet'[assoc'[a].subnet] # None
    <3>1. a \notin AssocsAt({t}, {}) /\ assoc'[a] = assoc[a] /\ assoc[a] # None
      BY <2>2, <1>4
    <3>2. assoc[a].table \in Tables \ {t} /\ table[assoc[a].table] # None /\ subnet[assoc[a].subnet] # None
      BY <3>1, <1>1 DEF AssocsAt, NothingOutlivesItsParent, RowTypes, AssocRows
    <3> QED
      BY <3>1, <3>2, <1>3
  <2>3. ASSUME NEW u \in Tables, NEW d \in Dests, route'[<<u, d>>] # None PROVE table'[u] # None
    <3>1. u # t /\ route[<<u, d>>] # None
      BY <2>3, <1>5
    <3>2. table[u] # None
      BY <3>1, <1>1 DEF NothingOutlivesItsParent
    <3> QED
      BY <3>1, <3>2, <1>3
  <2> QED
    BY <2>1, <2>2, <2>3, <1>1 DEF NothingOutlivesItsParent
<1>8. EveryVpcRoutes'
  <2>1. ASSUME NEW w \in Vpcs, vpc'[w] # None PROVE \E u \in main' : main' \cap TablesOf(w)' = {u}
    <3>1. PICK u \in main : main \cap TablesOf(w) = {u}
      BY <2>1, <1>1 DEF EveryVpcRoutes
    <3>2. TablesOf(w)' \ {t} = TablesOf(w) \ {t}
      BY <1>3 DEF TablesOf
    <3> QED
      BY <3>1, <3>2, <1>2 DEF NotMain
  <2>2. \A u \in Tables : table'[u] # None => route'[<<u, "local">>] = "local"
    BY <1>1, <1>3, <1>5 DEF EveryVpcRoutes, Dests
  <2>3. \A a, b \in Assocs :
            assoc'[a] # None /\ assoc'[b] # None /\ assoc'[a].subnet = assoc'[b].subnet => a = b
    BY <1>1, <1>4 DEF EveryVpcRoutes
  <2> QED
    BY <2>1, <2>2, <2>3 DEF EveryVpcRoutes
<1>9. RowsFade(c)
  BY <1>5, IdsAssumption DEF RowsFade
<1>10. GatewaysSpared /\ LivingSpared /\ TagsGo
  <2>1. \A x \in Stored : x \notin Stored' => x = t
    BY <1>3 DEF Stored
  <2> QED
    BY <2>1, IdsAssumption DEF GatewaysSpared, LivingSpared, TagsGo, DropTags
<1> QED
  BY <1>6, <1>7, <1>8, <1>9, <1>10, WholeIsGood DEF GoodRows, DbInv, Whole

LEMMA AssociationsAreGood ==
    ASSUME Inv, NEW c \in Clients, InsertAssociation(c) \/ DropAssociation(c)
    PROVE  GoodStep(c)
<1>1. RowTypes /\ Drawn /\ MainsAreTables /\ NothingOutlivesItsParent /\ EveryVpcRoutes /\ SubnetsNeverOverlap
  BY DEF Inv, DbInv
<1>2. CASE UNCHANGED db
  BY <1>2, EndIsGood, QuietRows DEF InsertAssociation, DropAssociation, At
<1>3. CASE ~UNCHANGED db /\ InsertAssociation(c)
  <2> DEFINE row == [table |-> req[c].table, subnet |-> req[c].subnet]
  <2>1. /\ req[c].op = "AssociateRouteTable" /\ MayAssociate(req[c].table, req[c].subnet) /\ End(c)
        /\ req[c].table \in Tables /\ req[c].subnet \in Subnets
        /\ UNCHANGED <<vpc, subnet, gateway, table, main, route, instance, tagged>>
    BY <1>3 DEF InsertAssociation, At, Inv, ClientOK, RequestOK
  <2>2. PICK a \in Assocs : Draw({a}) /\ assoc' = [assoc EXCEPT ![a] = row]
    BY <1>3 DEF InsertAssociation
  <2>3. /\ row \in AssocRows /\ row # None /\ row.table = req[c].table /\ row.subnet = req[c].subnet
        /\ a \notin used /\ used' = used \cup {a} /\ assoc[a] = None
    BY <1>1, <2>1, <2>2, IdsAssumption DEF AssocRows, Draw, Drawn
  <2> HIDE DEF row
  <2>4. /\ \A b \in Assocs : assoc'[b] = IF b = a THEN row ELSE assoc[b]
        /\ assoc' \in [Assocs -> AssocRows \cup {None}]
    BY <1>1, <2>2, <2>3 DEF RowTypes
  <2>5. RowTypes' /\ Drawn' /\ MainsAreTables' /\ SubnetsNeverOverlap'
    BY <1>1, <2>1, <2>3, <2>4 DEF RowTypes, Drawn, MainsAreTables, SubnetsNeverOverlap, Ids
  <2>6. NothingOutlivesItsParent'
    BY <1>1, <2>1, <2>3, <2>4 DEF NothingOutlivesItsParent, MayAssociate
  <2>7. EveryVpcRoutes'
    <3>1. ASSUME NEW b \in Assocs, NEW d \in Assocs, assoc'[b] # None, assoc'[d] # None,
                 assoc'[b].subnet = assoc'[d].subnet
          PROVE  b = d
      BY <3>1, <1>1, <2>1, <2>3, <2>4 DEF EveryVpcRoutes, MayAssociate
    <3> QED
      BY <3>1, <1>1, <2>1 DEF EveryVpcRoutes, TablesOf
  <2>8. RowsFade(c) /\ GatewaysSpared /\ LivingSpared /\ TagsGo
    BY <2>1, <2>3, IdsAssumption DEF RowsFade, GatewaysSpared, LivingSpared, TagsGo, Stored
  <2> QED
    BY <2>1, <2>5, <2>6, <2>7, <2>8, EndIsGood DEF GoodRows, DbInv, At
<1>4. CASE DropAssociation(c)
  <2>1. /\ req[c].op = "DisassociateRouteTable" /\ End(c) /\ assoc' = Without(assoc, {req[c].assoc})
        /\ UNCHANGED <<vpc, subnet, gateway, table, main, route, instance, tagged, used>>
    BY <1>4 DEF DropAssociation, At
  <2>2. /\ \A b \in Assocs : assoc'[b] = None \/ assoc'[b] = assoc[b]
        /\ assoc' \in [Assocs -> AssocRows \cup {None}]
    BY <1>1, <2>1 DEF Without, RowTypes
  <2>3. RowTypes' /\ Drawn' /\ MainsAreTables' /\ SubnetsNeverOverlap'
    BY <1>1, <2>1, <2>2 DEF RowTypes, Drawn, MainsAreTables, SubnetsNeverOverlap
  <2>4. NothingOutlivesItsParent' /\ EveryVpcRoutes'
    <3>1. NothingOutlivesItsParent'
      BY <1>1, <2>1, <2>2 DEF NothingOutlivesItsParent
    <3>2. EveryVpcRoutes'
      BY <1>1, <2>1, <2>2 DEF EveryVpcRoutes, TablesOf
    <3> QED
      BY <3>1, <3>2
  <2>5. RowsFade(c) /\ GatewaysSpared /\ LivingSpared /\ TagsGo
    BY <2>1, IdsAssumption DEF RowsFade, GatewaysSpared, LivingSpared, TagsGo, Stored
  <2> QED
    BY <2>1, <2>3, <2>4, <2>5, EndIsGood DEF GoodRows, DbInv, At
<1> QED
  BY <1>2, <1>3, <1>4

LEMMA RoutesAreGood ==
    ASSUME Inv, NEW c \in Clients, InsertRoute(c) \/ DropRoute(c)
    PROVE  GoodStep(c)
<1> DEFINE t == req[c].table
           d == req[c].dest
<1>1. RowTypes /\ Drawn /\ MainsAreTables /\ NothingOutlivesItsParent /\ EveryVpcRoutes /\ SubnetsNeverOverlap
  BY DEF Inv, DbInv
<1>2. /\ End(c) /\ UNCHANGED <<vpc, subnet, gateway, table, main, assoc, instance, tagged, used>>
      /\ t \in Tables /\ d \in Dests /\ req[c].op \in {"CreateRoute", "DeleteRoute"}
  BY DEF InsertRoute, DropRoute, At, Inv, ClientOK, RequestOK
<1>3. /\ \A u \in Tables, e \in Dests :
             \/ route'[<<u, e>>] = route[<<u, e>>]
             \/ route'[<<u, e>>] = "target" /\ route[<<u, e>>] = None /\ table[u] # None
             \/ route'[<<u, e>>] = None /\ route[<<u, e>>] # "local"
      /\ route' \in [Tables \X Dests -> {"local", "target", None}]
  <2>1. CASE InsertRoute(c)
    BY <2>1, <1>1, <1>2 DEF InsertRoute, RowTypes
  <2>2. CASE DropRoute(c)
    <3>1. route' = Without(route, {<<t, d>>})
      BY <2>2 DEF DropRoute
    <3>2. route[<<t, d>>] # "local"
      BY <2>2 DEF DropRoute, At, Inv, ClientOK
    <3> QED
      BY <3>1, <3>2, <1>1, <1>2 DEF Without, RowTypes
  <2> QED
    BY <2>1, <2>2
<1>4. \A u \in Tables, e \in Dests : route[<<u, e>>] = "local" => route'[<<u, e>>] = "local"
  BY <1>3, IdsAssumption
<1>5. RowTypes' /\ Drawn' /\ MainsAreTables' /\ SubnetsNeverOverlap'
  BY <1>1, <1>2, <1>3 DEF RowTypes, Drawn, MainsAreTables, SubnetsNeverOverlap
<1>6. NothingOutlivesItsParent'
  <2>1. ASSUME NEW u \in Tables, NEW e \in Dests, route'[<<u, e>>] # None PROVE table'[u] # None
    BY <2>1, <1>1, <1>2, <1>3 DEF NothingOutlivesItsParent
  <2> QED
    BY <2>1, <1>1, <1>2 DEF NothingOutlivesItsParent
<1>7. EveryVpcRoutes'
  <2>1. \A u \in Tables : table'[u] # None => route'[<<u, "local">>] = "local"
    BY <1>1, <1>2, <1>4 DEF EveryVpcRoutes, Dests
  <2> QED
    BY <2>1, <1>1, <1>2 DEF EveryVpcRoutes, TablesOf
<1>8. RowsFade(c)
  <2>1. ASSUME NEW u \in Tables, NEW e \in Dests, route'[<<u, e>>] = "local" PROVE route[<<u, e>>] = "local"
    BY <2>1, <1>3, IdsAssumption
  <2> QED
    BY <2>1, <1>2 DEF RowsFade
<1>9. GatewaysSpared /\ LivingSpared /\ TagsGo
  BY <1>2, IdsAssumption DEF GatewaysSpared, LivingSpared, TagsGo, Stored
<1> QED
  BY <1>2, <1>5, <1>6, <1>7, <1>8, <1>9, <1>1, EndIsGood DEF GoodRows, DbInv, At
-----------------------------------------------------------------------------
(* Instances and tags. *)

LEMMA InsertInstanceIsGood ==
    ASSUME Inv, NEW c \in Clients, InsertInstance(c)
    PROVE  GoodStep(c)
<1>1. pc[c] = "write" /\ req[c].op = "RunInstances" /\ req[c].subnet \in Subnets
  BY DEF InsertInstance, At, Inv, ClientOK, RequestOK
<1>2. CASE subnet[req[c].subnet] = None
  BY <1>1, <1>2, EndIsGood, QuietRows DEF InsertInstance, At
<1>3. CASE subnet[req[c].subnet] # None
  <2> DEFINE row == [subnet |-> req[c].subnet, live |-> TRUE]
  <2>0. PICK i \in Instances :
            \E withTags \in MayTag(i) :
               /\ Draw({i})
               /\ instance' = [instance EXCEPT ![i] = row]
               /\ ThenTag(c, i, withTags)
               /\ UNCHANGED <<vpc, subnet, gateway, table, main, assoc, route, tagged>>
    BY <1>3 DEF InsertInstance
  <2>1. PICK withTags \in MayTag(i) : ThenTag(c, i, withTags)
    BY <2>0
  <2>2. /\ i \notin used /\ used' = used \cup {i} /\ instance' = [instance EXCEPT ![i] = row]
        /\ UNCHANGED <<vpc, subnet, gateway, table, main, assoc, route, tagged>>
    BY <2>0 DEF Draw
  <2>3. RowTypes /\ Drawn /\ MainsAreTables /\ NothingOutlivesItsParent /\ EveryVpcRoutes /\ SubnetsNeverOverlap
    BY DEF Inv, DbInv
  <2>4. row \in InstanceRows /\ row # None /\ row.subnet = req[c].subnet
    BY <1>1, IdsAssumption DEF InstanceRows
  <2> HIDE DEF row
  <2>5. /\ \A j \in Instances : instance'[j] = IF j = i THEN row ELSE instance[j]
        /\ instance' \in [Instances -> InstanceRows \cup {None}]
    BY <2>2, <2>3, <2>4 DEF RowTypes
  <2>6. RowTypes' /\ Drawn' /\ MainsAreTables'
    BY <2>2, <2>3, <2>5 DEF RowTypes, Drawn, MainsAreTables, Ids
  <2>7. NothingOutlivesItsParent' /\ EveryVpcRoutes' /\ SubnetsNeverOverlap'
    BY <1>3, <2>2, <2>3, <2>4, <2>5 DEF NothingOutlivesItsParent, EveryVpcRoutes, TablesOf, SubnetsNeverOverlap
  <2>8. RowsFade(c)
    BY <2>2, <2>5 DEF RowsFade
  <2>9. GatewaysSpared /\ LivingSpared
    BY <2>2, <2>4, <2>5, IdsAssumption DEF GatewaysSpared, LivingSpared
  <2>10. TagsGo
    <3>1. Stored \subseteq Stored'
      BY <2>2, <2>4, <2>5 DEF Stored
    <3> QED
      BY <3>1 DEF TagsGo
  <2> QED
    BY <1>1, <2>1, <2>6, <2>7, <2>8, <2>9, <2>10, ThenTagIsGood DEF GoodRows, DbInv
<1> QED
  BY <1>2, <1>3

LEMMA TerminateInstancesIsGood ==
    ASSUME Inv, NEW c \in Clients, TerminateInstances(c)
    PROVE  GoodStep(c)
<1>1. PICK S \in SUBSET Instances :
          /\ Whole(c, "TerminateInstances")
          /\ \A i \in S : instance[i] # None
          /\ instance' = [i \in Instances |-> IF i \in S THEN [instance[i] EXCEPT !.live = FALSE] ELSE instance[i]]
          /\ UNCHANGED <<vpc, subnet, gateway, table, main, assoc, route, tagged, used>>
  BY DEF TerminateInstances
<1>2. RowTypes /\ Drawn /\ MainsAreTables /\ NothingOutlivesItsParent /\ EveryVpcRoutes /\ SubnetsNeverOverlap
  BY DEF Inv, DbInv
<1>3. \A r \in InstanceRows :
          /\ r # None
          /\ [r EXCEPT !.live = FALSE] \in InstanceRows
          /\ [r EXCEPT !.live = FALSE].subnet = r.subnet /\ [r EXCEPT !.live = FALSE].live = FALSE
  BY IdsAssumption DEF InstanceRows
<1>4. \A i \in Instances : instance[i] # None => instance[i] \in InstanceRows
  BY <1>2 DEF RowTypes
<1>5. ASSUME NEW i \in Instances
      PROVE  /\ instance'[i] \in InstanceRows \cup {None}
             /\ instance'[i] = None <=> instance[i] = None
             /\ instance[i] # None =>
                    instance'[i].subnet = instance[i].subnet /\ (instance'[i].live => instance[i].live)
  <2>1. CASE i \in S
    <3> DEFINE row == [instance[i] EXCEPT !.live = FALSE]
    <3>1. instance'[i] = row /\ instance[i] # None
      BY <2>1, <1>1
    <3>2. row # None /\ row \in InstanceRows /\ row.subnet = instance[i].subnet /\ row.live = FALSE
      BY <3>1, <1>3, <1>4
    <3> HIDE DEF row
    <3> QED
      BY <3>1, <3>2
  <2>2. CASE i \notin S
    BY <2>2, <1>1, <1>4
  <2> QED
    BY <2>1, <2>2
<1>6. DOMAIN instance' = Instances /\ instance' = [i \in Instances |-> instance'[i]]
  BY <1>1
<1>7. instance' \in [Instances -> InstanceRows \cup {None}]
  BY <1>5, <1>6
<1>8. RowTypes' /\ Drawn' /\ MainsAreTables'
  BY <1>1, <1>2, <1>5, <1>7 DEF RowTypes, Drawn, MainsAreTables
<1>9. NothingOutlivesItsParent' /\ EveryVpcRoutes' /\ SubnetsNeverOverlap'
  BY <1>1, <1>2, <1>5 DEF NothingOutlivesItsParent, EveryVpcRoutes, TablesOf, SubnetsNeverOverlap
<1>10. RowsFade(c)
  BY <1>1, <1>5 DEF RowsFade
<1>11. GatewaysSpared /\ LivingSpared
  BY <1>1, <1>5, IdsAssumption DEF GatewaysSpared, LivingSpared
<1>12. TagsGo
  <2>1. Stored \subseteq Stored'
    BY <1>1, <1>5 DEF Stored
  <2> QED
    BY <2>1 DEF TagsGo
<1> QED
  BY <1>1, <1>8, <1>9, <1>10, <1>11, <1>12, WholeIsGood DEF GoodRows, DbInv, Whole

LEMMA TagWritesAreGood ==
    ASSUME Inv, NEW c \in Clients, PutTags(c) \/ RemoveTags(c)
    PROVE  GoodStep(c)
<1>1. /\ UNCHANGED <<vpc, subnet, gateway, table, main, assoc, route, instance, used>> /\ End(c)
      /\ req[c].op \in {"CreateTags", "DeleteTags"}
  BY DEF PutTags, RemoveTags, At
<1>2. tagged' \subseteq Taggable
  BY DEF PutTags, RemoveTags, At, Inv, DbInv, RowTypes, ClientOK, RequestOK
<1>3. DbInv'
  BY <1>1, <1>2 DEF Inv, DbInv, RowTypes, Drawn, MainsAreTables, NothingOutlivesItsParent, EveryVpcRoutes,
                    TablesOf, SubnetsNeverOverlap
<1>4. RowsFade(c) /\ GatewaysSpared /\ LivingSpared /\ TagsGo
  BY <1>1, IdsAssumption DEF RowsFade, GatewaysSpared, LivingSpared, TagsGo, Stored
<1> QED
  BY <1>1, <1>3, <1>4, EndIsGood DEF GoodRows, At
-----------------------------------------------------------------------------
(* The theorems. *)

LEMMA InitInv == Init => Inv
<1> SUFFICES ASSUME Init PROVE Inv
  OBVIOUS
<1>1. RowTypes /\ Drawn /\ MainsAreTables
  BY DEF Init, RowTypes, Drawn, MainsAreTables
<1>2. NothingOutlivesItsParent /\ SubnetsNeverOverlap
  BY DEF Init, NothingOutlivesItsParent, SubnetsNeverOverlap
<1>3. EveryVpcRoutes
  BY DEF Init, EveryVpcRoutes
<1>4. ClientTypes /\ \A c \in Clients : ClientOK(c)
  BY DEF Init, ClientTypes, ClientOK
<1> QED
  BY <1>1, <1>2, <1>3, <1>4 DEF Inv, DbInv

\* What every step keeps and promises.
Promised == GatewaysSpared /\ LivingSpared /\ TagsGo /\ \A c \in Clients : ModifyIsExact(c)

LEMMA NextInv == Inv /\ [Next]_vars => Inv' /\ Promised
<1> SUFFICES ASSUME Inv, [Next]_vars PROVE Inv' /\ Promised
  OBVIOUS
<1>1. ASSUME NEW c \in Clients,
             Vpc(c) \/ Subnet(c) \/ Gateway(c) \/ Routing(c) \/ Compute(c) \/ Tags(c)
      PROVE  GoodStep(c)
  <2>1. CASE Vpc(c)
    BY <2>1, ArrivalsAreGood, CreateVpcIsGood, ReadVpcIsGood, UpdateVpcIsGood, DeleteVpcIsGood DEF Vpc
  <2>2. CASE Subnet(c)
    BY <2>2, ArrivalsAreGood, InsertSubnetIsGood, UpdateSubnetIsGood, PurgeInstanceIsGood, DropSubnetIsGood
       DEF Subnet
  <2>3. CASE Gateway(c)
    BY <2>3, ArrivalsAreGood, GatewayActionsAreGood DEF Gateway
  <2>4. CASE Routing(c)
    BY <2>4, ArrivalsAreGood, InsertRouteTableIsGood, DeleteRouteTableIsGood, AssociationsAreGood, RoutesAreGood
       DEF Routing
  <2>5. CASE Compute(c)
    BY <2>5, ArrivalsAreGood, InsertInstanceIsGood, TerminateInstancesIsGood DEF Compute
  <2>6. CASE Tags(c)
    BY <2>6, ArrivalsAreGood, TagWritesAreGood DEF Tags
  <2> QED
    BY <1>1, <2>1, <2>2, <2>3, <2>4, <2>5, <2>6
<1>2. CASE Next
  BY <1>1, <1>2 DEF Next, GoodStep, Promised
<1>3. CASE UNCHANGED vars
  <2>1. Inv'
    BY <1>3 DEF vars, Inv, DbInv, RowTypes, Drawn, MainsAreTables, NothingOutlivesItsParent, EveryVpcRoutes,
                TablesOf, SubnetsNeverOverlap, ClientTypes, ClientOK, RequestOK, ListedOK, ModifyOK
  <2>2. Promised
    BY <1>3, IdsAssumption
       DEF vars, Promised, GatewaysSpared, LivingSpared, TagsGo, Stored, ModifyIsExact, At
  <2> QED
    BY <2>1, <2>2
<1> QED
  BY <1>2, <1>3

LEMMA Invariance == Spec => []Inv
BY InitInv, NextInv, PTL DEF Spec

\* In any network nothing is left in a VPC, a subnet or a route table that is gone, and
\* every VPC has its one main table: the foreign keys and cascades, whatever overlaps.
THEOREM SpecNetworkIsSound == Spec => []NetworkIsSound
<1>1. Inv => NetworkIsSound
  BY DEF Inv, DbInv, NetworkIsSound, RowTypes, TypeOK, ClientTypes
<1> QED
  BY <1>1, Invariance, PTL

\* Concurrent creates never leave two subnets of a VPC with an address in common.
THEOREM SpecSubnetsNeverOverlap == Spec => []SubnetsNeverOverlap
<1>1. Inv => SubnetsNeverOverlap
  BY DEF Inv, DbInv
<1> QED
  BY <1>1, Invariance, PTL

\* A gateway loses its VPC to a detach or with the VPC alone, and no DeleteSubnet, by
\* whatever list it read before, deletes a live instance.
THEOREM SpecDeletesSpareTheLiving == Spec => DeletesSpareTheLiving
<1>1. Inv /\ [Next]_vars => GatewaysSpared /\ LivingSpared
  BY NextInv DEF Promised
<1> QED
  BY <1>1, Invariance, PTL DEF Spec, DeletesSpareTheLiving, GatewaysSpared, LivingSpared

\* A ModifyVpcAttribute that no other change of its VPC overlaps changes the one
\* attribute and leaves host names on only beside DNS support.
THEOREM SpecQuietModifyIsExact == Spec => QuietModifyIsExact
<1>1. Inv /\ [Next]_vars => \A c \in Clients : ModifyIsExact(c)
  BY NextInv DEF Promised
<1> QED
  BY <1>1, Invariance, PTL DEF Spec, QuietModifyIsExact, ModifyIsExact

\* Whatever takes a resource away, a cascade too, takes its tags in the same step.
THEOREM SpecTagsGoWithTheirResource == Spec => TagsGoWithTheirResource
<1>1. Inv /\ [Next]_vars => TagsGo
  BY NextInv DEF Promised
<1> QED
  BY <1>1, Invariance, PTL DEF Spec, TagsGoWithTheirResource, TagsGo
=============================================================================

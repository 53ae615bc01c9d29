------------------------------ MODULE LoadRows ------------------------------
(***************************************************************************)
(* What a recorded read holds, and what each loader makes of it: the order *)
(* loaders run in, the rows an item needs before it is written, the rows   *)
(* it references, what its write refuses, and what its Describe answers    *)
(* once every row is stored.  An item's fields are those that name other   *)
(* rows, or that another row holds a copy of.                              *)
(***************************************************************************)
EXTENDS Naturals, Sequences, FiniteSets

CONSTANTS
    VpcAttributes,      \* ec2VpcDNSAttributes
    InstanceAttributes, \* ec2InstanceReadAttributes
    NoId                \* no such id

\* The types of row, in the order their loaders run: by LoadRank of the table a
\* loader writes, then as registered.
LoadOrder == <<"availability-zone", "vpc", "vpc-attribute", "subnet", "security-group",
               "security-group-rule", "elastic-ip", "internet-gateway", "route-table",
               "image", "key-pair", "instance", "instance-attribute", "network-interface",
               "volume", "role", "instance-profile", "role-policy-attachment",
               "role-policy", "role-policy-name", "ssm-parameter">>

\* A variant for the runs' mutants: the order in which Reset deletes, not reversed.
RankInReset(t) == 1 + Len(LoadOrder) - (CHOOSE n \in 1..Len(LoadOrder) : LoadOrder[n] = t)

Rank(t) == CHOOSE n \in 1..Len(LoadOrder) : LoadOrder[n] = t

\* An item is [type, id] and its type's fields. role-policy-name writes no row.
Ref(x) == <<x.type, x.id>>
RefsOf(X) == {Ref(x) : x \in X}
The(t, id) == IF id = NoId THEN {} ELSE {<<t, id>>}
First(s) == IF s = << >> THEN NoId ELSE s[1]
Writes(x) == x.type # "role-policy-name"

\* The rows of X of type t for which P holds.
OfType(X, t) == {x \in X : x.type = t}

-----------------------------------------------------------------------------
\* decodeX: what a loader makes of an item of an answer.

ZoneItem(z, id)      == [type |-> "availability-zone", id |-> z, zoneId |-> id]
VpcItem(v, dhcp)     == [type |-> "vpc", id |-> v, dhcp |-> dhcp]
VpcAttributeItem(v, a) == [type |-> "vpc-attribute", id |-> <<v, a>>, vpc |-> v]
SubnetItem(s, v, z, id) == [type |-> "subnet", id |-> s, vpc |-> v, zone |-> z, zoneId |-> id]
GatewayItem(g, V)    == [type |-> "internet-gateway", id |-> g, vpcs |-> V]
GroupItem(g, v, P)   == [type |-> "security-group", id |-> g, vpc |-> v, permissions |-> P]
RuleItem(r, g, s, e) == [type |-> "security-group-rule", id |-> r, group |-> g, source |-> s, egress |-> e]
\* A route is its target, whether it is a blackhole, and whether it has an IPv4
\* destination; an association is of a subnet or, at the edge, of a gateway.
RouteTableItem(t, v, S, G, R, m) ==
    [type |-> "route-table", id |-> t, vpc |-> v, subnets |-> S, gateways |-> G, routes |-> R,
     mains |-> m]
\* An instance's copy of its primary interface is its id, address and Elastic IP.
InstanceItem(i, s, nic, k, V, p) ==
    [type |-> "instance", id |-> i, subnet |-> s, nic |-> nic, key |-> k, volumes |-> V,
     image |-> "ami", profile |-> p]
InstanceAttributeItem(i, a) == [type |-> "instance-attribute", id |-> <<i, a>>, instance |-> i]
InterfaceItem(ni, s, v, i, x, G, e, ip) ==
    [type |-> "network-interface", id |-> ni, subnet |-> s, vpc |-> v, instance |-> i,
     index |-> x, groups |-> G, address |-> e, ip |-> ip]
AddressItem(e, ni, i) == [type |-> "elastic-ip", id |-> e, eni |-> ni, instance |-> i]
VolumeItem(d, A, s)  == [type |-> "volume", id |-> d, attachments |-> A, snapshot |-> s]
KeyPairItem(k, p)    == [type |-> "key-pair", id |-> k, print |-> p]
ImageItem(a)         == [type |-> "image", id |-> a]
RoleItem(r, b)       == [type |-> "role", id |-> r, boundary |-> b]
RolePolicyItem(r, p) == [type |-> "role-policy", id |-> <<r, p>>, role |-> r]
RolePolicyNameItem(r, p) == [type |-> "role-policy-name", id |-> <<r, p>>]
PolicyAttachmentItem(r, p) == [type |-> "role-policy-attachment", id |-> <<r, p>>, role |-> r, policy |-> p]
ProfileItem(p, R)    == [type |-> "instance-profile", id |-> p, roles |-> R]
ParameterItem(p, a)  == [type |-> "ssm-parameter", id |-> p, image |-> a]

Types == {LoadOrder[k] : k \in 1..Len(LoadOrder)}

\* An item as its loader makes it, of what AWS answers: an instance's mapping names
\* a volume once.
IsItem(x) ==
    /\ x.type \in Types /\ x.id # NoId
    /\ x.type = "subnet"         => x = SubnetItem(x.id, x.vpc, x.zone, x.zoneId)
    /\ x.type = "security-group" => x = GroupItem(x.id, x.vpc, x.permissions)
    /\ x.type = "network-interface" =>
          x = InterfaceItem(x.id, x.subnet, x.vpc, x.instance, x.index, x.groups, x.address, x.ip)
    /\ x.type = "instance" =>
          /\ x = InstanceItem(x.id, x.subnet, x.nic, x.key, x.volumes, x.profile)
          /\ \A m \in x.volumes : m = [volume |-> m.volume, how |-> m.how]
          /\ \A m, o \in x.volumes : m.volume = o.volume => m = o
    /\ x.type = "volume"      => \A a \in x.attachments : a = [instance |-> a.instance, how |-> a.how]
    /\ x.type = "route-table" => x.mains \in Nat

-----------------------------------------------------------------------------
\* The rows an item's write asks for: a foreign key, or the row it updates.

InVpc(x)          == {<<"vpc", x.vpc>>}
InSubnet(x)       == {<<"subnet", x.subnet>>}
UnderRole(r)      == {<<"role", r>>}
TableNeeds(x)     == InVpc(x) \cup {<<"subnet", s>> : s \in x.subnets}
RuleNeeds(x)      == {<<"security-group", x.group>>}
InterfaceNeeds(x) == InSubnet(x) \cup The("instance", x.instance)
VolumeNeeds(x)    == {<<"instance", a.instance>> : a \in x.attachments}

Under(x) ==
    CASE x.type \in {"subnet", "security-group", "vpc-attribute"} -> InVpc(x)
      [] x.type = "route-table"         -> TableNeeds(x)
      [] x.type = "security-group-rule" -> RuleNeeds(x)
      [] x.type = "instance"            -> InSubnet(x)
      [] x.type = "instance-attribute"  -> {<<"instance", x.instance>>}
      [] x.type = "network-interface"   -> InterfaceNeeds(x)
      [] x.type = "volume"              -> VolumeNeeds(x)
      [] x.type \in {"role-policy", "role-policy-attachment"} -> UnderRole(x.role)
      [] x.type = "instance-profile"    -> The("role", First(x.roles))
      [] OTHER -> {}

-----------------------------------------------------------------------------
\* The references an item declares: those the reader reads, and, once no exchange
\* held them the answer's unresolved, those it never does.

LocalRoute == <<"local">>

\* routeTableRefs: of what the routes target and the edge associations name, an
\* internet gateway is read, but for a blackhole's.
OfInternetGateway(q) == q.to[1] = "internet-gateway" /\ ~q.blackhole
EdgeGateways(x)      == {g \in x.gateways : g[1] = "internet-gateway"}

RouteReferences(x) == {q.to : q \in {r \in x.routes : OfInternetGateway(r)}} \cup EdgeGateways(x)
RouteUnread(x) ==
    {q.to : q \in {r \in x.routes : ~OfInternetGateway(r) /\ r.to # LocalRoute}}
        \cup (x.gateways \ EdgeGateways(x))

RuleReferences(x) == IF x.source[1] = "security-group" THEN {x.source} ELSE {}
RuleUnread(x)     == IF x.source[1] \in {"peer-group", "prefix-list"} THEN {x.source} ELSE {}

InstanceReferences(x) ==
    (IF x.nic = NoId THEN {} ELSE {<<"network-interface", x.nic.eni>>})
        \cup The("key-pair", x.key)
        \cup {<<"volume", m.volume>> : m \in x.volumes}
        \cup {<<"instance-attribute", <<x.id, a>>>> : a \in InstanceAttributes}

InterfaceReferences(x) ==
    {<<"vpc", x.vpc>>} \cup {<<"security-group", g>> : g \in x.groups} \cup The("elastic-ip", x.address)

AddressReferences(x) == The("network-interface", x.eni) \cup The("instance", x.instance)

References(x) ==
    CASE x.type = "vpc"                 -> {<<"vpc-attribute", <<x.id, a>>>> : a \in VpcAttributes}
      [] x.type = "internet-gateway"    -> The("vpc", First(x.vpcs))
      [] x.type = "route-table"         -> RouteReferences(x)
      [] x.type = "security-group-rule" -> RuleReferences(x)
      [] x.type = "instance"            -> InstanceReferences(x)
      [] x.type = "network-interface"   -> InterfaceReferences(x)
      [] x.type = "elastic-ip"          -> AddressReferences(x)
      [] x.type = "role-policy-name"    -> {<<"role-policy", x.id>>}
      [] OTHER -> {}

Unread(x) ==
    CASE x.type = "vpc"                 -> The("dhcp-options", x.dhcp)
      [] x.type = "route-table"         -> RouteUnread(x)
      [] x.type = "security-group-rule" -> RuleUnread(x)
      [] x.type = "instance"            -> The("image", x.image) \cup The("instance-profile", x.profile)
      [] x.type = "volume"              -> The("snapshot", x.snapshot)
      [] x.type = "ssm-parameter"       -> The("image", x.image)
      [] x.type = "role-policy-attachment" -> The("policy", x.policy)
      [] x.type = "role"                -> The("policy", x.boundary)
      [] OTHER -> {}

-----------------------------------------------------------------------------
\* putRouteTable: no IPv6 or prefix-list route, one main association a VPC.
RouteTableFits(X, x) ==
    /\ \A r \in x.routes : r.ipv4
    /\ x.mains > 0 =>
          /\ x.mains = 1
          /\ ~\E t \in OfType(X, "route-table") : t.vpc = x.vpc /\ t.mains > 0

\* ErrSourceHeld: another rule of the permission holds the source.
RuleFits(X, x) ==
    ~\E r \in OfType(X, "security-group-rule") :
        r.group = x.group /\ r.egress = x.egress /\ r.source = x.source

\* An instance has only its primary interface.
InterfaceFits(x) == x.instance # NoId => x.index = 0

\* checkVolumeAttachment: the instance's own mapping names the volume, the same way.
VolumeFits(X, x) ==
    \A a \in x.attachments : \E i \in OfType(X, "instance") :
        i.id = a.instance /\ [volume |-> x.id, how |-> a.how] \in i.volumes

\* A variant for the runs' mutants: a volume's attachment taken as it is.
FitsUnchecked(X, x) ==
    CASE x.type = "route-table" -> RouteTableFits(X, x)
      [] x.type = "security-group-rule" -> RuleFits(X, x)
      [] x.type = "network-interface" -> InterfaceFits(x)
      [] OTHER -> TRUE

Fits(X, x) ==
    CASE x.type = "route-table" -> RouteTableFits(X, x)
      [] x.type = "security-group-rule" -> RuleFits(X, x)
      [] x.type = "network-interface" -> InterfaceFits(x)
      [] x.type = "volume" -> VolumeFits(X, x)
      [] OTHER -> TRUE

\* An item's write, against the rows X already stored, is not refused.
Writable(X, x) == Under(x) \subseteq RefsOf(X) /\ Fits(X, x)

-----------------------------------------------------------------------------
\* renderX: an item as its handler's encoder answers it from the rows X; what its
\* own row holds it answers as recorded.

\* A subnet answers its zone's id, an empty one when the zone is not stored.
ShownZone(X, x) ==
    LET zones == {z \in OfType(X, "availability-zone") : z.id = x.zone} IN
    IF zones = {} THEN NoId ELSE (CHOOSE z \in zones : TRUE).zoneId

\* EIPOfNetworkInterface.
ShownAddress(X, eni) ==
    LET held == {e \in OfType(X, "elastic-ip") : e.eni = eni} IN
    IF held = {} THEN NoId ELSE (CHOOSE e \in held : TRUE).id

\* NetworkInterfaceOfInstance and ec2LoadedInstanceNet.
ShownNic(X, x) ==
    LET on == {n \in OfType(X, "network-interface") : n.instance = x.id} IN
    IF on = {} THEN NoId
    ELSE LET n == CHOOSE n \in on : TRUE IN
         [eni |-> n.id, ip |-> n.ip, address |-> ShownAddress(X, n.id)]

\* A permission is answered from the group's rules.
ShownPermissions(X, x) ==
    {[source |-> r.source, egress |-> r.egress] :
        r \in {q \in OfType(X, "security-group-rule") : q.group = x.id}}

\* A gateway holds one attachment and a profile one role.
ShownVpcs(x)  == IF Len(x.vpcs) > 1 THEN <<x.vpcs[1]>> ELSE x.vpcs
ShownRoles(x) == IF Len(x.roles) > 1 THEN <<x.roles[1]>> ELSE x.roles

ShownSubnet(X, x)    == [x EXCEPT !.zoneId = ShownZone(X, x)]
ShownGroup(X, x)     == [x EXCEPT !.permissions = ShownPermissions(X, x)]
ShownInterface(X, x) == [x EXCEPT !.address = ShownAddress(X, x.id)]
ShownInstance(X, x)  == [x EXCEPT !.nic = ShownNic(X, x)]

\* A variant for the runs' mutants: an interface shown with its recorded address.
ShownAsRecorded(X, x) ==
    CASE x.type = "subnet"           -> ShownSubnet(X, x)
      [] x.type = "internet-gateway" -> [x EXCEPT !.vpcs = ShownVpcs(x)]
      [] x.type = "instance-profile" -> [x EXCEPT !.roles = ShownRoles(x)]
      [] x.type = "security-group"   -> ShownGroup(X, x)
      [] x.type = "instance"         -> ShownInstance(X, x)
      [] OTHER -> x

Shown(X, x) ==
    CASE x.type = "subnet"            -> ShownSubnet(X, x)
      [] x.type = "internet-gateway"  -> [x EXCEPT !.vpcs = ShownVpcs(x)]
      [] x.type = "instance-profile"  -> [x EXCEPT !.roles = ShownRoles(x)]
      [] x.type = "security-group"    -> ShownGroup(X, x)
      [] x.type = "network-interface" -> ShownInterface(X, x)
      [] x.type = "instance"          -> ShownInstance(X, x)
      [] OTHER -> x

\* checkBlockDeviceVolumes: a volume the instance maps is attached to it.
Attached(X, x) ==
    x.type = "instance" =>
        \A m \in x.volumes : \A v \in OfType(X, "volume") :
            v.id = m.volume => \E a \in v.attachments : a.instance = x.id

\* loadRun.agree: an instance's copy of its interface against the interface.
Agrees(X, x) ==
    x.type = "instance" /\ x.nic # NoId =>
        \A n \in OfType(X, "network-interface") : n.id = x.nic.eni => n.ip = x.nic.ip

\* resolve and diff accept x, the rows written being X.
Accepted(X, x) ==
    /\ References(x) \subseteq RefsOf(X)
    /\ Agrees(X, x)
    /\ Attached(X, x)
    /\ Shown(X, x) = x
=============================================================================

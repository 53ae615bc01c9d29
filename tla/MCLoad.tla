------------------------------- MODULE MCLoad -------------------------------
(* Small instances of Load for TLC. *)
EXTENDS Load, TLC

Page(key, entry, carried, next, items) ==
    [key |-> key, entry |-> entry, carried |-> carried, next |-> next,
     answer |-> "ok", decodes |-> "items", items |-> items]
One(x) == Page(x.type, x.id, NoId, NoId, <<x>>)
Ones(S) == {<<One(x)>> : x \in S}
Maybe(S) == {<< >>} \cup Ones(S)
Refused(key, a) == [key |-> key, entry |-> a, carried |-> NoId, next |-> NoId,
                    answer |-> a, decodes |-> "items", items |-> << >>]
Undecodable(key, how) == [Page(key, "bad", NoId, NoId, << >>) EXCEPT !.decodes = how]

Vpc(v)    == VpcItem(v, "dopt")
VpcDNS(v) == VpcAttributeItem(v, "dns")
Zone      == ZoneItem("z", "z-id")
Subnet(z) == SubnetItem("s", "v", "z", z)
Group(P)  == GroupItem("g", "v", P)
Rule(r, s) == RuleItem(r, "g", s, FALSE)
Gateway(V) == GatewayItem("gw", V)
Table(t, S, G, R, m) == RouteTableItem(t, "v", S, G, R, m)
Route(to, b, four) == [to |-> to, blackhole |-> b, ipv4 |-> four]
Instance(nic, V) == InstanceItem("i", "s", nic, NoId, V, NoId)
InstanceStop == InstanceAttributeItem("i", "stop")
Interface(i, x, a) == InterfaceItem("n", "s", "v", i, x, {"g"}, a, "p1")
Address(ni, i) == AddressItem("e", ni, i)
Volume(A) == VolumeItem("d", A, "snap")
Key(k, p) == KeyPairItem(k, p)
Role      == RoleItem("r", NoId)
Policy    == RolePolicyItem("r", "p")
PolicyName == RolePolicyNameItem("r", "p")
Attachment == PolicyAttachmentItem("r", "arn")
Profile(R) == ProfileItem("ip", R)
Image      == ImageItem("ami")
Parameter  == ParameterItem("ssm", "ami")

\* An instance and what it is made of, recorded children first.
MCCompute ==
    {v \o e \o ni \o a \o i \o <<One(Subnet("z-id")), One(VpcDNS("v")), One(Vpc("v")), One(Group({})), One(Zone)>> :
        v \in Maybe({Volume({}), Volume({[instance |-> "i", how |-> "h"]}),
                     Volume({[instance |-> "i", how |-> "other"]})}),
        e \in Maybe({Address(NoId, NoId), Address("n", NoId), Address("n", "i")}),
        ni \in Maybe({Interface(NoId, 0, NoId), Interface(NoId, 0, "e"), Interface("i", 0, NoId),
                      Interface("i", 0, "e"), Interface("i", 1, NoId)}),
        a \in Maybe({InstanceStop}),
        i \in Maybe({Instance(nic, V) :
                        nic \in {NoId, [eni |-> "n", ip |-> "p1", address |-> NoId],
                                 [eni |-> "n", ip |-> "p1", address |-> "e"],
                                 [eni |-> "n", ip |-> "p2", address |-> NoId]},
                        V \in {{}, {[volume |-> "d", how |-> "h"]}}})}

\* A VPC's gateway, route tables, zone, group and rules.
MCNetwork ==
    {t \o u \o g \o p \o q \o s \o w \o a \o <<One(Vpc("v"))>> :
        t \in Maybe({Table("t", S, {}, R, m) : S \in {{}, {"s"}},
                        R \in {{Route(<<"local">>, FALSE, TRUE)},
                               {Route(<<"internet-gateway", "gw">>, FALSE, TRUE)},
                               {Route(<<"internet-gateway", "gw">>, TRUE, TRUE)}}, m \in {1}}
                    \cup {Table("t", {}, {}, {Route(<<"local">>, FALSE, FALSE)}, 0), Table("t", {}, {}, {}, 2),
                          Table("t", {}, {<<"internet-gateway", "gw">>}, {}, 0)}),
        u \in Maybe({Table("u", {}, {}, {}, 1)}),
        g \in Maybe({Gateway(<<"v">>), Gateway(<<"v", "w">>)}),
        p \in {<<One(Group({}))>>, <<One(Group({[source |-> <<"cidr">>, egress |-> FALSE]}))>>},
        q \in {<< >>, <<One(Rule("r1", <<"cidr">>))>>, <<One(Rule("r1", <<"security-group", "h">>))>>,
               <<One(Rule("r1", <<"cidr">>)), One(Rule("r2", <<"cidr">>))>>},
        s \in Maybe({Subnet("z-id"), Subnet(NoId)}),
        w \in Maybe({Zone}),
        a \in Maybe({VpcDNS("v")})}

MCIdentity ==
    {f \o ni \o a \o p \o r \o s :
        f \in Maybe({Profile(<< >>), Profile(<<"r">>), Profile(<<"r", "r2">>)}),
        ni \in Maybe({PolicyName}), a \in Maybe({Attachment}), p \in Maybe({Policy}), r \in Maybe({Role}),
        s \in {<< >>, <<One(Parameter)>>, <<One(Image), One(Parameter)>>, <<Undecodable("ssm-parameter", "refusal")>>,
               <<Undecodable("ssm-parameter", "error")>>,
               <<Refused("role", "absent")>>, <<Refused("role", "error")>>, <<Refused("role", "unparsable")>>}}

\* Two pages and three, of one read or of two, that may hold one key pair twice.
Pages(E, C, N, I) == {Page("key-pair", e, c, x, i) : e \in E, c \in C, x \in N, i \in I}
MCTwoPages ==
    LET P == Pages({"q1", "q2"}, {NoId, "t"}, {NoId, "t", Truncated},
                   {<<Key("k1", "a")>>, <<Key("k1", "b")>>, <<Key("k2", "a")>>, <<Key("k2", "a"), Key("k2", "a")>>})
    IN {<<a, b>> : a, b \in P}
MCThreePages ==
    LET P(k) == Pages({"q"}, {NoId, "t", "u"}, {NoId, "t", "u"}, {<<Key(k, "a")>>})
    IN {<<a, b, c>> : a \in P("k1"), b \in P("k2"), c \in P("k3")}

MCFaulty == {<<One(Vpc("v")), One(VpcDNS("v")), One(Key("k1", "a"))>>,
             <<One(Subnet(NoId)), One(Key("k1", "a")), One(Key("k2", "a"))>>}

MCRecordings ==
    [compute |-> MCCompute, network |-> MCNetwork, identity |-> MCIdentity,
     pages |-> MCTwoPages \cup MCThreePages, faults |-> MCFaulty,
     log |-> {<<One(Key("k1", "a"))>>, <<One(Subnet(NoId))>>}]

MCMaxLoads == [m \in DOMAIN MCRecordings |-> IF m \in {"log", "faults"} THEN 2 ELSE 1]
MCBefore   == {[rows |-> {Vpc("old")}, loaded |-> FALSE]}
=============================================================================

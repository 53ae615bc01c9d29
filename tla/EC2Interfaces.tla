---------------------------- MODULE EC2Interfaces ----------------------------
(***************************************************************************)
(* What stands in EC2's subnets, in one account and region: security       *)
(* groups with their rules, instances with their network interfaces,       *)
(* Elastic IPs and loaded volumes. The VPCs and subnets are EC2Network's,  *)
(* and stay: none that holds an interface can be deleted.                  *)
(*                                                                         *)
(* An interface's row is read whole into a request, changed there and      *)
(* written back whole, by requests that run beside each other. Steps are   *)
(* EC2Network's: a lookup a request begins with belongs to the step it     *)
(* arrives in, a later statement or transaction is a step of its own, and  *)
(* a refusal that changes nothing is no step unless it ends a request      *)
(* under way.                                                              *)
(***************************************************************************)
EXTENDS Naturals, Sequences, FiniteSets, Functions

CONSTANTS
    Clients,                          \* requests that may be in flight at once
    Vpcs, Subnets, VpcOf,             \* the VPCs; the subnets and each one's VPC
    Groups, Instances, Enis, Eips, Rules, Volumes, \* the ids ec2RandID may draw
    DefaultOf,                        \* the group CreateVpc made with each VPC
    LoadedInstances, LoadedEnis,      \* what a load stored, in the behaviours it is in
    Perms, Sources,                   \* a rule's direction, protocol and ports; its source
    MaxAsked,                         \* bound: the rules one authorize lists
    GroupLists,                       \* the lists of groups that requests send
    Hosts, Wanted,                    \* the usable addresses of a subnet, from 1 up; those launches ask for
    Net,                              \* the addresses of a public /24, from 0 up
    Derive,                           \* ec2DerivePublicIP: the address an id derives
    Mixes,                            \* the sets of operations clients send
    Singly,                           \* bound: the operations of which one request is in flight at once
    None                              \* no row, or NULL

Datas    == [instance: Instances \cup {None}, groups: SUBSET Groups, check: BOOLEAN, auto: BOOLEAN,
             keep: BOOLEAN, public: ({"eip", "auto"} \X (0 .. Net - 1)) \cup {None}]
EniRows  == [subnet: Subnets, private: 1 .. Hosts, instance: Instances \cup {None}, data: Datas]
EipRows  == [ip: 0 .. Net - 1, eni: Enis \cup {None}, instance: Instances \cup {None}]
RuleRows == [id: Rules, group: Groups, perm: Perms, src: Sources, permOrd: Nat, srcOrd: Nat]
InstanceRows == [state: {"running", "terminated"}, protected: BOOLEAN]

ASSUME InterfacesAssumption ==
    /\ Hosts \in Nat \ {0} /\ Wanted \subseteq 1 .. Hosts /\ MaxAsked \in Nat /\ Net \in Nat \ {0}
    /\ Derive \in [Enis \cup Eips -> 0 .. Net - 1]
    /\ VpcOf \in [Subnets -> Vpcs]
    /\ DefaultOf \in [Vpcs -> Groups] /\ \A v, w \in Vpcs : DefaultOf[v] = DefaultOf[w] => v = w
    /\ LoadedInstances \subseteq Instances /\ LoadedEnis \subseteq Enis
    /\ GroupLists \subseteq SUBSET Groups
    /\ Perms \subseteq [egress: BOOLEAN, ports: STRING]
    /\ None \notin Vpcs \cup Instances \cup Enis \cup InstanceRows \cup EniRows \cup EipRows
    /\ None \notin {"eip", "auto"} \X (0 .. Net - 1)

VARIABLES
    group,    \* ec2_security_groups: each one's VPC
    rule,     \* ec2_security_group_rules
    instance, \* ec2_instances
    eni,      \* ec2_network_interfaces: the instance_id column, and data, which names it too
    eip,      \* ec2_eips
    volume,   \* ec2_volumes: the attachments, <<instance, deleteOnTermination>>
    used,     \* the ids drawn so far: 64 random bits do not recur
    ops,      \* what this behaviour is of: the operations its clients send, and "Load"
    pc, req,  \* each client's place and request
    seen,     \* the interface's data as it read it
    inStep    \* every write so far was of a row that was still as it was read

db   == <<group, rule, instance, eni, eip, volume, used>>
vars == <<group, rule, instance, eni, eip, volume, used, ops, pc, req, seen, inStep>>

\* What a load stored, in the behaviours that begin with one; an address is one
\* interface's, by the table's UNIQUE.
Loaded(ids) == IF "Load" \in ops THEN ids ELSE {}

\* A loaded interface, free or attached to a loaded instance, to be kept or not.
LoadedRows ==
    {[subnet |-> s, private |-> Hosts, instance |-> i,
      data |-> [instance |-> i, groups |-> {DefaultOf[VpcOf[s]]}, check |-> TRUE, auto |-> FALSE,
                keep |-> k /\ i # None, public |-> None]] :
        s \in Subnets, i \in LoadedInstances \cup {None}, k \in BOOLEAN}

\* A loaded volume's attachments, one an instance.
LoadedAttachments ==
    {S \in SUBSET (Loaded(LoadedInstances) \X BOOLEAN) : \A a, b \in S : a[1] = b[1] => a = b}

Init ==
    /\ ops \in Mixes
    /\ group = [g \in Groups |-> IF \E v \in Vpcs : DefaultOf[v] = g
                                 THEN CHOOSE v \in Vpcs : DefaultOf[v] = g ELSE None]
    /\ rule = {}
    /\ instance = [i \in Instances |->
           IF i \in Loaded(LoadedInstances) THEN [state |-> "running", protected |-> FALSE] ELSE None]
    /\ eni \in {f \in [Enis -> LoadedRows \cup {None}] :
                    /\ \A e \in Enis : f[e] # None <=> e \in Loaded(LoadedEnis)
                    /\ \A d, e \in Loaded(LoadedEnis) : d # e => f[d].subnet # f[e].subnet}
    /\ eip = [p \in Eips |-> None]
    /\ volume \in [Volumes -> LoadedAttachments]
    /\ used = Loaded(LoadedInstances) \cup Loaded(LoadedEnis) \cup {DefaultOf[v] : v \in Vpcs}
    /\ pc = [c \in Clients |-> "idle"]
    /\ req = [c \in Clients |-> None]
    /\ seen = [c \in Clients |-> None]
    /\ inStep = TRUE

-----------------------------------------------------------------------------
\* How requests go from one statement to the next.

Arrive(c, r, place, reads) ==
    /\ pc[c] = "idle" /\ r.op \in ops
    /\ r.op \in Singly => \A d \in Clients : pc[d] # "idle" => req[d].op # r.op
    /\ pc' = [pc EXCEPT ![c] = place]
    /\ req' = [req EXCEPT ![c] = r]
    /\ seen' = [seen EXCEPT ![c] = reads]
    /\ UNCHANGED <<db, inStep>>

At(c, place, o) == pc[c] = place /\ req[c].op = o

\* A request of one step.
Whole(c, o) == pc[c] = "idle" /\ o \in ops /\ UNCHANGED <<pc, req, seen, inStep>>

End(c) ==
    /\ pc' = [pc EXCEPT ![c] = "idle"]
    /\ req' = [req EXCEPT ![c] = None]
    /\ seen' = [seen EXCEPT ![c] = None]

\* The write that ends a request, and whether what it read still stands.
Writes(c, fresh) == End(c) /\ inStep' = (inStep /\ fresh)

\* One that finds it cannot write.
Refused(c) == End(c) /\ UNCHANGED <<db, inStep>>

Draw(ids) == ids \cap used = {} /\ used' = used \cup ids

StoredGroups == {g \in Groups : group[g] # None}
StoredEnis   == {e \in Enis : eni[e] # None}

-----------------------------------------------------------------------------
\* Security groups and their rules.

\* CreateSecurityGroup: the INSERT. The name's UNIQUE is the caller's to meet.
CreateSecurityGroup(c) ==
    \E g \in Groups, v \in Vpcs :
        /\ Whole(c, "CreateSecurityGroup")
        /\ Draw({g})
        /\ group' = [group EXCEPT ![g] = v]
        /\ UNCHANGED <<rule, instance, eni, eip, volume>>

Held(g) == \E e \in StoredEnis : g \in eni[e].data.groups

\* DeleteSecurityGroup refuses a default group, and the DELETE one that is held. The
\* group's rules go by cascade; a rule that names it as its source stays.
DeleteSecurityGroup(c) ==
    \E g \in StoredGroups :
        /\ Whole(c, "DeleteSecurityGroup")
        /\ g # DefaultOf[group[g]] /\ ~Held(g)
        /\ group' = [group EXCEPT ![g] = None]
        /\ rule' = {r \in rule : r.group # g}
        /\ UNCHANGED <<instance, eni, eip, volume, used>>

Permission(rows, g, p) == {r \in rows : r.group = g /\ r.perm = p}
Direction(rows, g, p)  == {r \in rows : r.group = g /\ r.perm.egress = p.egress}
After(ords)            == IF ords = {} THEN 0 ELSE 1 + CHOOSE o \in ords : \A x \in ords : x <= o

\* A variant for the runs' mutants: a new permission after the count of the others.
PermOrdCounting(rows, g, p) ==
    IF Permission(rows, g, p) # {} THEN CHOOSE o \in {r.permOrd : r \in Permission(rows, g, p)} : TRUE
    ELSE Cardinality({r.permOrd : r \in Direction(rows, g, p)})

\* ruleOrdinals: a permission's place, after the direction's last when it has none.
PermOrd(rows, g, p) ==
    IF Permission(rows, g, p) # {} THEN CHOOSE o \in {r.permOrd : r \in Permission(rows, g, p)} : TRUE
    ELSE After({r.permOrd : r \in Direction(rows, g, p)})

\* One rule of an authorize; a source its permission holds already is skipped.
Add(rows, new) ==
    LET held == Permission(rows, new.group, new.perm) IN
    IF \E r \in held : r.src = new.src THEN rows
    ELSE rows \cup {[new EXCEPT !.permOrd = PermOrd(rows, new.group, new.perm),
                                !.srcOrd = After({r.srcOrd : r \in held})]}

\* The rules of one authorize, after one another.
AddAll(rows, new) ==
    LET after[k \in 0 .. Len(new)] == IF k = 0 THEN rows ELSE Add(after[k - 1], new[k]) IN after[Len(new)]

\* The rules a request's permissions list, a rule per source.
Asked == UNION {[1 .. n -> Perms \X Sources] : n \in 1 .. MaxAsked}

\* refuseIpPermissions: a source that is one of the account's groups must be there. Its
\* protocol and ports are the caller's to get right.
Admitted(perms) == \A k \in DOMAIN perms : perms[k][2] \in Groups => group[perms[k][2]] # None

\* AuthorizeSecurityGroupIngress and Egress: the groups its sources name are looked up,
AuthorizeSecurityGroupRules(c) ==
    \E g \in Groups, asked \in Asked :
        /\ \A k \in DOMAIN asked : asked[k][1].egress = asked[1][1].egress
        /\ Admitted(asked)
        /\ Arrive(c, [op |-> "AuthorizeSecurityGroupRules", group |-> g, asked |-> asked], "write", None)

\* and all are added in one transaction, which reads the group.
InsertRules(c) ==
    LET g == req[c].group  asked == req[c].asked IN
    /\ At(c, "write", "AuthorizeSecurityGroupRules")
    /\ \/ group[g] = None /\ Refused(c)
       \/ /\ group[g] # None
          /\ \E ids \in [DOMAIN asked -> Rules \ used] :
                /\ \A j, k \in DOMAIN asked : ids[j] = ids[k] => j = k
                /\ used' = used \cup {ids[k] : k \in DOMAIN asked}
                /\ rule' = AddAll(rule,
                              [k \in DOMAIN asked |-> [id |-> ids[k], group |-> g, perm |-> asked[k][1],
                                                       src |-> asked[k][2], permOrd |-> 0, srcOrd |-> 0]])
          /\ Writes(c, TRUE)
          /\ UNCHANGED <<group, instance, eni, eip, volume>>

\* RevokeSecurityGroupIngress and Egress: one transaction. An id the group lacks in the
\* direction refuses it all; a source it lacks is no error.
RevokeSecurityGroupRules(c) ==
    \E g \in StoredGroups, egress \in BOOLEAN :
    \E byId \in SUBSET {r \in rule : r.group = g /\ r.perm.egress = egress} :
    \E bySource \in SUBSET {r \in rule : r.group = g /\ r.perm.egress = egress} :
        /\ Whole(c, "RevokeSecurityGroupRules")
        /\ byId \cup bySource # {}
        /\ rule' = rule \ (byId \cup bySource)
        /\ UNCHANGED <<group, instance, eni, eip, volume, used>>

\* sgPermissions: the permissions a group's rows of one direction are shown as, one a
\* place, with the protocol and ports of the first row there and the sources of all.
sgPermissions(rows) ==
    {LET there == {r \in rows : r.permOrd = o} IN
     <<(CHOOSE r \in there : \A x \in there : r.srcOrd <= x.srcOrd).perm, {r.src : r \in there}>> :
        o \in {r.permOrd : r \in rows}}

-----------------------------------------------------------------------------
\* Instances and their interfaces.

\* The addresses from `want` up, wrapping in the /24, that are not held: freeIP takes
\* the first, and errs when there is none.
Steps(want, held) == {n \in 0 .. Net - 1 : (want + n) % Net \notin held}
FreeIP(want, held) ==
    (want + CHOOSE n \in Steps(want, held) : \A m \in Steps(want, held) : n <= m) % Net

\* claimPublicIP: what no other interface shows.
AutoHeld(e) == {a \in 0 .. Net - 1 : \E f \in StoredEnis \ {e} : eni[f].data.public = <<"auto", a>>}
MayClaim(e) == Steps(Derive[e], AutoHeld(e)) # {}
Claimed(e)  == <<"auto", FreeIP(Derive[e], AutoHeld(e))>>

PrivateFree(s) == {a \in 1 .. Hosts : \A e \in StoredEnis : eni[e].subnet = s => eni[e].private # a}

\* RunInstances and CreateInstance look up the subnet and each group, which must be of
\* the subnet's VPC. A launch asks for a private address or for none.
RunInstances(c) ==
    \E s \in Subnets, gs \in GroupLists, auto \in BOOLEAN, want \in Wanted \cup {None} :
        /\ \A g \in gs : group[g] = VpcOf[s]
        /\ Arrive(c, [op |-> "RunInstances", subnet |-> s, groups |-> gs, auto |-> auto, private |-> want],
                  "write", None)

\* A launch may ask for DisableApiTermination; a bound: only where some terminate.
Protection == {FALSE} \cup {p \in {TRUE} : "TerminateInstances" \in ops}

\* The transaction: the instance, the first free private address or the one asked for,
\* the public one, the interface.
InsertInstance(c) ==
    LET r == req[c]
        free == PrivateFree(r.subnet)
        fits == IF r.private = None THEN {a \in free : \A b \in free : a <= b} ELSE free \cap {r.private}
    IN
    /\ At(c, "write", "RunInstances")
    /\ \E i \in Instances \ used, e \in Enis \ used, protect \in Protection :
          \/ ~(fits # {} /\ (r.auto => MayClaim(e))) /\ Refused(c)
          \/ /\ fits # {} /\ (r.auto => MayClaim(e))
             /\ Draw({i, e})
             /\ instance' = [instance EXCEPT ![i] = [state |-> "running", protected |-> protect]]
             /\ eni' = [eni EXCEPT ![e] =
                   [subnet |-> r.subnet, private |-> CHOOSE a \in fits : TRUE, instance |-> i,
                    data |-> [instance |-> i, groups |-> r.groups, check |-> TRUE, auto |-> r.auto, keep |-> FALSE,
                              public |-> IF r.auto THEN Claimed(e) ELSE None]]]
             /\ Writes(c, r.groups \subseteq StoredGroups)
             /\ UNCHANGED <<group, rule, eip, volume>>

\* ModifyInstanceAttribute: one transaction, refused for a terminated instance.
\* SourceDestCheck goes on its interface, and without one the whole is refused.
ModifyInstanceAttribute(c) ==
    \E i \in Instances, protect \in BOOLEAN \cup {None}, check \in BOOLEAN \cup {None} :
        LET own == {e \in StoredEnis : eni[e].instance = i} IN
        /\ Whole(c, "ModifyInstanceAttribute")
        /\ instance[i] # None /\ instance[i].state # "terminated"
        /\ protect # None \/ check # None
        /\ check # None => own # {}
        /\ instance' = IF protect = None THEN instance ELSE [instance EXCEPT ![i].protected = protect]
        /\ eni' = [e \in Enis |-> IF check # None /\ e \in own THEN [eni[e] EXCEPT !.data.check = check] ELSE eni[e]]
        /\ UNCHANGED <<group, rule, eip, volume, used>>

\* terminateVolumesTx, of the instances of S one after another: a volume that has no
\* other instance goes when the last one was attached to delete it.
AfterTerminate(S, place, atts) ==
    LET left == {a \in atts : a[1] \notin S}
        last == {a \in atts \ left : \A b \in atts \ left : place[b[1]] <= place[a[1]]}
    IN IF left = {} /\ \E a \in last : a[2] THEN None ELSE left

\* An address goes with its interface, and stays with one that is kept.
Cleared(eips, S, left) ==
    [p \in Eips |->
        IF eips[p] = None THEN None
        ELSE IF eips[p].instance \notin S THEN eips[p]
        ELSE IF eips[p].eni \in left THEN [eips[p] EXCEPT !.instance = None]
        ELSE [eips[p] EXCEPT !.instance = None, !.eni = None]]

\* TerminateInstances: SetInstanceState's transaction, of all the ids or of none; one
\* that was terminated already stays so. Its interfaces go, but for those it is to keep.
TerminateInstances(c) ==
    \E asked \in SUBSET Instances \ {{}} :
        LET S    == {i \in asked : instance[i].state = "running"}
            own  == {e \in StoredEnis : eni[e].instance \in S}
            kept == {e \in own : eni[e].data.keep}
        IN
        /\ Whole(c, "TerminateInstances")
        /\ \A i \in asked : instance[i] # None
        /\ \A i \in S : ~instance[i].protected
        /\ instance' = [i \in Instances |-> IF i \in S THEN [instance[i] EXCEPT !.state = "terminated"] ELSE instance[i]]
        /\ \E place \in Bijection(S, 1 .. Cardinality(S)) :
              volume' = [v \in Volumes |-> IF volume[v] = None THEN None ELSE AfterTerminate(S, place, volume[v])]
        /\ eni' = [e \in Enis |->
              IF e \in kept THEN [eni[e] EXCEPT !.instance = None, !.data.instance = None, !.data.keep = FALSE]
              ELSE IF e \in own THEN None ELSE eni[e]]
        /\ eip' = Cleared(eip, S, StoredEnis \ (own \ kept))
        /\ UNCHANGED <<group, rule, used>>

\* ModifyNetworkInterfaceAttribute: the interface and the groups are looked up. With no
\* groups it is the description, which nothing here reads, that changes.
ModifyNetworkInterfaceAttribute(c) ==
    \E e \in StoredEnis, gs \in GroupLists \cup {{}} :
        /\ \A g \in gs : group[g] = VpcOf[eni[e].subnet]
        /\ Arrive(c, [op |-> "ModifyNetworkInterfaceAttribute", eni |-> e, groups |-> gs], "read", None)

\* UpdateNetworkInterface reads it again,
ReadInterface(c) ==
    LET e == req[c].eni IN
    /\ At(c, "read", "ModifyNetworkInterfaceAttribute")
    /\ \/ eni[e] = None /\ Refused(c)
       \/ /\ eni[e] # None
          /\ pc' = [pc EXCEPT ![c] = "write"]
          /\ seen' = [seen EXCEPT ![c] = eni[e].data]
          /\ UNCHANGED <<db, req, inStep>>

\* and writes what it read with the groups changed. The UPDATE of a row that is gone
\* changes nothing and is no error.
UpdateInterface(c) ==
    LET e == req[c].eni  gs == req[c].groups IN
    /\ At(c, "write", "ModifyNetworkInterfaceAttribute")
    /\ \/ eni[e] = None /\ Refused(c)
       \/ /\ eni[e] # None
          /\ eni' = [eni EXCEPT ![e].data = IF gs = {} THEN seen[c] ELSE [seen[c] EXCEPT !.groups = gs]]
          /\ Writes(c, eni[e].data = seen[c] /\ gs \subseteq StoredGroups)
          /\ UNCHANGED <<group, rule, instance, eip, volume, used>>

-----------------------------------------------------------------------------
\* Elastic IPs.

AllocateAddress(c) ==
    \E p \in Eips :
        LET held == {eip[q].ip : q \in {q \in Eips : eip[q] # None}} IN
        /\ Whole(c, "AllocateAddress")
        /\ Steps(Derive[p], held) # {}
        /\ Draw({p})
        /\ eip' = [eip EXCEPT ![p] = [ip |-> FreeIP(Derive[p], held), eni |-> None, instance |-> None]]
        /\ UNCHANGED <<group, rule, instance, eni, volume>>

\* The DELETE spares an address that is associated.
ReleaseAddress(c) ==
    \E p \in Eips :
        /\ Whole(c, "ReleaseAddress")
        /\ eip[p] # None /\ eip[p].eni = None
        /\ eip' = [eip EXCEPT ![p] = None]
        /\ UNCHANGED <<group, rule, instance, eni, volume, used>>

\* AssociateAddress looks up the address, of which it takes what never changes, and the
\* interface: the one it names, or one of the instance it names.
AssociateAddress(c) ==
    \E p \in Eips, e \in StoredEnis :
        /\ eip[p] # None
        /\ Arrive(c, [op |-> "AssociateAddress", eip |-> p, eni |-> e], "write", eni[e].data)

\* The UPDATE's conditions: a free address, an interface no address is associated with.
Associable(p, e) ==
    /\ eip[p] # None /\ eip[p].eni = None
    /\ \A q \in Eips : eip[q] # None => eip[q].eni # e

\* A variant for the runs' mutants: updateENITx's count of rows not looked at.
AssociateEIPUncounted(c) ==
    LET p == req[c].eip  e == req[c].eni IN
    /\ At(c, "write", "AssociateAddress")
    /\ \/ ~Associable(p, e) /\ Refused(c)
       \/ /\ Associable(p, e)
          /\ eip' = [eip EXCEPT ![p].eni = e, ![p].instance = seen[c].instance]
          /\ eni' = IF eni[e] = None THEN eni
                    ELSE [eni EXCEPT ![e].data = [seen[c] EXCEPT !.public = <<"eip", eip[p].ip>>]]
          /\ Writes(c, eni[e] # None /\ eni[e].data = seen[c])
          /\ UNCHANGED <<group, rule, instance, volume, used>>

\* AssociateEIP: one transaction that takes a free address to an interface without one,
\* and writes the interface as it was read, with the address its public one.
AssociateEIP(c) ==
    LET p == req[c].eip  e == req[c].eni IN
    /\ At(c, "write", "AssociateAddress")
    /\ \/ ~(Associable(p, e) /\ eni[e] # None) /\ Refused(c)
       \/ /\ Associable(p, e) /\ eni[e] # None
          /\ eip' = [eip EXCEPT ![p].eni = e, ![p].instance = seen[c].instance]
          /\ eni' = [eni EXCEPT ![e].data = [seen[c] EXCEPT !.public = <<"eip", eip[p].ip>>]]
          /\ Writes(c, eni[e].data = seen[c])
          /\ UNCHANGED <<group, rule, instance, volume, used>>

\* DisassociateAddress finds the address by its association in the list of them,
DisassociateAddress(c) ==
    \E p \in Eips :
        /\ eip[p] # None /\ eip[p].eni # None
        /\ Arrive(c, [op |-> "DisassociateAddress", eip |-> p, eni |-> eip[p].eni], "read", None)

\* and reads the interface it was associated with.
ReadAssociated(c) ==
    LET e == req[c].eni IN
    /\ At(c, "read", "DisassociateAddress")
    /\ \/ eni[e] = None /\ Refused(c)
       \/ /\ eni[e] # None
          /\ pc' = [pc EXCEPT ![c] = "write"]
          /\ seen' = [seen EXCEPT ![c] = eni[e].data]
          /\ UNCHANGED <<db, req, inStep>>

\* A variant for the runs' mutants: the address its launch had, whoever has it now.
PublicAgainUnclaimed(e, data) == IF data.auto THEN <<"auto", Derive[e]>> ELSE None

\* A launch's automatic address comes back, moved past one another interface took.
PublicAgain(e, data) == IF data.auto THEN Claimed(e) ELSE None

\* DisassociateEIP: one transaction that clears whatever association the address has by
\* now, and writes the interface as it was read, without the address.
DisassociateEIP(c) ==
    LET p == req[c].eip  e == req[c].eni IN
    /\ At(c, "write", "DisassociateAddress")
    /\ \/ ~(eip[p] # None /\ eni[e] # None /\ (seen[c].auto => MayClaim(e))) /\ Refused(c)
       \/ /\ eip[p] # None /\ eni[e] # None /\ (seen[c].auto => MayClaim(e))
          /\ eip' = [eip EXCEPT ![p].eni = None, ![p].instance = None]
          /\ eni' = [eni EXCEPT ![e].data = [seen[c] EXCEPT !.public = PublicAgain(e, seen[c])]]
          /\ Writes(c, eni[e].data = seen[c] /\ eip[p].eni = e)
          /\ UNCHANGED <<group, rule, instance, volume, used>>

-----------------------------------------------------------------------------
SecurityGroup(c) == \/ CreateSecurityGroup(c) \/ DeleteSecurityGroup(c)
                    \/ AuthorizeSecurityGroupRules(c) \/ InsertRules(c) \/ RevokeSecurityGroupRules(c)
Compute(c)   == RunInstances(c) \/ InsertInstance(c) \/ ModifyInstanceAttribute(c) \/ TerminateInstances(c)
Interface(c) == ModifyNetworkInterfaceAttribute(c) \/ ReadInterface(c) \/ UpdateInterface(c)
Address(c)   == \/ AllocateAddress(c) \/ ReleaseAddress(c) \/ AssociateAddress(c) \/ AssociateEIP(c)
                \/ DisassociateAddress(c) \/ ReadAssociated(c) \/ DisassociateEIP(c)

Next ==
    /\ \E c \in Clients : SecurityGroup(c) \/ Compute(c) \/ Interface(c) \/ Address(c)
    /\ UNCHANGED ops

Spec == Init /\ [][Next]_vars

-----------------------------------------------------------------------------
\* Properties.

TypeOK ==
    /\ group \in [Groups -> Vpcs \cup {None}]
    /\ rule \subseteq RuleRows
    /\ instance \in [Instances -> InstanceRows \cup {None}]
    /\ \A e \in StoredEnis : eni[e] \in EniRows
    /\ \A p \in Eips : eip[p] # None => eip[p] \in EipRows
    /\ \A v \in Volumes : volume[v] # None => volume[v] \in SUBSET (Instances \X BOOLEAN)
    /\ pc \in [Clients -> {"idle", "read", "write"}]
    /\ inStep \in BOOLEAN

\* However its rules were authorized and revoked, a group shows the permissions it was
\* given and no other, each once, with each of its sources once.
RulesReadBack ==
    \A g \in {r.group : r \in rule}, egress \in BOOLEAN :
        LET rows == {r \in rule : r.group = g /\ r.perm.egress = egress}
            shown == sgPermissions(rows)
        IN
        /\ group[g] # None
        /\ {<<r.perm, r.src>> : r \in rows} = UNION {{p[1]} \X p[2] : p \in shown}
        /\ \A p, q \in shown : p[1] = q[1] => p = q
        /\ \A r, x \in rows : x # r /\ x.perm = r.perm => x.src # r.src /\ x.srcOrd # r.srcOrd

\* Whatever the requests overtake: an interface's groups are of its own VPC, and no two
\* interfaces of a subnet have one private address.
InterfacesAreSound ==
    /\ TypeOK /\ RulesReadBack
    /\ \A e \in StoredEnis : \A g \in eni[e].data.groups : group[g] \in {VpcOf[eni[e].subnet], None}
    /\ \A e, f \in StoredEnis : eni[e].subnet = eni[f].subnet /\ eni[e].private = eni[f].private => e = f

\* Whatever the requests overtake: no two addresses are one IP or of one interface, an
\* associated address's interface is there, and what has terminated was not protected
\* and holds no interface and no volume.
NothingDangles ==
    /\ \A p, q \in Eips :
          eip[p] # None /\ eip[q] # None /\ p # q =>
             eip[p].ip # eip[q].ip /\ (eip[p].eni = None \/ eip[p].eni # eip[q].eni)
    /\ \A p \in Eips : eip[p] # None /\ eip[p].eni # None => eni[eip[p].eni] # None
    /\ \A i \in Instances : instance[i] # None /\ instance[i].state = "terminated" =>
          /\ ~instance[i].protected
          /\ \A e \in StoredEnis : eni[e].instance # i
          /\ \A v \in Volumes : volume[v] # None => \A a \in volume[v] : a[1] # i

\* "EC2 shows an associated address as its ENI's public IP": as long as no request has
\* written over what changed since it read it, an interface shows the address that is
\* associated with it and no other, its groups are there, and no public address is
\* shown twice, "so ip-address selects one instance".
InStepTheyAgree ==
    inStep =>
        /\ \A e \in StoredEnis :
              LET mine == {p \in Eips : eip[p] # None /\ eip[p].eni = e} IN
              /\ eni[e].data.instance = eni[e].instance
              /\ eni[e].data.groups \subseteq StoredGroups
              /\ \A p \in mine : eni[e].data.public = <<"eip", eip[p].ip>> /\ eip[p].instance = eni[e].instance
              /\ mine = {} => eni[e].data.public = None \/ eni[e].data.public[1] = "auto"
        /\ \A e, f \in StoredEnis :
              eni[e].data.public # None /\ eni[e].data.public = eni[f].data.public => e = f
=============================================================================

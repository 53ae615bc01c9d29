------------------------- MODULE EC2InterfacesProofs -------------------------
(***************************************************************************)
(* For any clients, rows, rules and addresses: a security group shows the  *)
(* rules it was given, interfaces' groups are of their own VPC, addresses  *)
(* are unique, nothing is left of what terminated, and an interface and    *)
(* its Elastic IP agree until a request writes over what it had not read.  *)
(***************************************************************************)
EXTENDS EC2Interfaces, SequenceTheorems, NaturalsInduction, WellFoundedInduction, TLAPS

(* Least numbers, which stand in for induction: of a counterexample, the first. *)

LEMMA Least ==
    ASSUME NEW S \in SUBSET Nat, S # {}
    PROVE  \E n \in S : \A m \in S : n <= m
<1> DEFINE R == OpToRel(<, Nat)
<1>1. \A x, y \in Nat : <<y, x>> \in R <=> y < x
  BY DEF OpToRel
<1>2. IsWellFoundedOn(R, Nat)
  BY NatLessThanWellFounded
<1> HIDE DEF R
<1>3. \E x \in S : \A y \in S : <<y, x>> \notin R
  BY <1>2, WFMin
<1>4. \A x, y \in Nat : ~(y < x) => x <= y
  OBVIOUS
<1> QED
  BY <1>1, <1>3, <1>4

LEMMA Greatest ==
    ASSUME NEW S \in SUBSET Nat, S # {}, NEW top \in Nat, \A x \in S : x <= top
    PROVE  \E n \in S : \A m \in S : m <= n
<1> DEFINE T == {n \in Nat : \E x \in S : n = top - x}
<1>1. T # {}
  <2>1. PICK x \in S : TRUE
    OBVIOUS
  <2>2. top - x \in Nat
    BY <2>1
  <2> QED
    BY <2>2
<1> HIDE DEF T
<1>2. PICK n \in T : \A m \in T : n <= m
  BY <1>1, Least DEF T
<1>3. PICK x \in S : n = top - x
  BY <1>2 DEF T
<1>4. ASSUME NEW y \in S PROVE y <= x
  <2>1. top - y \in T
    BY DEF T
  <2> QED
    BY <1>2, <1>3, <2>1
<1> QED
  BY <1>4
-----------------------------------------------------------------------------
(* The rules of security groups. *)

SameDirection(r, x) == r.group = x.group /\ r.perm.egress = x.perm.egress

\* A permission has one place, a place one permission, a source one rule in it.
Ordered(rows) ==
    \A r, x \in rows :
        /\ SameDirection(r, x) => (r.perm = x.perm <=> r.permOrd = x.permOrd)
        /\ SameDirection(r, x) /\ r # x /\ r.perm = x.perm => r.src # x.src /\ r.srcOrd # x.srcOrd

\* The places have a last, without which the next could not be after it.
Bounded(rows) == \E top \in Nat : \A r \in rows : r.permOrd <= top /\ r.srcOrd <= top

RulesOK(rows) == rows \subseteq RuleRows /\ Ordered(rows) /\ Bounded(rows)

LEMMA AfterIs ==
    ASSUME NEW ords \in SUBSET Nat, NEW top \in Nat, \A o \in ords : o <= top
    PROVE  After(ords) \in Nat /\ After(ords) <= top + 1 /\ \A o \in ords : o < After(ords)
<1>1. CASE ords = {}
  BY <1>1 DEF After
<1>2. CASE ords # {}
  <2> DEFINE last == CHOOSE o \in ords : \A x \in ords : x <= o
  <2>1. last \in ords /\ \A x \in ords : x <= last
    BY <1>2, Greatest
  <2>2. After(ords) = 1 + last
    BY <1>2 DEF After
  <2> HIDE DEF last
  <2> QED
    BY <2>1, <2>2
<1> QED
  BY <1>1, <1>2

LEMMA PermOrdIs ==
    ASSUME NEW rows, RulesOK(rows), NEW top \in Nat, \A r \in rows : r.permOrd <= top,
           NEW g, NEW p, NEW o, o = PermOrd(rows, g, p)
    PROVE  /\ o \in Nat /\ o <= top + 1
           /\ \A r \in Direction(rows, g, p) : r.perm = p <=> r.permOrd = o
<1>1. \A r \in rows : r.permOrd \in Nat
  BY DEF RulesOK, RuleRows
<1>2. CASE Permission(rows, g, p) # {}
  <2>1. PICK r \in rows : r.group = g /\ r.perm = p
    BY <1>2 DEF Permission
  <2>2. \A x \in Permission(rows, g, p) : x.permOrd = r.permOrd
    BY <2>1 DEF RulesOK, Ordered, SameDirection, Permission
  <2>3. {x.permOrd : x \in Permission(rows, g, p)} = {r.permOrd}
    BY <1>2, <2>2
  <2>4. o = r.permOrd
    BY <1>2, <2>3 DEF PermOrd
  <2>5. \A x \in Direction(rows, g, p) : x \in rows /\ (x.perm = r.perm <=> x.permOrd = r.permOrd)
    BY <2>1 DEF RulesOK, Ordered, SameDirection, Direction
  <2> QED
    BY <1>1, <2>1, <2>4, <2>5
<1>3. CASE Permission(rows, g, p) = {}
  <2> DEFINE ords == {r.permOrd : r \in Direction(rows, g, p)}
  <2>1. o = After(ords)
    BY <1>3 DEF PermOrd
  <2>2. ords \in SUBSET Nat /\ \A x \in ords : x <= top
    BY <1>1 DEF Direction
  <2>3. \A r \in Direction(rows, g, p) : r.permOrd \in ords /\ r.perm # p
    BY <1>3 DEF Direction, Permission
  <2> HIDE DEF ords
  <2>4. o \in Nat /\ o <= top + 1 /\ \A x \in ords : x < o
    BY <2>1, <2>2, AfterIs
  <2>5. \A r \in Direction(rows, g, p) : r.permOrd < o /\ r.permOrd \in Nat
    BY <2>2, <2>3, <2>4
  <2> QED
    BY <2>3, <2>4, <2>5
<1> QED
  BY <1>2, <1>3

LEMMA AddIsOK ==
    ASSUME NEW rows, RulesOK(rows), NEW new \in RuleRows
    PROVE  RulesOK(Add(rows, new)) /\ \A r \in Add(rows, new) : r \in rows \/ r.group = new.group
<1> DEFINE held == Permission(rows, new.group, new.perm)
           o == PermOrd(rows, new.group, new.perm)
           ords == {r.srcOrd : r \in held}
           s == After(ords)
           x == [new EXCEPT !.permOrd = o, !.srcOrd = s]
<1>1. CASE \E r \in held : r.src = new.src
  BY <1>1 DEF Add
<1>2. CASE ~\E r \in held : r.src = new.src
  <2>1. Add(rows, new) = rows \cup {x}
    BY <1>2 DEF Add
  <2>2. PICK top \in Nat : \A r \in rows : r.permOrd <= top /\ r.srcOrd <= top
    BY DEF RulesOK, Bounded
  <2>3. /\ o \in Nat /\ o <= top + 1
        /\ \A r \in Direction(rows, new.group, new.perm) : r.perm = new.perm <=> r.permOrd = o
    BY <2>2, PermOrdIs
  <2>4. ords \in SUBSET Nat /\ \A y \in ords : y <= top
    BY <2>2 DEF Permission, RulesOK, RuleRows
  <2>5. \A r \in held : r.srcOrd \in ords
    OBVIOUS
  <2> HIDE DEF o, ords
  <2>6. s \in Nat /\ s <= top + 1 /\ \A y \in ords : y < s
    BY <2>2, <2>4, AfterIs
  <2>7. \A r \in held : r.srcOrd # s
    BY <2>4, <2>5, <2>6
  <2> HIDE DEF s
  <2>8. /\ x \in RuleRows /\ x.group = new.group /\ x.perm = new.perm /\ x.src = new.src
        /\ x.permOrd = o /\ x.srcOrd = s
    BY <2>3, <2>6 DEF RuleRows
  <2> HIDE DEF x
  <2>9. \A r \in rows : SameDirection(r, x) => (r.perm = x.perm <=> r.permOrd = x.permOrd)
    BY <2>3, <2>8 DEF SameDirection, Direction
  <2>10. \A r \in rows : SameDirection(r, x) /\ r.perm = x.perm => r.src # x.src /\ r.srcOrd # x.srcOrd
    BY <1>2, <2>7, <2>8 DEF SameDirection, Permission
  <2>11. Ordered(rows \cup {x})
    BY <2>9, <2>10 DEF Ordered, RulesOK, SameDirection
  <2>12. Bounded(rows \cup {x})
    <3>1. top + 1 \in Nat /\ \A r \in rows : r.permOrd <= top + 1 /\ r.srcOrd <= top + 1
      BY <2>2 DEF RulesOK, RuleRows
    <3> QED
      BY <2>3, <2>6, <2>8, <3>1 DEF Bounded
  <2> QED
    BY <2>1, <2>8, <2>11, <2>12 DEF RulesOK
<1> QED
  BY <1>1, <1>2

LEMMA FewerAreOK ==
    ASSUME NEW rows, RulesOK(rows), NEW less \in SUBSET rows
    PROVE  RulesOK(less)
<1>1. less \subseteq RuleRows /\ Ordered(less)
  BY DEF RulesOK, Ordered
<1>2. Bounded(less)
  BY DEF RulesOK, Bounded
<1> QED
  BY <1>1, <1>2 DEF RulesOK

\* What AddAll's function is at each rule of a list: the first n rules are added.
Adds(f, rows, new, n) == f = [k \in 0 .. n |-> IF k = 0 THEN rows ELSE Add(f[k - 1], new[k])]

LEMMA AddsExist ==
    ASSUME NEW rows, NEW new, NEW n \in Nat
    PROVE  \E f : Adds(f, rows, new, n)
<1> DEFINE Bad == {m \in Nat : ~\E f : Adds(f, rows, new, m)}
<1> SUFFICES ASSUME Bad # {} PROVE FALSE
  OBVIOUS
<1>1. PICK m \in Bad : \A k \in Bad : m <= k
  BY Least
<1>2. CASE m = 0
  <2>1. Adds([k \in 0 .. m |-> rows], rows, new, m)
    BY <1>2 DEF Adds
  <2> QED
    BY <2>1
<1>3. CASE m # 0
  <2>1. m - 1 \in Nat /\ m - 1 \notin Bad
    BY <1>1, <1>3
  <2>2. PICK g : Adds(g, rows, new, m - 1)
    BY <2>1
  <2> DEFINE f == [k \in 0 .. m |-> IF k = m THEN Add(g[m - 1], new[m]) ELSE g[k]]
  <2>3. ASSUME NEW k \in 0 .. m PROVE f[k] = IF k = 0 THEN rows ELSE Add(f[k - 1], new[k])
    <3>1. CASE k = m
      BY <1>3, <3>1
    <3>2. CASE k # m
      <4>1. k \in 0 .. (m - 1) /\ (k # 0 => k - 1 \in 0 .. m /\ k - 1 # m)
        BY <1>3, <3>2
      <4>2. g[k] = IF k = 0 THEN rows ELSE Add(g[k - 1], new[k])
        BY <2>2, <4>1 DEF Adds
      <4> QED
        BY <3>2, <4>1, <4>2
    <3> QED
      BY <3>1, <3>2
  <2>4. Adds(f, rows, new, m)
    BY <2>3 DEF Adds
  <2> QED
    BY <2>4
<1> QED
  BY <1>2, <1>3

LEMMA AddAllIsOK ==
    ASSUME NEW rows, RulesOK(rows), NEW g, NEW new \in Seq({r \in RuleRows : r.group = g})
    PROVE  RulesOK(AddAll(rows, new)) /\ \A r \in AddAll(rows, new) : r \in rows \/ r.group = g
<1> DEFINE n == Len(new)
           f == CHOOSE f : Adds(f, rows, new, n)
<1>1. n \in Nat /\ \A k \in 1 .. n : new[k] \in RuleRows /\ new[k].group = g
  OBVIOUS
<1>2. AddAll(rows, new) = f[n]
  BY DEF AddAll, Adds
<1> HIDE DEF n
<1>3. Adds(f, rows, new, n)
  BY <1>1, AddsExist
<1> HIDE DEF f
<1>4. \A k \in 0 .. n : f[k] = IF k = 0 THEN rows ELSE Add(f[k - 1], new[k])
  BY <1>3 DEF Adds
<1> DEFINE Good(k) == RulesOK(f[k]) /\ \A r \in f[k] : r \in rows \/ r.group = g
           Bad == {k \in 0 .. n : ~Good(k)}
<1>5. ASSUME Bad # {} PROVE FALSE
  <2>1. PICK m \in Bad : \A k \in Bad : m <= k
    <3>1. Bad \in SUBSET Nat
      BY <1>1
    <3> HIDE DEF Bad
    <3> QED
      BY <1>5, <3>1, Least
  <2>2. m # 0
    BY <1>1, <1>4, <2>1
  <2>3. m - 1 \in 0 .. n /\ m \in 1 .. n /\ m - 1 \notin Bad
    BY <1>1, <2>1, <2>2
  <2>4. Good(m - 1) /\ f[m] = Add(f[m - 1], new[m])
    BY <1>4, <2>1, <2>2, <2>3
  <2>5. Good(m)
    BY <1>1, <2>3, <2>4, AddIsOK
  <2> QED
    BY <2>1, <2>5
<1>6. Good(n)
  BY <1>1, <1>5
<1> QED
  BY <1>2, <1>6

\* A place of a direction's rows shows the permission that is there.
LEMMA PlaceIs ==
    ASSUME NEW rows \in SUBSET RuleRows, NEW r \in rows,
           \A x, y \in rows : x.permOrd = y.permOrd => x.perm = y.perm
    PROVE  LET there == {x \in rows : x.permOrd = r.permOrd} IN
           (CHOOSE x \in there : \A y \in there : x.srcOrd <= y.srcOrd).perm = r.perm
<1> DEFINE there == {x \in rows : x.permOrd = r.permOrd}
           ords == {x.srcOrd : x \in there}
<1>1. ords \in SUBSET Nat /\ ords # {}
  BY DEF RuleRows
<1>2. \A x \in there : x.srcOrd \in ords
  OBVIOUS
<1>3. \A o \in ords : \E x \in there : o = x.srcOrd
  OBVIOUS
<1>4. \E x \in there : \A y \in there : x.srcOrd <= y.srcOrd
  <2> HIDE DEF there, ords
  <2>1. PICK o \in ords : \A m \in ords : o <= m
    BY <1>1, Least
  <2> QED
    BY <1>2, <1>3, <2>1
<1>5. (CHOOSE x \in there : \A y \in there : x.srcOrd <= y.srcOrd) \in there
  BY <1>4
<1> QED
  BY <1>5

LEMMA ReadBack ==
    ASSUME RulesOK(rule), \A r \in rule : group[r.group] # None
    PROVE  RulesReadBack
<1> SUFFICES ASSUME NEW g \in {r.group : r \in rule}, NEW egress \in BOOLEAN
             PROVE  LET rows == {r \in rule : r.group = g /\ r.perm.egress = egress}
                        shown == sgPermissions(rows)
                    IN /\ group[g] # None
                       /\ {<<r.perm, r.src>> : r \in rows} = UNION {{p[1]} \X p[2] : p \in shown}
                       /\ \A p, q \in shown : p[1] = q[1] => p = q
                       /\ \A r, x \in rows : x # r /\ x.perm = r.perm => x.src # r.src /\ x.srcOrd # r.srcOrd
  BY DEF RulesReadBack
<1> DEFINE rows == {r \in rule : r.group = g /\ r.perm.egress = egress}
           There(o) == {x \in rows : x.permOrd = o}
           Show(o) == <<(CHOOSE x \in There(o) : \A y \in There(o) : x.srcOrd <= y.srcOrd).perm, {x.src : x \in There(o)}>>
           shown == {Show(o) : o \in {x.permOrd : x \in rows}}
<1>1. sgPermissions(rows) = shown
  BY DEF sgPermissions
<1>2. rows \in SUBSET RuleRows
  BY DEF RulesOK
<1>3. \A x, y \in rows : x.perm = y.perm <=> x.permOrd = y.permOrd
  BY DEF RulesOK, Ordered, SameDirection
<1>4. \A r, x \in rows : x # r /\ x.perm = r.perm => x.src # r.src /\ x.srcOrd # r.srcOrd
  BY DEF RulesOK, Ordered, SameDirection
<1> HIDE DEF rows
<1>5. ASSUME NEW r \in rows PROVE Show(r.permOrd)[1] = r.perm
  <2>1. \A x, y \in rows : x.permOrd = y.permOrd => x.perm = y.perm
    BY <1>3
  <2>2. (CHOOSE x \in There(r.permOrd) : \A y \in There(r.permOrd) : x.srcOrd <= y.srcOrd).perm = r.perm
    BY <1>2, <2>1, PlaceIs
  <2> QED
    BY <2>2
<1>6. \A o : Show(o)[2] = {x.src : x \in There(o)}
  OBVIOUS
<1>7. \A o : Show(o) = <<Show(o)[1], Show(o)[2]>>
  OBVIOUS
<1> HIDE DEF Show
<1>8. \A p \in shown : \E r \in rows : p = Show(r.permOrd) /\ p[1] = r.perm
  BY <1>5
<1>9. {<<r.perm, r.src>> : r \in rows} = UNION {{p[1]} \X p[2] : p \in shown}
  <2>1. ASSUME NEW r \in rows PROVE <<r.perm, r.src>> \in UNION {{p[1]} \X p[2] : p \in shown}
    <3>1. Show(r.permOrd) \in shown /\ Show(r.permOrd)[1] = r.perm /\ r.src \in Show(r.permOrd)[2]
      BY <1>5, <1>6
    <3> QED
      BY <3>1
  <2>2. ASSUME NEW p \in shown, NEW w \in {p[1]} \X p[2] PROVE w \in {<<r.perm, r.src>> : r \in rows}
    <3>1. PICK r \in rows : p = Show(r.permOrd) /\ p[1] = r.perm
      BY <1>8
    <3>2. w = <<w[1], w[2]>> /\ w[1] = r.perm /\ w[2] \in p[2]
      BY <3>1
    <3>3. PICK x \in rows : x.permOrd = r.permOrd /\ w[2] = x.src
      BY <1>6, <3>1, <3>2
    <3>4. x.perm = r.perm
      BY <1>3, <3>3
    <3> QED
      BY <3>2, <3>3, <3>4
  <2> QED
    BY <2>1, <2>2
<1>10. \A p, q \in shown : p[1] = q[1] => p = q
  BY <1>3, <1>8
<1> QED
  BY <1>1, <1>4, <1>9, <1>10 DEF rows
-----------------------------------------------------------------------------
(* Addresses. *)

LEMMA FreeIPIs ==
    ASSUME NEW want \in 0 .. Net - 1, NEW held, Steps(want, held) # {}
    PROVE  FreeIP(want, held) \in (0 .. Net - 1) \ held
<1> DEFINE S == Steps(want, held)
           n == CHOOSE n \in S : \A m \in S : n <= m
<1>1. Net \in Nat \ {0}
  BY InterfacesAssumption
<1>2. S \in SUBSET Nat /\ S # {}
  BY <1>1 DEF Steps
<1>3. n \in S
  <2> HIDE DEF S
  <2> QED
    BY <1>2, Least
<1>4. (want + n) % Net \notin held /\ n \in Nat
  BY <1>2, <1>3 DEF Steps
<1>5. FreeIP(want, held) = (want + n) % Net
  BY DEF FreeIP
<1> HIDE DEF n
<1>6. (want + n) % Net \in 0 .. Net - 1
  <2>1. want + n \in Nat
    BY <1>1, <1>4
  <2> QED
    BY <1>1, <2>1
<1> QED
  BY <1>4, <1>5, <1>6

LEMMA ClaimedIs ==
    ASSUME NEW e \in Enis, MayClaim(e)
    PROVE  \E a \in (0 .. Net - 1) \ AutoHeld(e) : Claimed(e) = <<"auto", a>>
<1>1. Derive[e] \in 0 .. Net - 1
  BY InterfacesAssumption
<1> QED
  BY <1>1, FreeIPIs DEF MayClaim, Claimed
-----------------------------------------------------------------------------
(* The inductive invariant. *)

RowTypes ==
    /\ group \in [Groups -> Vpcs \cup {None}]
    /\ instance \in [Instances -> InstanceRows \cup {None}]
    /\ eni \in [Enis -> EniRows \cup {None}]
    /\ eip \in [Eips -> EipRows \cup {None}]
    /\ DOMAIN volume = Volumes
    /\ \A v \in Volumes : volume[v] # None => volume[v] \in SUBSET (Instances \X BOOLEAN)

RulesSound == RulesOK(rule) /\ \A r \in rule : group[r.group] # None

\* Of what is stored the id was drawn, and is not drawn again.
Drawn ==
    /\ \A g \in Groups : group[g] # None => g \in used
    /\ \A i \in Instances : instance[i] # None => i \in used
    /\ \A e \in Enis : eni[e] # None => e \in used
    /\ \A p \in Eips : eip[p] # None => p \in used

\* Groups that are, or were before they were deleted, of the VPC v.
OfVpc(v, gs) == \A g \in gs : g \in used /\ group[g] \in {v, None}

\* Data that may be an interface's: an instance's interface names it in its data, while
\* what an interface lost its instance may name it still.
DataFits(e, d) ==
    eni[e] # None =>
        /\ OfVpc(VpcOf[eni[e].subnet], d.groups)
        /\ eni[e].instance # None => d.instance = eni[e].instance

EnisSound ==
    /\ \A e \in Enis : eni[e] # None => DataFits(e, eni[e].data)
    /\ \A e, f \in StoredEnis : eni[e].subnet = eni[f].subnet /\ eni[e].private = eni[f].private => e = f

AddressesDiffer ==
    \A p, q \in Eips :
        eip[p] # None /\ eip[q] # None /\ p # q =>
            eip[p].ip # eip[q].ip /\ (eip[p].eni = None \/ eip[p].eni # eip[q].eni)

\* An address's row names the instance of its interface, while that has one.
AddressesStand ==
    \A p \in Eips : eip[p] # None /\ eip[p].eni # None =>
        LET e == eip[p].eni IN eni[e] # None /\ (eni[e].instance # None => eip[p].instance = eni[e].instance)

TerminatedHoldNothing ==
    \A i \in Instances : instance[i] # None /\ instance[i].state = "terminated" =>
        /\ ~instance[i].protected
        /\ \A e \in StoredEnis : eni[e].instance # i
        /\ \A v \in Volumes : volume[v] # None => \A a \in volume[v] : a[1] # i

\* InStepTheyAgree, of one interface and of two.
Agrees(e) ==
    /\ eni[e].data.instance = eni[e].instance
    /\ \A g \in eni[e].data.groups : g \in Groups /\ group[g] # None
    /\ \A p \in Eips : eip[p] # None /\ eip[p].eni = e =>
          eni[e].data.public = <<"eip", eip[p].ip>> /\ eip[p].instance = eni[e].instance
    /\ (\A p \in Eips : eip[p] # None => eip[p].eni # e) =>
          eni[e].data.public = None \/ eni[e].data.public[1] = "auto"

ShownOnce ==
    \A e, f \in Enis :
        eni[e] # None /\ eni[f] # None /\ eni[e].data.public # None /\ eni[e].data.public = eni[f].data.public =>
            e = f

Agreement == inStep => (\A e \in Enis : eni[e] # None => Agrees(e)) /\ ShownOnce

DbInv ==
    /\ RowTypes /\ RulesSound /\ Drawn /\ EnisSound /\ AddressesDiffer /\ AddressesStand
    /\ TerminatedHoldNothing /\ Agreement

EniOps   == {"ModifyNetworkInterfaceAttribute", "AssociateAddress", "DisassociateAddress"}
OnEni(c) == pc[c] # "idle" /\ req[c].op \in EniOps

ClientOK(c) ==
    /\ At(c, "write", "AuthorizeSecurityGroupRules") => req[c].group \in Groups /\ req[c].asked \in Asked
    /\ At(c, "write", "RunInstances") =>
          /\ req[c].subnet \in Subnets /\ req[c].groups \subseteq Groups /\ req[c].auto \in BOOLEAN
          /\ OfVpc(VpcOf[req[c].subnet], req[c].groups)
    /\ OnEni(c) => req[c].eni \in Enis /\ req[c].eni \in used
    /\ OnEni(c) /\ req[c].op # "ModifyNetworkInterfaceAttribute" => req[c].eip \in Eips
    /\ OnEni(c) /\ req[c].op = "ModifyNetworkInterfaceAttribute" =>
          /\ req[c].groups \subseteq Groups
          /\ eni[req[c].eni] # None => OfVpc(VpcOf[eni[req[c].eni].subnet], req[c].groups)
    /\ OnEni(c) /\ pc[c] = "write" => seen[c] \in Datas /\ DataFits(req[c].eni, seen[c])

ClientTypes ==
    /\ pc \in [Clients -> {"idle", "read", "write"}]
    /\ DOMAIN req = Clients /\ DOMAIN seen = Clients
    /\ inStep \in BOOLEAN

Inv == DbInv /\ ClientTypes /\ \A c \in Clients : ClientOK(c)
-----------------------------------------------------------------------------
(* What a step of one request leaves the others. *)

\* A drawn group stays its VPC's until it is gone, an interface its subnet's and its
\* instance's until it is gone or loses it, and neither comes back.
Persists ==
    /\ used \subseteq used'
    /\ \A g \in Groups : g \in used => group'[g] \in {group[g], None}
    /\ \A e \in Enis : e \in used /\ eni'[e] # None =>
          eni[e] # None /\ eni'[e].subnet = eni[e].subnet /\ eni'[e].instance \in {eni[e].instance, None}

Leaves(c) == \A d \in Clients \ {c} : pc'[d] = pc[d] /\ req'[d] = req[d] /\ seen'[d] = seen[d]

LEMMA OfVpcStays ==
    ASSUME Persists, NEW v, NEW gs \in SUBSET Groups, OfVpc(v, gs)
    PROVE  \A g \in gs : g \in used' /\ group'[g] \in {v, None}
BY DEF Persists, OfVpc

LEMMA DataFitsStays ==
    ASSUME Persists, NEW e \in Enis, e \in used, NEW d \in Datas, DataFits(e, d), eni'[e] # None
    PROVE  /\ \A g \in d.groups : g \in used' /\ group'[g] \in {VpcOf[eni'[e].subnet], None}
           /\ eni'[e].instance # None => d.instance = eni'[e].instance
<1>1. eni[e] # None /\ eni'[e].subnet = eni[e].subnet /\ eni'[e].instance \in {eni[e].instance, None}
  BY DEF Persists
<1>2. d.groups \in SUBSET Groups
  BY DEF Datas
<1>3. OfVpc(VpcOf[eni[e].subnet], d.groups)
  BY <1>1 DEF DataFits
<1> QED
  BY <1>1, <1>2, <1>3, OfVpcStays DEF DataFits

LEMMA ClientStays ==
    ASSUME Inv, Persists, NEW d \in Clients, pc'[d] = pc[d], req'[d] = req[d], seen'[d] = seen[d]
    PROVE  ClientOK(d)'
<1>1. ClientOK(d)
  BY DEF Inv
<1>2. At(d, "write", "AuthorizeSecurityGroupRules")' => req[d].group \in Groups /\ req[d].asked \in Asked
  BY <1>1 DEF ClientOK, At
<1>3. At(d, "write", "RunInstances")' =>
          /\ req[d].subnet \in Subnets /\ req[d].groups \subseteq Groups /\ req[d].auto \in BOOLEAN
          /\ \A g \in req[d].groups : g \in used' /\ group'[g] \in {VpcOf[req[d].subnet], None}
  BY <1>1, OfVpcStays DEF ClientOK, At
<1>4. OnEni(d)' <=> OnEni(d)
  BY DEF OnEni
<1>5. OnEni(d) => req[d].eni \in Enis /\ req[d].eni \in used /\ req[d].eni \in used'
  BY <1>1 DEF ClientOK, Persists
<1>6. OnEni(d) /\ req[d].op = "ModifyNetworkInterfaceAttribute" =>
          /\ req[d].groups \subseteq Groups
          /\ eni'[req[d].eni] # None =>
                \A g \in req[d].groups : g \in used' /\ group'[g] \in {VpcOf[eni'[req[d].eni].subnet], None}
  <2> SUFFICES ASSUME OnEni(d), req[d].op = "ModifyNetworkInterfaceAttribute"
               PROVE  /\ req[d].groups \subseteq Groups
                      /\ eni'[req[d].eni] # None =>
                            \A g \in req[d].groups : g \in used' /\ group'[g] \in {VpcOf[eni'[req[d].eni].subnet], None}
    OBVIOUS
  <2>1. /\ req[d].groups \subseteq Groups
        /\ eni[req[d].eni] # None => OfVpc(VpcOf[eni[req[d].eni].subnet], req[d].groups)
    BY <1>1 DEF ClientOK
  <2>2. eni'[req[d].eni] # None => eni[req[d].eni] # None /\ eni'[req[d].eni].subnet = eni[req[d].eni].subnet
    BY <1>5 DEF Persists
  <2> QED
    BY <2>1, <2>2, OfVpcStays
<1>7. OnEni(d) /\ pc[d] = "write" =>
          /\ seen[d] \in Datas
          /\ eni'[req[d].eni] # None =>
                /\ \A g \in seen[d].groups : g \in used' /\ group'[g] \in {VpcOf[eni'[req[d].eni].subnet], None}
                /\ eni'[req[d].eni].instance # None => seen[d].instance = eni'[req[d].eni].instance
  BY <1>1, <1>5, DataFitsStays DEF ClientOK
<1>8. OnEni(d) /\ req[d].op # "ModifyNetworkInterfaceAttribute" => req[d].eip \in Eips
  BY <1>1 DEF ClientOK
<1> QED
  BY <1>2, <1>3, <1>4, <1>5, <1>6, <1>7, <1>8 DEF ClientOK, OfVpc, DataFits

LEMMA WholeIsGood ==
    ASSUME Inv, UNCHANGED <<pc, req, seen, inStep>>, DbInv', Persists
    PROVE  Inv'
<1>1. ClientTypes'
  BY DEF Inv, ClientTypes
<1> QED
  BY <1>1, ClientStays DEF Inv

LEMMA EndIsGood ==
    ASSUME Inv, NEW c \in Clients, End(c), inStep' \in BOOLEAN, DbInv', Persists
    PROVE  Inv'
<1>1. /\ pc' = [pc EXCEPT ![c] = "idle"] /\ req' = [req EXCEPT ![c] = None] /\ seen' = [seen EXCEPT ![c] = None]
  BY DEF End
<1>2. ClientTypes' /\ pc'[c] = "idle" /\ Leaves(c)
  BY <1>1 DEF Inv, ClientTypes, Leaves
<1>3. ClientOK(c)'
  BY <1>2 DEF ClientOK, At, OnEni
<1> QED
  BY <1>2, <1>3, ClientStays DEF Inv, Leaves

LEMMA DbStays ==
    ASSUME Inv, UNCHANGED <<db, inStep>>
    PROVE  DbInv' /\ Persists
<1>1. UNCHANGED <<group, rule, instance, eni, eip, volume, used, inStep>>
  BY DEF db
<1>2. Persists
  BY <1>1 DEF Persists
<1>3. RowTypes' /\ RulesSound' /\ Drawn'
  BY <1>1 DEF Inv, DbInv, RowTypes, RulesSound, Drawn
<1>4. EnisSound'
  BY <1>1 DEF Inv, DbInv, EnisSound, DataFits, OfVpc, StoredEnis
<1>5. AddressesDiffer' /\ AddressesStand' /\ TerminatedHoldNothing'
  BY <1>1 DEF Inv, DbInv, AddressesDiffer, AddressesStand, TerminatedHoldNothing, StoredEnis
<1>6. Agreement'
  BY <1>1 DEF Inv, DbInv, Agreement, Agrees, ShownOnce
<1> QED
  BY <1>2, <1>3, <1>4, <1>5, <1>6 DEF DbInv

LEMMA RefusedIsGood ==
    ASSUME Inv, NEW c \in Clients, Refused(c)
    PROVE  Inv'
<1>1. End(c) /\ UNCHANGED <<db, inStep>>
  BY DEF Refused
<1>2. inStep' \in BOOLEAN
  BY <1>1 DEF Inv, ClientTypes
<1> QED
  BY <1>1, <1>2, DbStays, EndIsGood

LEMMA ArriveIsGood ==
    ASSUME Inv, NEW c \in Clients, NEW r, NEW place \in {"read", "write"}, NEW reads, Arrive(c, r, place, reads),
           pc'[c] = place /\ req'[c] = r /\ seen'[c] = reads => ClientOK(c)'
    PROVE  Inv'
<1>1. /\ pc' = [pc EXCEPT ![c] = place] /\ req' = [req EXCEPT ![c] = r] /\ seen' = [seen EXCEPT ![c] = reads]
      /\ UNCHANGED <<db, inStep>>
  BY DEF Arrive
<1>2. ClientTypes' /\ pc'[c] = place /\ req'[c] = r /\ seen'[c] = reads /\ Leaves(c)
  BY <1>1 DEF Inv, ClientTypes, Leaves
<1>3. ClientOK(c)'
  BY <1>2
<1> QED
  BY <1>1, <1>2, <1>3, DbStays, ClientStays DEF Inv, Leaves
-----------------------------------------------------------------------------
(* The steps of security groups. *)

\* A step that changes groups and rules only: none goes that an interface holds.
LEMMA GroupStep ==
    ASSUME Inv, UNCHANGED <<instance, eni, eip, volume>>, used \subseteq used',
           group' \in [Groups -> Vpcs \cup {None}],
           \A g \in Groups : group'[g] # None => g \in used',
           \A g \in Groups : g \in used => group'[g] \in {group[g], None},
           \A e \in Enis : eni[e] # None =>
               \A g \in eni[e].data.groups : g \in Groups /\ group[g] # None => group'[g] # None,
           inStep' => inStep, RulesSound'
    PROVE  DbInv' /\ Persists
<1>1. Persists
  BY DEF Persists, Inv, DbInv, Drawn
<1>2. RowTypes' /\ Drawn'
  BY DEF Inv, DbInv, RowTypes, Drawn
<1>3. AddressesDiffer' /\ AddressesStand' /\ TerminatedHoldNothing'
  BY DEF Inv, DbInv, AddressesDiffer, AddressesStand, TerminatedHoldNothing, StoredEnis
<1>4. EnisSound'
  <2>1. ASSUME NEW e \in Enis, eni[e] # None
        PROVE  /\ \A g \in eni[e].data.groups : g \in used' /\ group'[g] \in {VpcOf[eni[e].subnet], None}
               /\ eni[e].instance # None => eni[e].data.instance = eni[e].instance
    <3>1. eni[e].data \in Datas /\ DataFits(e, eni[e].data) /\ e \in used
      BY <2>1 DEF Inv, DbInv, RowTypes, EnisSound, EniRows, Drawn
    <3> QED
      BY <1>1, <2>1, <3>1, DataFitsStays
  <2>2. \A e, f \in Enis : eni[e] # None /\ eni[f] # None /\ eni[e].subnet = eni[f].subnet
                                /\ eni[e].private = eni[f].private => e = f
    BY DEF Inv, DbInv, EnisSound, StoredEnis
  <2> QED
    BY <2>1, <2>2 DEF EnisSound, DataFits, OfVpc, StoredEnis
<1>5. Agreement'
  <2> SUFFICES ASSUME inStep' PROVE ((\A e \in Enis : eni[e] # None => Agrees(e)) /\ ShownOnce)'
    BY DEF Agreement
  <2>1. (\A e \in Enis : eni[e] # None => Agrees(e)) /\ ShownOnce
    BY DEF Inv, DbInv, Agreement
  <2>2. ShownOnce'
    BY <2>1 DEF ShownOnce
  <2>3. ASSUME NEW e \in Enis, eni[e] # None PROVE Agrees(e)'
    <3>1. Agrees(e)
      BY <2>1, <2>3
    <3>2. \A g \in eni[e].data.groups : g \in Groups /\ group'[g] # None
      BY <2>3, <3>1 DEF Agrees
    <3> QED
      BY <3>1, <3>2 DEF Agrees
  <2> QED
    BY <2>2, <2>3
<1> QED
  BY <1>1, <1>2, <1>3, <1>4, <1>5 DEF DbInv

LEMMA CreateSecurityGroupInv ==
    ASSUME Inv, NEW c \in Clients, CreateSecurityGroup(c)
    PROVE  Inv'
<1>1. PICK g \in Groups, v \in Vpcs :
          /\ UNCHANGED <<pc, req, seen, inStep>>
          /\ g \notin used /\ used' = used \cup {g}
          /\ group' = [group EXCEPT ![g] = v]
          /\ UNCHANGED <<rule, instance, eni, eip, volume>>
  BY DEF CreateSecurityGroup, Whole, Draw
<1>2. /\ group \in [Groups -> Vpcs \cup {None}] /\ \A h \in Groups : group[h] # None => h \in used
      /\ RulesOK(rule) /\ \A r \in rule : group[r.group] # None /\ r.group \in Groups
      /\ None \notin Vpcs
  BY InterfacesAssumption DEF Inv, DbInv, RowTypes, RulesSound, Drawn, RulesOK, RuleRows
<1>3. RulesSound'
  BY <1>1, <1>2 DEF RulesSound, RulesOK
<1>4. DbInv' /\ Persists
  <2>1. group' \in [Groups -> Vpcs \cup {None}]
    BY <1>1, <1>2
  <2>2. \A h \in Groups : group'[h] # None => h \in used'
    BY <1>1, <1>2
  <2>3. \A h \in Groups : h \in used => group'[h] = group[h]
    BY <1>1, <1>2
  <2>4. \A h \in Groups : group[h] # None => group'[h] # None
    BY <1>2, <2>3
  <2> QED
    BY <1>1, <1>3, <2>1, <2>2, <2>3, <2>4, GroupStep
<1> QED
  BY <1>1, <1>4, WholeIsGood

LEMMA DeleteSecurityGroupInv ==
    ASSUME Inv, NEW c \in Clients, DeleteSecurityGroup(c)
    PROVE  Inv'
<1>1. PICK g \in StoredGroups :
          /\ UNCHANGED <<pc, req, seen, inStep>>
          /\ ~Held(g)
          /\ group' = [group EXCEPT ![g] = None]
          /\ rule' = {r \in rule : r.group # g}
          /\ UNCHANGED <<instance, eni, eip, volume, used>>
  BY DEF DeleteSecurityGroup, Whole
<1>2. /\ group \in [Groups -> Vpcs \cup {None}] /\ \A h \in Groups : group[h] # None => h \in used
      /\ RulesOK(rule) /\ \A r \in rule : group[r.group] # None /\ r.group \in Groups
  BY DEF Inv, DbInv, RowTypes, RulesSound, Drawn, RulesOK, RuleRows
<1>3. RulesSound'
  <2>1. RulesOK(rule')
    BY <1>1, <1>2, FewerAreOK
  <2>2. \A r \in rule' : group'[r.group] # None
    BY <1>1, <1>2
  <2> QED
    BY <2>1, <2>2 DEF RulesSound, RulesOK
<1>4. DbInv' /\ Persists
  <2>1. group' \in [Groups -> Vpcs \cup {None}]
    BY <1>1, <1>2
  <2>2. \A h \in Groups : group'[h] \in {group[h], None}
    BY <1>1, <1>2
  <2>3. \A e \in Enis : eni[e] # None => \A h \in eni[e].data.groups : h \in Groups => group'[h] = group[h]
    BY <1>1, <1>2 DEF Held, StoredEnis
  <2>4. \A h \in Groups : group'[h] # None => h \in used'
    BY <1>1, <1>2, <2>2
  <2> QED
    BY <1>1, <1>3, <2>1, <2>2, <2>3, <2>4, GroupStep
<1> QED
  BY <1>1, <1>4, WholeIsGood

LEMMA RulesStep ==
    ASSUME Inv, UNCHANGED <<group, instance, eni, eip, volume>>, used \subseteq used', RulesSound', inStep' => inStep
    PROVE  DbInv' /\ Persists
<1>1. group \in [Groups -> Vpcs \cup {None}] /\ \A g \in Groups : group[g] # None => g \in used
  BY DEF Inv, DbInv, RowTypes, Drawn
<1> QED
  BY <1>1, GroupStep

LEMMA AuthorizeSecurityGroupRulesInv ==
    ASSUME Inv, NEW c \in Clients, AuthorizeSecurityGroupRules(c)
    PROVE  Inv'
<1>1. PICK g \in Groups, asked \in Asked :
          Arrive(c, [op |-> "AuthorizeSecurityGroupRules", group |-> g, asked |-> asked], "write", None)
  BY DEF AuthorizeSecurityGroupRules
<1> DEFINE r == [op |-> "AuthorizeSecurityGroupRules", group |-> g, asked |-> asked]
<1>2. r.op = "AuthorizeSecurityGroupRules" /\ r.group = g /\ r.asked = asked
  OBVIOUS
<1> HIDE DEF r
<1>3. ASSUME pc'[c] = "write", req'[c] = r, seen'[c] = None PROVE ClientOK(c)'
  BY <1>2, <1>3 DEF ClientOK, At, OnEni, EniOps
<1>4. Arrive(c, r, "write", None)
  BY <1>1 DEF r
<1> QED
  BY <1>3, <1>4, ArriveIsGood

LEMMA InsertRulesInv ==
    ASSUME Inv, NEW c \in Clients, InsertRules(c)
    PROVE  Inv'
<1> DEFINE g == req[c].group
           asked == req[c].asked
<1>1. At(c, "write", "AuthorizeSecurityGroupRules") /\ g \in Groups /\ asked \in Asked
  BY DEF InsertRules, Inv, ClientOK
<1>2. CASE Refused(c)
  BY <1>2, RefusedIsGood
<1>3. ASSUME group[g] # None, NEW ids \in [DOMAIN asked -> Rules \ used],
             used' = used \cup {ids[k] : k \in DOMAIN asked},
             rule' = AddAll(rule, [k \in DOMAIN asked |->
                         [id |-> ids[k], group |-> g, perm |-> asked[k][1], src |-> asked[k][2],
                          permOrd |-> 0, srcOrd |-> 0]]),
             Writes(c, TRUE), UNCHANGED <<group, instance, eni, eip, volume>>
      PROVE  Inv'
  <2> DEFINE new == [k \in DOMAIN asked |->
                       [id |-> ids[k], group |-> g, perm |-> asked[k][1], src |-> asked[k][2],
                        permOrd |-> 0, srcOrd |-> 0]]
  <2>1. PICK n \in Nat : asked \in [1 .. n -> Perms \X Sources]
    <3>1. PICK n \in 1 .. MaxAsked : asked \in [1 .. n -> Perms \X Sources]
      BY <1>1 DEF Asked
    <3>2. n \in Nat
      BY InterfacesAssumption
    <3> HIDE DEF asked
    <3> QED
      BY <3>1, <3>2
  <2>2. new \in Seq({r \in RuleRows : r.group = g})
    <3>1. DOMAIN asked = 1 .. n
      BY <2>1
    <3>2. ASSUME NEW k \in 1 .. n
          PROVE  [id |-> ids[k], group |-> g, perm |-> asked[k][1], src |-> asked[k][2], permOrd |-> 0, srcOrd |-> 0]
                    \in {r \in RuleRows : r.group = g}
      <4>1. asked[k] \in Perms \X Sources /\ ids[k] \in Rules
        BY <1>3, <2>1, <3>1
      <4> HIDE DEF g, asked
      <4> QED
        BY <1>1, <4>1 DEF RuleRows
    <3>3. new \in [1 .. n -> {r \in RuleRows : r.group = g}]
      BY <3>1, <3>2
    <3> HIDE DEF new
    <3> QED
      BY <2>1, <3>3
  <2> HIDE DEF new
  <2>3. RulesOK(rule) /\ \A r \in rule : group[r.group] # None
    BY DEF Inv, DbInv, RulesSound
  <2>4. rule' = AddAll(rule, new)
    BY <1>3 DEF new
  <2>5. RulesOK(rule') /\ \A r \in rule' : r \in rule \/ r.group = g
    <3> HIDE DEF g
    <3> QED
      BY <2>2, <2>3, <2>4, AddAllIsOK
  <2>6. RulesSound'
    BY <1>3, <2>3, <2>5 DEF RulesSound, RulesOK
  <2>7. End(c) /\ inStep' = inStep
    BY <1>3 DEF Writes, Inv, ClientTypes
  <2>8. used \subseteq used'
    BY <1>3
  <2>9. DbInv' /\ Persists
    BY <1>3, <2>6, <2>7, <2>8, RulesStep
  <2>10. inStep' \in BOOLEAN
    BY <2>7 DEF Inv, ClientTypes
  <2> QED
    BY <2>7, <2>9, <2>10, EndIsGood
<1> QED
  BY <1>2, <1>3 DEF InsertRules

LEMMA RevokeSecurityGroupRulesInv ==
    ASSUME Inv, NEW c \in Clients, RevokeSecurityGroupRules(c)
    PROVE  Inv'
<1>1. /\ UNCHANGED <<pc, req, seen, inStep>> /\ UNCHANGED <<group, instance, eni, eip, volume, used>>
      /\ rule' \in SUBSET rule
  BY DEF RevokeSecurityGroupRules, Whole
<1>2. RulesOK(rule) /\ \A r \in rule : group[r.group] # None
  BY DEF Inv, DbInv, RulesSound
<1>3. RulesOK(rule')
  BY <1>1, <1>2, FewerAreOK
<1>4. RulesSound'
  BY <1>1, <1>2, <1>3 DEF RulesSound, RulesOK
<1>5. DbInv' /\ Persists
  BY <1>1, <1>4, RulesStep
<1> QED
  BY <1>1, <1>5, WholeIsGood
-----------------------------------------------------------------------------
(* The steps of Elastic IPs. *)

\* A step on one address that is free, and is free after it.
LEMMA AddressStep ==
    ASSUME Inv, UNCHANGED <<group, rule, instance, eni, volume, inStep>>, used \subseteq used',
           NEW p \in Eips, NEW row \in EipRows \cup {None}, eip' = [eip EXCEPT ![p] = row],
           eip[p] # None => eip[p].eni = None,
           row # None => row.eni = None /\ p \in used' /\ \A q \in Eips \ {p} : eip[q] # None => eip[q].ip # row.ip
    PROVE  DbInv' /\ Persists
<1>1. Persists
  BY DEF Persists
<1>2. /\ eip \in [Eips -> EipRows \cup {None}] /\ None \notin Enis
      /\ \A q \in Eips : eip'[q] = IF q = p THEN row ELSE eip[q]
  BY InterfacesAssumption DEF Inv, DbInv, RowTypes
<1>3. RowTypes' /\ Drawn'
  BY <1>2 DEF Inv, DbInv, RowTypes, Drawn
<1>4. RulesSound'
  BY DEF Inv, DbInv, RulesSound
<1>5. AddressesDiffer'
  BY <1>2 DEF Inv, DbInv, AddressesDiffer
<1>6. AddressesStand'
  BY <1>2 DEF Inv, DbInv, AddressesStand
<1>7. TerminatedHoldNothing'
  BY DEF Inv, DbInv, TerminatedHoldNothing, StoredEnis
<1>8. EnisSound'
  BY DEF Inv, DbInv, EnisSound, DataFits, OfVpc, StoredEnis
<1>9. Agreement'
  <2> SUFFICES ASSUME inStep' PROVE ((\A e \in Enis : eni[e] # None => Agrees(e)) /\ ShownOnce)'
    BY DEF Agreement
  <2>1. (\A e \in Enis : eni[e] # None => Agrees(e)) /\ ShownOnce
    BY DEF Inv, DbInv, Agreement
  <2>2. ShownOnce'
    BY <2>1 DEF ShownOnce
  <2>3. ASSUME NEW e \in Enis, eni[e] # None PROVE Agrees(e)'
    <3>1. \A q \in Eips : eip[q] # None /\ eip[q].eni = e <=> eip'[q] # None /\ eip'[q].eni = e
      BY <1>2
    <3>2. \A q \in Eips : eip'[q] # None /\ eip'[q].eni = e => eip'[q] = eip[q]
      BY <1>2
    <3> QED
      BY <2>1, <2>3, <3>1, <3>2 DEF Agrees
  <2> QED
    BY <2>2, <2>3
<1> QED
  BY <1>1, <1>3, <1>4, <1>5, <1>6, <1>7, <1>8, <1>9 DEF DbInv

LEMMA AllocateAddressInv ==
    ASSUME Inv, NEW c \in Clients, AllocateAddress(c)
    PROVE  Inv'
<1> DEFINE addresses == {eip[q].ip : q \in {q \in Eips : eip[q] # None}}
<1>1. PICK p \in Eips :
          /\ UNCHANGED <<pc, req, seen, inStep>>
          /\ Steps(Derive[p], addresses) # {}
          /\ p \notin used /\ used' = used \cup {p}
          /\ eip' = [eip EXCEPT ![p] = [ip |-> FreeIP(Derive[p], addresses), eni |-> None, instance |-> None]]
          /\ UNCHANGED <<group, rule, instance, eni, volume>>
  BY DEF AllocateAddress, Whole, Draw
<1>2. \A q \in Eips : eip[q] # None => eip[q].ip \in addresses
  OBVIOUS
<1> HIDE DEF addresses
<1> DEFINE a == FreeIP(Derive[p], addresses)
           row == [ip |-> a, eni |-> None, instance |-> None]
<1>3. a \in (0 .. Net - 1) \ addresses
  BY <1>1, InterfacesAssumption, FreeIPIs
<1> HIDE DEF a
<1>4. row \in EipRows /\ row.eni = None /\ row.ip = a
  BY <1>3 DEF EipRows
<1>5. eip' = [eip EXCEPT ![p] = row]
  BY <1>1 DEF a
<1> HIDE DEF row
<1>6. p \in used' /\ used \subseteq used' /\ eip[p] = None
  BY <1>1 DEF Inv, DbInv, Drawn
<1>7. \A q \in Eips \ {p} : eip[q] # None => eip[q].ip # row.ip
  BY <1>2, <1>3, <1>4
<1>8. DbInv' /\ Persists
  BY <1>1, <1>4, <1>5, <1>6, <1>7, AddressStep
<1> QED
  BY <1>1, <1>8, WholeIsGood

LEMMA ReleaseAddressInv ==
    ASSUME Inv, NEW c \in Clients, ReleaseAddress(c)
    PROVE  Inv'
<1>1. PICK p \in Eips :
          /\ UNCHANGED <<pc, req, seen, inStep>>
          /\ eip[p].eni = None
          /\ eip' = [eip EXCEPT ![p] = None]
          /\ UNCHANGED <<group, rule, instance, eni, volume, used>>
  BY DEF ReleaseAddress, Whole
<1>2. DbInv' /\ Persists
  BY <1>1, AddressStep
<1> QED
  BY <1>1, <1>2, WholeIsGood

\* A request on an interface that has looked up what it is about.
LEMMA EniArrives ==
    ASSUME Inv, NEW c \in Clients, NEW r, NEW place \in {"read", "write"}, NEW reads, Arrive(c, r, place, reads),
           r.op \in EniOps, r.eni \in Enis, r.eni \in used,
           r.op # "ModifyNetworkInterfaceAttribute" => r.eip \in Eips,
           r.op = "ModifyNetworkInterfaceAttribute" =>
               r.groups \subseteq Groups /\ (eni[r.eni] # None => OfVpc(VpcOf[eni[r.eni].subnet], r.groups)),
           place = "write" => reads \in Datas /\ DataFits(r.eni, reads)
    PROVE  Inv'
<1>1. UNCHANGED <<group, eni, used>>
  BY DEF Arrive, db
<1>2. ASSUME pc'[c] = place, req'[c] = r, seen'[c] = reads PROVE ClientOK(c)'
  <2>1. r.op # "AuthorizeSecurityGroupRules" /\ r.op # "RunInstances"
    BY DEF EniOps
  <2> QED
    BY <1>1, <1>2, <2>1 DEF ClientOK, At, OnEni, OfVpc, DataFits
<1> QED
  BY <1>2, ArriveIsGood

LEMMA AssociateAddressInv ==
    ASSUME Inv, NEW c \in Clients, AssociateAddress(c)
    PROVE  Inv'
<1>1. PICK p \in Eips, e \in StoredEnis :
          Arrive(c, [op |-> "AssociateAddress", eip |-> p, eni |-> e], "write", eni[e].data)
  BY DEF AssociateAddress
<1> DEFINE r == [op |-> "AssociateAddress", eip |-> p, eni |-> e]
<1>2. r.op = "AssociateAddress" /\ r.eip = p /\ r.eni = e
  OBVIOUS
<1>3. Arrive(c, r, "write", eni[e].data)
  BY <1>1
<1>4. e \in Enis /\ e \in used /\ eni[e].data \in Datas /\ DataFits(e, eni[e].data)
  BY DEF StoredEnis, Inv, DbInv, Drawn, RowTypes, EniRows, EnisSound
<1> HIDE DEF r
<1> QED
  BY <1>2, <1>3, <1>4, EniArrives DEF EniOps

LEMMA DisassociateAddressInv ==
    ASSUME Inv, NEW c \in Clients, DisassociateAddress(c)
    PROVE  Inv'
<1>1. PICK p \in Eips :
          /\ eip[p] # None /\ eip[p].eni # None
          /\ Arrive(c, [op |-> "DisassociateAddress", eip |-> p, eni |-> eip[p].eni], "read", None)
  BY DEF DisassociateAddress
<1> DEFINE r == [op |-> "DisassociateAddress", eip |-> p, eni |-> eip[p].eni]
<1>2. r.op = "DisassociateAddress" /\ r.eip = p /\ r.eni = eip[p].eni
  OBVIOUS
<1>3. Arrive(c, r, "read", None)
  BY <1>1
<1>4. eip[p].eni \in Enis /\ eip[p].eni \in used
  BY <1>1 DEF Inv, DbInv, Drawn, RowTypes, EipRows, AddressesStand
<1> HIDE DEF r
<1> QED
  BY <1>2, <1>3, <1>4, EniArrives DEF EniOps

LEMMA ModifyNetworkInterfaceAttributeInv ==
    ASSUME Inv, NEW c \in Clients, ModifyNetworkInterfaceAttribute(c)
    PROVE  Inv'
<1>1. PICK e \in StoredEnis, gs \in GroupLists \cup {{}} :
          /\ \A g \in gs : group[g] = VpcOf[eni[e].subnet]
          /\ Arrive(c, [op |-> "ModifyNetworkInterfaceAttribute", eni |-> e, groups |-> gs], "read", None)
  BY DEF ModifyNetworkInterfaceAttribute
<1> DEFINE r == [op |-> "ModifyNetworkInterfaceAttribute", eni |-> e, groups |-> gs]
<1>2. r.op = "ModifyNetworkInterfaceAttribute" /\ r.eni = e /\ r.groups = gs
  OBVIOUS
<1>3. Arrive(c, r, "read", None)
  BY <1>1
<1>4. e \in Enis /\ e \in used /\ gs \subseteq Groups /\ eni[e] \in EniRows
  BY InterfacesAssumption DEF StoredEnis, Inv, DbInv, Drawn, RowTypes
<1>5. OfVpc(VpcOf[eni[e].subnet], gs)
  <2>1. VpcOf[eni[e].subnet] # None
    BY <1>4, InterfacesAssumption DEF EniRows
  <2> QED
    BY <1>1, <1>4, <2>1 DEF OfVpc, Inv, DbInv, Drawn
<1> HIDE DEF r
<1> QED
  BY <1>2, <1>3, <1>4, <1>5, EniArrives DEF EniOps

LEMMA RunInstancesInv ==
    ASSUME Inv, NEW c \in Clients, RunInstances(c)
    PROVE  Inv'
<1>1. PICK s \in Subnets, gs \in GroupLists, auto \in BOOLEAN, want \in Wanted \cup {None} :
          /\ \A g \in gs : group[g] = VpcOf[s]
          /\ Arrive(c, [op |-> "RunInstances", subnet |-> s, groups |-> gs, auto |-> auto, private |-> want],
                    "write", None)
  BY DEF RunInstances
<1> DEFINE r == [op |-> "RunInstances", subnet |-> s, groups |-> gs, auto |-> auto, private |-> want]
<1>2. r.op = "RunInstances" /\ r.subnet = s /\ r.groups = gs /\ r.auto = auto
  OBVIOUS
<1>3. Arrive(c, r, "write", None) /\ UNCHANGED <<group, used>>
  BY <1>1 DEF Arrive, db
<1>4. gs \subseteq Groups /\ VpcOf[s] # None
  BY InterfacesAssumption
<1>5. \A g \in gs : g \in used /\ group[g] \in {VpcOf[s], None}
  BY <1>1, <1>4 DEF Inv, DbInv, Drawn
<1> HIDE DEF r
<1>6. ASSUME pc'[c] = "write", req'[c] = r, seen'[c] = None PROVE ClientOK(c)'
  <2>1. r.op # "AuthorizeSecurityGroupRules" /\ r.op \notin EniOps
    BY <1>2 DEF EniOps
  <2> QED
    BY <1>2, <1>3, <1>4, <1>5, <1>6, <2>1 DEF ClientOK, At, OnEni, OfVpc
<1> QED
  BY <1>3, <1>6, ArriveIsGood

\* A request that reads its interface, which is still there.
LEMMA ReadIsGood ==
    ASSUME Inv, NEW c \in Clients, pc[c] = "read", req[c].op \in EniOps, eni[req[c].eni] # None,
           pc' = [pc EXCEPT ![c] = "write"], seen' = [seen EXCEPT ![c] = eni[req[c].eni].data],
           UNCHANGED <<db, req, inStep>>
    PROVE  Inv'
<1> DEFINE e == req[c].eni
<1>1. UNCHANGED <<group, eni, used>>
  BY DEF db
<1>2. /\ e \in Enis /\ e \in used
      /\ req[c].op # "ModifyNetworkInterfaceAttribute" => req[c].eip \in Eips
      /\ req[c].op = "ModifyNetworkInterfaceAttribute" =>
            /\ req[c].groups \subseteq Groups
            /\ eni[e] # None => OfVpc(VpcOf[eni[e].subnet], req[c].groups)
  BY DEF Inv, ClientOK, OnEni
<1>3. eni[e].data \in Datas /\ DataFits(e, eni[e].data)
  BY <1>2 DEF Inv, DbInv, RowTypes, EniRows, EnisSound
<1>4. ClientTypes' /\ pc'[c] = "write" /\ seen'[c] = eni[e].data /\ Leaves(c)
  BY DEF Inv, ClientTypes, Leaves
<1>5. ClientOK(c)'
  <2>1. req[c].op # "AuthorizeSecurityGroupRules" /\ req[c].op # "RunInstances"
    BY DEF EniOps
  <2> QED
    BY <1>1, <1>2, <1>3, <1>4, <2>1 DEF ClientOK, At, OnEni, OfVpc, DataFits
<1> QED
  BY <1>4, <1>5, DbStays, ClientStays DEF Inv, Leaves

LEMMA ReadInterfaceInv ==
    ASSUME Inv, NEW c \in Clients, ReadInterface(c)
    PROVE  Inv'
BY RefusedIsGood, ReadIsGood DEF ReadInterface, At, EniOps

LEMMA ReadAssociatedInv ==
    ASSUME Inv, NEW c \in Clients, ReadAssociated(c)
    PROVE  Inv'
BY RefusedIsGood, ReadIsGood DEF ReadAssociated, At, EniOps
-----------------------------------------------------------------------------
(* The writes of an interface as it was read, with a change. *)

\* What such a write does, for whatever data fits the interface.
LEMMA DataStep ==
    ASSUME Inv, UNCHANGED <<group, rule, instance, volume, used>>,
           NEW e \in Enis, eni[e] # None, NEW d \in Datas, DataFits(e, d), eni' = [eni EXCEPT ![e].data = d],
           eip' \in [Eips -> EipRows \cup {None}], \A p \in Eips : eip'[p] # None <=> eip[p] # None
    PROVE  /\ \A f \in Enis : (eni'[f] # None <=> eni[f] # None) /\ (f # e => eni'[f] = eni[f])
           /\ eni'[e] # None /\ eni'[e].data = d /\ eni'[e].instance = eni[e].instance /\ eni'[e].subnet = eni[e].subnet
           /\ Persists /\ RowTypes' /\ RulesSound' /\ Drawn' /\ EnisSound' /\ TerminatedHoldNothing'
<1>1. eni \in [Enis -> EniRows \cup {None}] /\ eni[e] \in EniRows /\ None \notin EniRows
  BY InterfacesAssumption DEF Inv, DbInv, RowTypes
<1> DEFINE row == [eni[e] EXCEPT !.data = d]
<1>2. /\ row \in EniRows /\ row.data = d /\ row.instance = eni[e].instance /\ row.subnet = eni[e].subnet
      /\ row.private = eni[e].private
  BY <1>1 DEF EniRows
<1>3. eni' = [eni EXCEPT ![e] = row]
  BY <1>1
<1> HIDE DEF row
<1>4. row # None
  BY <1>1, <1>2
<1>5. \A f \in Enis : eni'[f] = IF f = e THEN row ELSE eni[f]
  BY <1>1, <1>3
<1>6. Persists
  BY <1>2, <1>5 DEF Persists
<1>7. RowTypes' /\ RulesSound' /\ Drawn'
  <2>1. eni' \in [Enis -> EniRows \cup {None}]
    BY <1>1, <1>2, <1>3
  <2> QED
    BY <1>5, <2>1 DEF Inv, DbInv, RowTypes, RulesSound, Drawn
<1>8. TerminatedHoldNothing'
  BY <1>2, <1>5 DEF Inv, DbInv, TerminatedHoldNothing, StoredEnis
<1>9. EnisSound'
  <2>1. ASSUME NEW f \in Enis, eni'[f] # None
        PROVE  /\ \A g \in eni'[f].data.groups : g \in used /\ group[g] \in {VpcOf[eni'[f].subnet], None}
               /\ eni'[f].instance # None => eni'[f].data.instance = eni'[f].instance
    <3>1. CASE f = e
      BY <1>2, <1>5, <3>1 DEF DataFits, OfVpc
    <3>2. CASE f # e
      BY <1>5, <2>1, <3>2 DEF Inv, DbInv, EnisSound, DataFits, OfVpc
    <3> QED
      BY <3>1, <3>2
  <2>2. ASSUME NEW f \in Enis, NEW h \in Enis, eni'[f] # None, eni'[h] # None,
               eni'[f].subnet = eni'[h].subnet, eni'[f].private = eni'[h].private
        PROVE  f = h
    <3>1. \A k \in Enis : eni'[k] # None =>
              k \in StoredEnis /\ eni'[k].subnet = eni[k].subnet /\ eni'[k].private = eni[k].private
      BY <1>2, <1>5 DEF StoredEnis
    <3> QED
      BY <2>2, <3>1 DEF Inv, DbInv, EnisSound
  <2> QED
    BY <2>1, <2>2 DEF EnisSound, DataFits, OfVpc, StoredEnis
<1> QED
  BY <1>2, <1>4, <1>5, <1>6, <1>7, <1>8, <1>9

\* What a request on an interface knows as it comes to its write.
LEMMA AtWrite ==
    ASSUME Inv, NEW c \in Clients, pc[c] = "write", req[c].op \in EniOps, eni[req[c].eni] # None
    PROVE  /\ req[c].eni \in Enis /\ req[c].eni \in used /\ eni[req[c].eni].data \in Datas
           /\ seen[c] \in Datas /\ DataFits(req[c].eni, seen[c])
           /\ req[c].op # "ModifyNetworkInterfaceAttribute" => req[c].eip \in Eips
           /\ req[c].op = "ModifyNetworkInterfaceAttribute" =>
                 req[c].groups \subseteq Groups /\ OfVpc(VpcOf[eni[req[c].eni].subnet], req[c].groups)
           /\ inStep => (\A e \in Enis : eni[e] # None => Agrees(e)) /\ ShownOnce
<1>1. /\ req[c].eni \in Enis /\ req[c].eni \in used
      /\ seen[c] \in Datas /\ DataFits(req[c].eni, seen[c])
      /\ req[c].op # "ModifyNetworkInterfaceAttribute" => req[c].eip \in Eips
      /\ req[c].op = "ModifyNetworkInterfaceAttribute" =>
            req[c].groups \subseteq Groups /\ OfVpc(VpcOf[eni[req[c].eni].subnet], req[c].groups)
  BY DEF Inv, ClientOK, OnEni
<1>2. eni[req[c].eni].data \in Datas
  BY <1>1 DEF Inv, DbInv, RowTypes, EniRows
<1> QED
  BY <1>1, <1>2 DEF Inv, DbInv, Agreement

LEMMA UpdateInterfaceInv ==
    ASSUME Inv, NEW c \in Clients, UpdateInterface(c)
    PROVE  Inv'
<1>1. CASE Refused(c)
  BY <1>1, RefusedIsGood
<1>2. CASE ~Refused(c)
  <2> DEFINE e == req[c].eni
             gs == req[c].groups
             was == eni[e].data
             s == seen[c]
             d == IF gs = {} THEN s ELSE [s EXCEPT !.groups = gs]
  <2>1. /\ At(c, "write", "ModifyNetworkInterfaceAttribute") /\ eni[e] # None
        /\ eni' = [eni EXCEPT ![e].data = d]
        /\ Writes(c, was = s /\ gs \subseteq StoredGroups)
        /\ UNCHANGED <<group, rule, instance, eip, volume, used>>
    BY <1>2 DEF UpdateInterface
  <2>2. /\ e \in Enis /\ was \in Datas /\ s \in Datas /\ DataFits(e, s)
        /\ gs \subseteq Groups /\ OfVpc(VpcOf[eni[e].subnet], gs)
        /\ inStep => (\A f \in Enis : eni[f] # None => Agrees(f)) /\ ShownOnce
    BY <2>1, AtWrite DEF At, EniOps
  <2>3. End(c) /\ inStep' \in BOOLEAN /\ (inStep' => inStep /\ was = s /\ gs \subseteq StoredGroups)
    BY <2>1 DEF Writes, Inv, ClientTypes
  <2> HIDE DEF e, gs, was, s
  <2>4. /\ d \in Datas /\ d.public = s.public /\ d.instance = s.instance
        /\ d.groups = gs \/ d.groups = s.groups
    BY <2>2 DEF Datas
  <2> HIDE DEF d
  <2>5. DataFits(e, d)
    BY <2>2, <2>4 DEF DataFits, OfVpc
  <2>6. eip \in [Eips -> EipRows \cup {None}] /\ eip' = eip
    BY <2>1 DEF Inv, DbInv, RowTypes
  <2>7. /\ \A f \in Enis : (eni'[f] # None <=> eni[f] # None) /\ (f # e => eni'[f] = eni[f])
        /\ eni'[e] # None /\ eni'[e].data = d /\ eni'[e].instance = eni[e].instance
        /\ Persists /\ RowTypes' /\ RulesSound' /\ Drawn' /\ EnisSound' /\ TerminatedHoldNothing'
    BY <2>1, <2>2, <2>4, <2>5, <2>6, DataStep
  <2>8. AddressesDiffer'
    BY <2>6 DEF Inv, DbInv, AddressesDiffer
  <2>9. AddressesStand'
    <3>1. ASSUME NEW p \in Eips, eip[p] # None, eip[p].eni # None
          PROVE  LET f == eip[p].eni IN eni'[f] # None /\ (eni'[f].instance # None => eip[p].instance = eni'[f].instance)
      <4>1. eip[p].eni \in Enis
        BY <2>6, <3>1 DEF EipRows
      <4> QED
        BY <2>7, <3>1, <4>1 DEF Inv, DbInv, AddressesStand
    <3> QED
      BY <2>6, <3>1 DEF AddressesStand
  <2>10. ASSUME inStep' PROVE ((\A f \in Enis : eni[f] # None => Agrees(f)) /\ ShownOnce)'
    <3>1. (\A f \in Enis : eni[f] # None => Agrees(f)) /\ ShownOnce
      BY <2>2, <2>3, <2>10
    <3>2. was = s /\ was = eni[e].data /\ group' = group /\ \A g \in gs : g \in Groups /\ group[g] # None
      BY <2>1, <2>2, <2>3, <2>10 DEF was, StoredGroups
    <3>3. \A f \in Enis : eni'[f] # None =>
              eni[f] # None /\ eni'[f].data.public = eni[f].data.public /\ eni'[f].data.instance = eni[f].data.instance
              /\ eni'[f].instance = eni[f].instance
      BY <2>4, <2>7, <3>2
    <3>4. ShownOnce'
      BY <3>1, <3>3 DEF ShownOnce
    <3>5. ASSUME NEW f \in Enis, eni'[f] # None PROVE Agrees(f)'
      <4>1. Agrees(f)
        BY <3>1, <3>3, <3>5
      <4>2. \A g \in eni'[f].data.groups : g \in Groups /\ group[g] # None
        BY <2>4, <2>7, <3>2, <4>1 DEF Agrees
      <4> QED
        BY <2>6, <3>2, <3>3, <3>5, <4>1, <4>2 DEF Agrees
    <3> QED
      BY <3>4, <3>5
  <2>11. DbInv'
    BY <2>7, <2>8, <2>9, <2>10 DEF DbInv, Agreement
  <2> QED
    BY <2>3, <2>7, <2>11, EndIsGood
<1> QED
  BY <1>1, <1>2

LEMMA AssociateEIPInv ==
    ASSUME Inv, NEW c \in Clients, AssociateEIP(c)
    PROVE  Inv'
<1>1. CASE Refused(c)
  BY <1>1, RefusedIsGood
<1>2. CASE ~Refused(c)
  <2> DEFINE p == req[c].eip
             e == req[c].eni
             was == eni[e].data
             s == seen[c]
             ip == eip[p].ip
             d == [s EXCEPT !.public = <<"eip", ip>>]
             row == [eip[p] EXCEPT !.eni = e, !.instance = s.instance]
  <2>1. /\ At(c, "write", "AssociateAddress") /\ Associable(p, e) /\ eni[e] # None
        /\ eip' = [eip EXCEPT ![p] = row]
        /\ eni' = [eni EXCEPT ![e].data = d]
        /\ Writes(c, was = s)
        /\ UNCHANGED <<group, rule, instance, volume, used>>
    <3> HIDE DEF was
    <3>1. /\ eip' = [eip EXCEPT ![p].eni = e, ![p].instance = s.instance]
      BY <1>2 DEF AssociateEIP
    <3>2. eip' = [eip EXCEPT ![p] = row]
      BY <3>1
    <3> QED
      BY <1>2, <3>2 DEF AssociateEIP, was
  <2>2. /\ e \in Enis /\ was \in Datas /\ s \in Datas /\ DataFits(e, s) /\ p \in Eips
        /\ inStep => (\A f \in Enis : eni[f] # None => Agrees(f)) /\ ShownOnce
    BY <2>1, AtWrite DEF At, EniOps
  <2>3. End(c) /\ inStep' \in BOOLEAN /\ (inStep' => inStep /\ was = s)
    BY <2>1 DEF Writes, Inv, ClientTypes
  <2>4. /\ eip \in [Eips -> EipRows \cup {None}] /\ eip[p] \in EipRows /\ eip[p].eni = None
        /\ \A q \in Eips : eip[q] # None => eip[q].eni # e
        /\ None \notin EipRows /\ None \notin Enis
    BY <2>1, <2>2, InterfacesAssumption DEF Inv, DbInv, RowTypes, Associable
  <2> HIDE DEF p, e, was, s
  <2>5. ip \in 0 .. Net - 1 /\ s.instance \in Instances \cup {None}
    BY <2>2, <2>4 DEF EipRows, Datas
  <2>6. /\ row \in EipRows /\ row.ip = ip /\ row.eni = e /\ row.instance = s.instance
    <3> HIDE DEF ip
    <3>1. row \in EipRows /\ row.eni = e /\ row.instance = s.instance /\ row.ip = eip[p].ip
      BY <2>2, <2>4, <2>5 DEF EipRows
    <3> QED
      BY <3>1 DEF ip
  <2> HIDE DEF ip
  <2>7. <<"eip", ip>> \in ({"eip", "auto"} \X (0 .. Net - 1)) \cup {None}
    BY <2>5
  <2>8. /\ d \in Datas /\ d.public = <<"eip", ip>> /\ d.instance = s.instance /\ d.groups = s.groups
    BY <2>2, <2>7 DEF Datas
  <2> HIDE DEF d, row
  <2>9. DataFits(e, d)
    BY <2>2, <2>8 DEF DataFits, OfVpc
  <2>10. row # None /\ \A q \in Eips : eip'[q] = IF q = p THEN row ELSE eip[q]
    BY <2>1, <2>2, <2>4, <2>6
  <2>11. eip' \in [Eips -> EipRows \cup {None}] /\ \A q \in Eips : eip'[q] # None <=> eip[q] # None
    BY <2>1, <2>2, <2>4, <2>6, <2>10
  <2>12. /\ \A f \in Enis : (eni'[f] # None <=> eni[f] # None) /\ (f # e => eni'[f] = eni[f])
         /\ eni'[e] # None /\ eni'[e].data = d /\ eni'[e].instance = eni[e].instance
         /\ Persists /\ RowTypes' /\ RulesSound' /\ Drawn' /\ EnisSound' /\ TerminatedHoldNothing'
    BY <2>1, <2>2, <2>8, <2>9, <2>11, DataStep
  <2>13. AddressesDiffer'
    <3>1. ip = eip[p].ip /\ eip[p] # None
      BY <2>4 DEF ip
    <3>2. \A q \in Eips : q # p /\ eip[q] # None => eip[q].ip # ip /\ eip[q].eni # e
      BY <2>2, <2>4, <3>1 DEF Inv, DbInv, AddressesDiffer
    <3> QED
      BY <2>6, <2>10, <3>2 DEF Inv, DbInv, AddressesDiffer
  <2>14. AddressesStand'
    <3>1. ASSUME NEW q \in Eips, eip'[q] # None, eip'[q].eni # None
          PROVE  /\ eni'[eip'[q].eni] # None
                 /\ eni'[eip'[q].eni].instance # None => eip'[q].instance = eni'[eip'[q].eni].instance
      <4>1. CASE q = p
        BY <2>1, <2>2, <2>6, <2>10, <2>12, <4>1 DEF DataFits
      <4>2. CASE q # p
        <5>1. eip'[q] = eip[q] /\ eip[q].eni \in Enis /\ eip[q].eni # e
          BY <2>4, <2>10, <2>11, <3>1, <4>2 DEF EipRows
        <5> QED
          BY <2>12, <3>1, <5>1 DEF Inv, DbInv, AddressesStand
      <4> QED
        BY <4>1, <4>2
    <3> QED
      BY <3>1 DEF AddressesStand
  <2>15. ASSUME inStep' PROVE ((\A f \in Enis : eni[f] # None => Agrees(f)) /\ ShownOnce)'
    <3>1. (\A f \in Enis : eni[f] # None => Agrees(f)) /\ ShownOnce
      BY <2>2, <2>3, <2>15
    <3>2. s = eni[e].data /\ group' = group
      BY <2>1, <2>3, <2>15 DEF was
    \* No other interface shows the address: it would be the one associated with it.
    <3>3. ASSUME NEW f \in Enis, f # e, eni[f] # None PROVE eni[f].data.public # <<"eip", ip>>
      <4> SUFFICES ASSUME eni[f].data.public = <<"eip", ip>> PROVE FALSE
        OBVIOUS
      <4>1. Agrees(f)
        BY <3>1, <3>3
      <4>2. eni[f].data.public # None /\ eni[f].data.public[1] # "auto"
        BY <2>7, <2>5, InterfacesAssumption
      <4>3. PICK q \in Eips : eip[q] # None /\ eip[q].eni = f
        BY <4>1, <4>2 DEF Agrees
      <4>4. eni[f].data.public = <<"eip", eip[q].ip>> /\ q # p
        BY <2>4, <3>3, <4>1, <4>3 DEF Agrees
      <4>5. eip[q].ip # eip[p].ip
        BY <2>2, <2>4, <4>3, <4>4 DEF Inv, DbInv, AddressesDiffer
      <4> QED
        BY <4>4, <4>5 DEF ip
    <3>4. ShownOnce'
      BY <2>8, <2>12, <3>1, <3>3 DEF ShownOnce
    <3>5. ASSUME NEW f \in Enis, eni'[f] # None PROVE Agrees(f)'
      <4>1. Agrees(f)
        BY <2>12, <3>1, <3>5
      <4>2. CASE f = e
        <5>1. /\ eni'[f].data.instance = eni'[f].instance
              /\ \A g \in eni'[f].data.groups : g \in Groups /\ group'[g] # None
          BY <2>8, <2>12, <3>2, <4>1, <4>2 DEF Agrees
        <5>2. \A q \in Eips : eip'[q] # None /\ eip'[q].eni = f => q = p
          BY <2>4, <2>10, <4>2
        <5>3. eip'[p] # None /\ eip'[p].eni = f /\ eni'[f].data.public = <<"eip", eip'[p].ip>>
          BY <2>2, <2>6, <2>8, <2>10, <2>12, <4>2
        <5>4. eip'[p].instance = eni'[f].instance
          BY <2>2, <2>6, <2>8, <2>10, <2>12, <3>2, <4>1, <4>2 DEF Agrees
        <5> QED
          BY <2>2, <5>1, <5>2, <5>3, <5>4 DEF Agrees
      <4>3. CASE f # e
        <5>1. eni'[f] = eni[f]
          BY <2>12, <4>3
        <5>2. \A q \in Eips : eip'[q] # None /\ eip'[q].eni = f <=> eip[q] # None /\ eip[q].eni = f
          <6>1. f # None
            BY <2>4
          <6> QED
            BY <2>4, <2>6, <2>10, <4>3, <6>1
        <5>3. \A q \in Eips : eip'[q] # None /\ eip'[q].eni = f => eip'[q] = eip[q]
          BY <2>6, <2>10, <4>3
        <5> QED
          BY <3>2, <4>1, <5>1, <5>2, <5>3 DEF Agrees
      <4> QED
        BY <4>2, <4>3
    <3> QED
      BY <3>4, <3>5
  <2>16. DbInv'
    BY <2>12, <2>13, <2>14, <2>15 DEF DbInv, Agreement
  <2> QED
    BY <2>3, <2>12, <2>16, EndIsGood
<1> QED
  BY <1>1, <1>2

LEMMA PublicAgainIs ==
    ASSUME NEW e \in Enis, NEW s \in Datas, s.auto => MayClaim(e)
    PROVE  /\ PublicAgain(e, s) \in ({"eip", "auto"} \X (0 .. Net - 1)) \cup {None}
           /\ PublicAgain(e, s) = None \/ PublicAgain(e, s)[1] = "auto"
           /\ \A f \in Enis : f # e /\ eni[f] # None /\ PublicAgain(e, s) # None =>
                 eni[f].data.public # PublicAgain(e, s)
<1>1. CASE s.auto
  <2>1. PICK a \in (0 .. Net - 1) \ AutoHeld(e) : Claimed(e) = <<"auto", a>>
    BY <1>1, ClaimedIs
  <2>2. PublicAgain(e, s) = <<"auto", a>>
    BY <1>1, <2>1 DEF PublicAgain
  <2>3. \A f \in Enis : f # e /\ eni[f] # None => eni[f].data.public # <<"auto", a>>
    BY <2>1 DEF AutoHeld, StoredEnis
  <2>4. a \in 0 .. Net - 1
    BY <2>1
  <2> QED
    BY <2>2, <2>3, <2>4
<1>2. CASE ~s.auto
  BY <1>2 DEF PublicAgain
<1> QED
  BY <1>1, <1>2

LEMMA DisassociateEIPInv ==
    ASSUME Inv, NEW c \in Clients, DisassociateEIP(c)
    PROVE  Inv'
<1>1. CASE Refused(c)
  BY <1>1, RefusedIsGood
<1>2. CASE ~Refused(c)
  <2> DEFINE p == req[c].eip
             e == req[c].eni
             was == eni[e].data
             s == seen[c]
             public == PublicAgain(e, s)
             d == [s EXCEPT !.public = public]
             row == [eip[p] EXCEPT !.eni = None, !.instance = None]
  <2>1. /\ At(c, "write", "DisassociateAddress") /\ eip[p] # None /\ eni[e] # None /\ (s.auto => MayClaim(e))
        /\ eip' = [eip EXCEPT ![p] = row]
        /\ eni' = [eni EXCEPT ![e].data = d]
        /\ Writes(c, was = s /\ eip[p].eni = e)
        /\ UNCHANGED <<group, rule, instance, volume, used>>
    <3> HIDE DEF was, public
    <3>1. /\ eip' = [eip EXCEPT ![p].eni = None, ![p].instance = None]
      BY <1>2 DEF DisassociateEIP
    <3>2. eip' = [eip EXCEPT ![p] = row]
      BY <3>1
    <3> QED
      BY <1>2, <3>2 DEF DisassociateEIP, was, public
  <2>2. /\ e \in Enis /\ was \in Datas /\ s \in Datas /\ DataFits(e, s) /\ p \in Eips
        /\ inStep => (\A f \in Enis : eni[f] # None => Agrees(f)) /\ ShownOnce
    BY <2>1, AtWrite DEF At, EniOps
  <2>3. End(c) /\ inStep' \in BOOLEAN /\ (inStep' => inStep /\ was = s /\ eip[p].eni = e)
    BY <2>1 DEF Writes, Inv, ClientTypes
  <2>4. /\ eip \in [Eips -> EipRows \cup {None}] /\ eip[p] \in EipRows
        /\ None \notin EipRows /\ None \notin Enis
    BY <2>1, <2>2, InterfacesAssumption DEF Inv, DbInv, RowTypes
  <2> HIDE DEF p, e, was, s
  <2>5. /\ public \in ({"eip", "auto"} \X (0 .. Net - 1)) \cup {None}
        /\ public = None \/ public[1] = "auto"
        /\ \A f \in Enis : f # e /\ eni[f] # None /\ public # None => eni[f].data.public # public
    BY <2>1, <2>2, PublicAgainIs
  <2> HIDE DEF public
  <2>6. row \in EipRows /\ row.ip = eip[p].ip /\ row.eni = None
    BY <2>4 DEF EipRows
  <2>7. /\ d \in Datas /\ d.public = public /\ d.instance = s.instance /\ d.groups = s.groups
    BY <2>2, <2>5 DEF Datas
  <2> HIDE DEF d, row
  <2>8. DataFits(e, d)
    BY <2>2, <2>7 DEF DataFits, OfVpc
  <2>9. row # None /\ \A q \in Eips : eip'[q] = IF q = p THEN row ELSE eip[q]
    BY <2>1, <2>2, <2>4, <2>6
  <2>10. eip' \in [Eips -> EipRows \cup {None}] /\ \A q \in Eips : eip'[q] # None <=> eip[q] # None
    BY <2>1, <2>2, <2>4, <2>6, <2>9
  <2>11. /\ \A f \in Enis : (eni'[f] # None <=> eni[f] # None) /\ (f # e => eni'[f] = eni[f])
         /\ eni'[e] # None /\ eni'[e].data = d /\ eni'[e].instance = eni[e].instance
         /\ Persists /\ RowTypes' /\ RulesSound' /\ Drawn' /\ EnisSound' /\ TerminatedHoldNothing'
    BY <2>1, <2>2, <2>7, <2>8, <2>10, DataStep
  <2>12. AddressesDiffer'
    BY <2>1, <2>6, <2>9 DEF Inv, DbInv, AddressesDiffer
  <2>13. AddressesStand'
    <3>1. ASSUME NEW q \in Eips, eip'[q] # None, eip'[q].eni # None
          PROVE  /\ eni'[eip'[q].eni] # None
                 /\ eni'[eip'[q].eni].instance # None => eip'[q].instance = eni'[eip'[q].eni].instance
      <4>1. q # p /\ eip'[q] = eip[q] /\ eip[q].eni \in Enis
        BY <2>4, <2>6, <2>9, <2>10, <3>1 DEF EipRows
      <4>2. \A f \in Enis : eni'[f].instance = eni[f].instance
        BY <2>11
      <4> QED
        BY <2>11, <3>1, <4>1, <4>2 DEF Inv, DbInv, AddressesStand
    <3> QED
      BY <3>1 DEF AddressesStand
  <2>14. ASSUME inStep' PROVE ((\A f \in Enis : eni[f] # None => Agrees(f)) /\ ShownOnce)'
    <3>1. (\A f \in Enis : eni[f] # None => Agrees(f)) /\ ShownOnce
      BY <2>2, <2>3, <2>14
    <3>2. s = eni[e].data /\ eip[p].eni = e /\ group' = group
      BY <2>1, <2>3, <2>14 DEF was
    <3>3. ShownOnce'
      BY <2>5, <2>7, <2>11, <3>1 DEF ShownOnce
    <3>4. ASSUME NEW f \in Enis, eni'[f] # None PROVE Agrees(f)'
      <4>1. Agrees(f) /\ f # None
        BY <2>4, <2>11, <3>1, <3>4
      <4>2. CASE f = e
        <5>1. /\ eni'[f].data.instance = eni'[f].instance
              /\ \A g \in eni'[f].data.groups : g \in Groups /\ group'[g] # None
          BY <2>7, <2>11, <3>2, <4>1, <4>2 DEF Agrees
        <5>2. \A q \in Eips : eip'[q] # None => eip'[q].eni # f
          BY <2>1, <2>2, <2>6, <2>9, <3>2, <4>1, <4>2 DEF Inv, DbInv, AddressesDiffer
        <5>3. eni'[f].data.public = None \/ eni'[f].data.public[1] = "auto"
          BY <2>5, <2>7, <2>11, <4>2
        <5> QED
          BY <5>1, <5>2, <5>3 DEF Agrees
      <4>3. CASE f # e
        <5>1. eni'[f] = eni[f]
          BY <2>11, <4>3
        <5>2. \A q \in Eips : eip'[q] # None /\ eip'[q].eni = f <=> eip[q] # None /\ eip[q].eni = f
          BY <2>6, <2>9, <3>2, <4>1, <4>3
        <5>3. \A q \in Eips : eip'[q] # None /\ eip'[q].eni = f => eip'[q] = eip[q]
          BY <2>6, <2>9, <4>1
        <5> QED
          BY <3>2, <4>1, <5>1, <5>2, <5>3 DEF Agrees
      <4> QED
        BY <4>2, <4>3
    <3> QED
      BY <3>3, <3>4
  <2>15. DbInv'
    BY <2>11, <2>12, <2>13, <2>14 DEF DbInv, Agreement
  <2> QED
    BY <2>3, <2>11, <2>15, EndIsGood
<1> QED
  BY <1>1, <1>2
-----------------------------------------------------------------------------
(* The steps of instances. *)

LEMMA InsertInstanceInv ==
    ASSUME Inv, NEW c \in Clients, InsertInstance(c)
    PROVE  Inv'
<1> DEFINE r == req[c]
           s == r.subnet
           gs == r.groups
           auto == r.auto
           free == PrivateFree(s)
           fits == IF r.private = None THEN {a \in free : \A b \in free : a <= b} ELSE free \cap {r.private}
           a == CHOOSE a \in fits : TRUE
           New(p) == [state |-> "running", protected |-> p]
           Public(e) == IF auto THEN Claimed(e) ELSE None
           Data(i, e) == [instance |-> i, groups |-> gs, check |-> TRUE, auto |-> auto, keep |-> FALSE,
                          public |-> Public(e)]
           Row(i, e) == [subnet |-> s, private |-> a, instance |-> i, data |-> Data(i, e)]
<1>1. CASE Refused(c)
  BY <1>1, RefusedIsGood
<1>2. ASSUME NEW i \in Instances \ used, NEW e \in Enis \ used, NEW protect \in Protection,
             At(c, "write", "RunInstances"),
             fits # {}, auto => MayClaim(e), Draw({i, e}),
             instance' = [instance EXCEPT ![i] = New(protect)], eni' = [eni EXCEPT ![e] = Row(i, e)],
             Writes(c, gs \subseteq StoredGroups), UNCHANGED <<group, rule, eip, volume>>
      PROVE  Inv'
  <2>1. s \in Subnets /\ gs \subseteq Groups /\ auto \in BOOLEAN /\ OfVpc(VpcOf[s], gs)
    BY <1>2 DEF Inv, ClientOK
  <2>2. End(c) /\ inStep' \in BOOLEAN /\ (inStep' => inStep /\ gs \subseteq StoredGroups)
    BY <1>2 DEF Writes, Inv, ClientTypes
  <2> HIDE DEF s, gs, auto
  <2>3. a \in 1 .. Hosts /\ \A f \in Enis : eni[f] # None /\ eni[f].subnet = s => eni[f].private # a
    <3>1. a \in fits /\ fits \subseteq free
      BY <1>2
    <3> HIDE DEF a, fits
    <3> QED
      BY <3>1 DEF PrivateFree, StoredEnis
  <2> HIDE DEF a, fits, free
  <2>4. /\ Public(e) \in ({"eip", "auto"} \X (0 .. Net - 1)) \cup {None}
        /\ Public(e) = None \/ Public(e)[1] = "auto"
        /\ \A f \in Enis : f # e /\ eni[f] # None /\ Public(e) # None => eni[f].data.public # Public(e)
    <3>1. CASE auto
      <4>1. PICK x \in (0 .. Net - 1) \ AutoHeld(e) : Claimed(e) = <<"auto", x>>
        BY <1>2, <3>1, ClaimedIs
      <4>2. Public(e) = <<"auto", x>> /\ x \in 0 .. Net - 1
        BY <3>1, <4>1
      <4>3. \A f \in Enis : f # e /\ eni[f] # None => eni[f].data.public # <<"auto", x>>
        BY <4>1 DEF AutoHeld, StoredEnis
      <4> HIDE DEF Public
      <4> QED
        BY <4>2, <4>3
    <3>2. CASE ~auto
      BY <3>2
    <3> QED
      BY <3>1, <3>2
  <2> DEFINE public == Public(e)
             data == Data(i, e)
             row == Row(i, e)
             new == New(protect)
  <2>5. /\ data.instance = i /\ data.groups = gs /\ data.public = public
        /\ data \in Datas
    <3>1. data = [instance |-> i, groups |-> gs, check |-> TRUE, auto |-> auto, keep |-> FALSE, public |-> public]
      OBVIOUS
    <3>2. public \in ({"eip", "auto"} \X (0 .. Net - 1)) \cup {None}
      BY <2>4
    <3> HIDE DEF public, data
    <3> QED
      BY <1>2, <2>1, <3>1, <3>2 DEF Datas
  <2>6. /\ row.subnet = s /\ row.private = a /\ row.instance = i /\ row.data = data
        /\ row \in EniRows
    <3> HIDE DEF data, Data
    <3> QED
      BY <1>2, <2>1, <2>3, <2>5 DEF EniRows, data
  <2>7. new \in InstanceRows /\ new.state = "running"
    BY DEF InstanceRows, Protection
  <2>8. instance' = [instance EXCEPT ![i] = new] /\ eni' = [eni EXCEPT ![e] = row]
    BY <1>2
  <2>9. /\ public = None \/ public[1] = "auto"
        /\ \A f \in Enis : f # e /\ eni[f] # None /\ public # None => eni[f].data.public # public
    BY <2>4
  <2> HIDE DEF public, data, row, new, Public, Data, Row, New
  <2>10. /\ i \notin used /\ e \notin used /\ i \in Instances /\ e \in Enis /\ used' = used \cup {i, e}
         /\ instance[i] = None /\ eni[e] = None
    BY <1>2 DEF Draw, Inv, DbInv, Drawn
  <2>11. /\ instance \in [Instances -> InstanceRows \cup {None}] /\ eni \in [Enis -> EniRows \cup {None}]
         /\ eip \in [Eips -> EipRows \cup {None}]
         /\ None \notin InstanceRows /\ None \notin EniRows /\ None \notin Enis /\ None \notin Instances
    BY InterfacesAssumption DEF Inv, DbInv, RowTypes
  <2>12. /\ row # None /\ \A f \in Enis : eni'[f] = IF f = e THEN row ELSE eni[f]
         /\ new # None /\ \A j \in Instances : instance'[j] = IF j = i THEN new ELSE instance[j]
    BY <2>6, <2>7, <2>8, <2>10, <2>11
  <2>13. UNCHANGED <<group, rule, eip, volume>>
    BY <1>2
  <2>14. Persists
    BY <2>10, <2>12, <2>13 DEF Persists
  <2>15. RowTypes' /\ RulesSound' /\ Drawn'
    <3>1. eni' \in [Enis -> EniRows \cup {None}] /\ instance' \in [Instances -> InstanceRows \cup {None}]
      BY <2>6, <2>7, <2>8, <2>11
    <3>2. RowTypes'
      BY <2>13, <3>1 DEF Inv, DbInv, RowTypes
    <3>3. RulesSound'
      BY <2>13 DEF Inv, DbInv, RulesSound
    <3>4. Drawn'
      BY <2>10, <2>12, <2>13 DEF Inv, DbInv, Drawn
    <3> QED
      BY <3>2, <3>3, <3>4
  <2>16. EnisSound'
    <3>1. ASSUME NEW f \in Enis, eni'[f] # None
          PROVE  /\ \A g \in eni'[f].data.groups : g \in used' /\ group'[g] \in {VpcOf[eni'[f].subnet], None}
                 /\ eni'[f].instance # None => eni'[f].data.instance = eni'[f].instance
      <4>1. CASE f = e
        BY <2>1, <2>5, <2>6, <2>10, <2>12, <2>13, <4>1 DEF OfVpc
      <4>2. CASE f # e
        BY <2>10, <2>12, <2>13, <3>1, <4>2 DEF Inv, DbInv, EnisSound, DataFits, OfVpc
      <4> QED
        BY <4>1, <4>2
    <3>2. ASSUME NEW f \in Enis, NEW h \in Enis, eni'[f] # None, eni'[h] # None,
                 eni'[f].subnet = eni'[h].subnet, eni'[f].private = eni'[h].private
          PROVE  f = h
      BY <2>3, <2>6, <2>12, <3>2 DEF Inv, DbInv, EnisSound, StoredEnis
    <3> QED
      BY <3>1, <3>2 DEF EnisSound, DataFits, OfVpc, StoredEnis
  <2>17. AddressesDiffer' /\ AddressesStand'
    <3>1. AddressesDiffer'
      BY <2>13 DEF Inv, DbInv, AddressesDiffer
    <3>2. \A p \in Eips : eip[p] # None /\ eip[p].eni # None => eip[p].eni # e /\ eip[p].eni \in Enis
      BY <2>10, <2>11 DEF Inv, DbInv, AddressesStand, EipRows
    <3>3. AddressesStand'
      BY <2>12, <2>13, <3>2 DEF Inv, DbInv, AddressesStand
    <3> QED
      BY <3>1, <3>3
  <2>18. TerminatedHoldNothing'
    <3> SUFFICES ASSUME NEW j \in Instances, instance'[j] # None, instance'[j].state = "terminated"
                 PROVE  /\ ~instance'[j].protected
                        /\ \A f \in Enis : eni'[f] # None => eni'[f].instance # j
                        /\ \A v \in Volumes : volume'[v] # None => \A x \in volume'[v] : x[1] # j
      BY DEF TerminatedHoldNothing, StoredEnis
    <3>1. j # i /\ instance'[j] = instance[j]
      BY <2>7, <2>12
    <3> QED
      BY <2>6, <2>12, <2>13, <3>1 DEF Inv, DbInv, TerminatedHoldNothing, StoredEnis
  <2>19. ASSUME inStep' PROVE ((\A f \in Enis : eni[f] # None => Agrees(f)) /\ ShownOnce)'
    <3>1. (\A f \in Enis : eni[f] # None => Agrees(f)) /\ ShownOnce
      BY <2>2, <2>19 DEF Inv, DbInv, Agreement
    <3>2. ShownOnce'
      BY <2>5, <2>6, <2>9, <2>12, <3>1 DEF ShownOnce
    <3>3. ASSUME NEW f \in Enis, eni'[f] # None PROVE Agrees(f)'
      <4>1. CASE f = e
        <5>1. \A g \in gs : g \in Groups /\ group'[g] # None
          BY <2>1, <2>2, <2>13, <2>19 DEF StoredGroups
        <5>2. \A p \in Eips : eip'[p] # None => eip'[p].eni # f
          BY <2>10, <2>11, <2>13, <4>1 DEF Inv, DbInv, AddressesStand
        <5>3. eni'[f] = row
          BY <2>12, <4>1
        <5> QED
          BY <2>5, <2>6, <2>9, <5>1, <5>2, <5>3 DEF Agrees
      <4>2. CASE f # e
        BY <2>12, <2>13, <3>1, <3>3, <4>2 DEF Agrees
      <4> QED
        BY <4>1, <4>2
    <3> QED
      BY <3>2, <3>3
  <2>20. DbInv'
    BY <2>15, <2>16, <2>17, <2>18, <2>19 DEF DbInv, Agreement
  <2> QED
    BY <2>2, <2>14, <2>20, EndIsGood
<1> QED
  BY <1>1, <1>2 DEF InsertInstance

LEMMA ModifyInstanceAttributeInv ==
    ASSUME Inv, NEW c \in Clients, ModifyInstanceAttribute(c)
    PROVE  Inv'
<1> DEFINE Own(i) == {e \in StoredEnis : eni[e].instance = i}
<1>1. PICK i \in Instances, protect \in BOOLEAN \cup {None}, check \in BOOLEAN \cup {None} :
          /\ UNCHANGED <<pc, req, seen, inStep>>
          /\ instance[i] # None /\ instance[i].state # "terminated"
          /\ instance' = IF protect = None THEN instance ELSE [instance EXCEPT ![i].protected = protect]
          /\ eni' = [e \in Enis |-> IF check # None /\ e \in Own(i) THEN [eni[e] EXCEPT !.data.check = check] ELSE eni[e]]
          /\ UNCHANGED <<group, rule, eip, volume, used>>
  BY DEF ModifyInstanceAttribute, Whole
<1>2. /\ instance \in [Instances -> InstanceRows \cup {None}] /\ eni \in [Enis -> EniRows \cup {None}]
      /\ eip \in [Eips -> EipRows \cup {None}]
      /\ None \notin InstanceRows /\ None \notin EniRows
  BY InterfacesAssumption DEF Inv, DbInv, RowTypes
\* The instance's row changes in nothing but its protection,
<1>3. /\ instance' \in [Instances -> InstanceRows \cup {None}]
      /\ \A j \in Instances : instance'[j] # None =>
            /\ instance[j] # None /\ instance'[j].state = instance[j].state
            /\ instance'[j].state = "terminated" => instance'[j] = instance[j]
      /\ \A j \in Instances : instance[j] # None => instance'[j] # None
  <2>1. CASE protect = None
    BY <1>1, <1>2, <2>1
  <2>2. CASE protect # None
    <3> DEFINE row == [instance[i] EXCEPT !.protected = protect]
    <3>1. row \in InstanceRows /\ row.state = instance[i].state
      BY <1>1, <1>2, <2>2 DEF InstanceRows
    <3>2. instance' = [instance EXCEPT ![i] = row]
      BY <1>1, <2>2
    <3> HIDE DEF row
    <3> QED
      BY <1>1, <1>2, <3>1, <3>2
  <2> QED
    BY <2>1, <2>2
\* and an interface's in nothing but the check.
<1>4. /\ eni' \in [Enis -> EniRows \cup {None}]
      /\ \A e \in Enis : (eni'[e] # None <=> eni[e] # None)
      /\ \A e \in Enis : eni[e] # None =>
            /\ eni'[e].subnet = eni[e].subnet /\ eni'[e].private = eni[e].private /\ eni'[e].instance = eni[e].instance
            /\ eni'[e].data.instance = eni[e].data.instance /\ eni'[e].data.groups = eni[e].data.groups
            /\ eni'[e].data.public = eni[e].data.public
  <2>1. ASSUME NEW e \in Enis, check # None, e \in Own(i)
        PROVE  LET row == [eni[e] EXCEPT !.data.check = check] IN
               /\ row \in EniRows /\ row.subnet = eni[e].subnet /\ row.private = eni[e].private
               /\ row.instance = eni[e].instance /\ row.data.instance = eni[e].data.instance
               /\ row.data.groups = eni[e].data.groups /\ row.data.public = eni[e].data.public
    <3> DEFINE d == [eni[e].data EXCEPT !.check = check]
    <3>1. eni[e] \in EniRows /\ eni[e].data \in Datas
      BY <1>2, <2>1 DEF StoredEnis, EniRows
    <3>2. /\ d \in Datas /\ d.instance = eni[e].data.instance /\ d.groups = eni[e].data.groups
          /\ d.public = eni[e].data.public
      BY <2>1, <3>1 DEF Datas
    <3>3. [eni[e] EXCEPT !.data.check = check] = [eni[e] EXCEPT !.data = d]
      BY <3>1
    <3> HIDE DEF d
    <3> QED
      BY <3>1, <3>2, <3>3 DEF EniRows
  <2>2. \A e \in Enis : eni'[e] = IF check # None /\ e \in Own(i) THEN [eni[e] EXCEPT !.data.check = check] ELSE eni[e]
    BY <1>1
  <2>3. DOMAIN eni' = Enis /\ eni' = [e \in Enis |-> eni'[e]]
    BY <1>1
  <2>4. \A e \in Own(i) : e \in Enis /\ eni[e] # None
    BY DEF StoredEnis
  <2>5. ASSUME NEW e \in Enis
        PROVE  /\ eni'[e] \in EniRows \cup {None}
               /\ eni'[e] # None <=> eni[e] # None
               /\ eni[e] # None =>
                    /\ eni'[e].subnet = eni[e].subnet /\ eni'[e].private = eni[e].private /\ eni'[e].instance = eni[e].instance
                    /\ eni'[e].data.instance = eni[e].data.instance /\ eni'[e].data.groups = eni[e].data.groups
                    /\ eni'[e].data.public = eni[e].data.public
    <3> HIDE DEF Own
    <3>1. CASE check # None /\ e \in Own(i)
      BY <1>2, <2>1, <2>2, <2>4, <3>1
    <3>2. CASE ~(check # None /\ e \in Own(i))
      BY <1>2, <2>2, <3>2
    <3> QED
      BY <3>1, <3>2
  <2> QED
    BY <2>3, <2>5
<1>5. Persists
  BY <1>1, <1>4 DEF Persists
<1>6. RowTypes' /\ RulesSound' /\ Drawn'
  <2>1. RowTypes'
    BY <1>1, <1>3, <1>4 DEF Inv, DbInv, RowTypes
  <2>2. RulesSound'
    BY <1>1 DEF Inv, DbInv, RulesSound
  <2>3. Drawn'
    BY <1>1, <1>3, <1>4 DEF Inv, DbInv, Drawn
  <2> QED
    BY <2>1, <2>2, <2>3
<1>7. EnisSound'
  <2>1. ASSUME NEW e \in Enis, eni'[e] # None
        PROVE  /\ \A g \in eni'[e].data.groups : g \in used' /\ group'[g] \in {VpcOf[eni'[e].subnet], None}
               /\ eni'[e].instance # None => eni'[e].data.instance = eni'[e].instance
    BY <1>1, <1>4, <2>1 DEF Inv, DbInv, EnisSound, DataFits, OfVpc
  <2>2. ASSUME NEW e \in Enis, NEW f \in Enis, eni'[e] # None, eni'[f] # None,
               eni'[e].subnet = eni'[f].subnet, eni'[e].private = eni'[f].private
        PROVE  e = f
    BY <1>4, <2>2 DEF Inv, DbInv, EnisSound, StoredEnis
  <2> QED
    BY <2>1, <2>2 DEF EnisSound, DataFits, OfVpc, StoredEnis
<1>8. AddressesDiffer' /\ AddressesStand'
  <2>1. AddressesDiffer'
    BY <1>1 DEF Inv, DbInv, AddressesDiffer
  <2>2. \A p \in Eips : eip[p] # None /\ eip[p].eni # None => eip[p].eni \in Enis
    BY <1>2 DEF EipRows
  <2>3. AddressesStand'
    BY <1>1, <1>4, <2>2 DEF Inv, DbInv, AddressesStand
  <2> QED
    BY <2>1, <2>3
<1>9. TerminatedHoldNothing'
  BY <1>1, <1>3, <1>4 DEF Inv, DbInv, TerminatedHoldNothing, StoredEnis
<1>10. ASSUME inStep' PROVE ((\A e \in Enis : eni[e] # None => Agrees(e)) /\ ShownOnce)'
  <2>1. (\A e \in Enis : eni[e] # None => Agrees(e)) /\ ShownOnce
    BY <1>1, <1>10 DEF Inv, DbInv, Agreement
  <2>2. ShownOnce'
    BY <1>4, <2>1 DEF ShownOnce
  <2>3. ASSUME NEW e \in Enis, eni'[e] # None PROVE Agrees(e)'
    BY <1>1, <1>4, <2>1, <2>3 DEF Agrees
  <2> QED
    BY <2>2, <2>3
<1>11. DbInv'
  BY <1>6, <1>7, <1>8, <1>9, <1>10 DEF DbInv, Agreement
<1> QED
  BY <1>1, <1>5, <1>11, WholeIsGood

\* What becomes of an address when instances of S terminate, of which `left` are the
\* interfaces that stay.
LEMMA ClearedIs ==
    ASSUME NEW S, NEW left \in SUBSET Enis, eip \in [Eips -> EipRows \cup {None}], None \notin EipRows
    PROVE  LET after == Cleared(eip, S, left) IN
           /\ after \in [Eips -> EipRows \cup {None}]
           /\ \A p \in Eips :
                 /\ after[p] # None <=> eip[p] # None
                 /\ eip[p] # None =>
                      /\ after[p].ip = eip[p].ip
                      /\ eip[p].instance \notin S => after[p] = eip[p]
                      /\ eip[p].instance \in S =>
                            after[p].instance = None /\ after[p].eni = IF eip[p].eni \in left THEN eip[p].eni ELSE None
<1> DEFINE after == Cleared(eip, S, left)
           Row(p) == IF eip[p].instance \notin S THEN eip[p]
                     ELSE IF eip[p].eni \in left THEN [eip[p] EXCEPT !.instance = None]
                     ELSE [eip[p] EXCEPT !.instance = None, !.eni = None]
<1>1. after = [p \in Eips |-> IF eip[p] = None THEN None ELSE Row(p)]
  BY DEF Cleared
<1>2. ASSUME NEW p \in Eips, eip[p] # None
      PROVE  /\ Row(p) \in EipRows /\ Row(p).ip = eip[p].ip
             /\ eip[p].instance \notin S => Row(p) = eip[p]
             /\ eip[p].instance \in S =>
                   Row(p).instance = None /\ Row(p).eni = IF eip[p].eni \in left THEN eip[p].eni ELSE None
  <2>1. eip[p] \in EipRows
    BY <1>2
  <2> QED
    BY <2>1 DEF EipRows
<1> HIDE DEF Row, after
<1>3. after \in [Eips -> EipRows \cup {None}]
  BY <1>1, <1>2
<1>4. \A p \in Eips : after[p] = IF eip[p] = None THEN None ELSE Row(p)
  BY <1>1
<1> QED
  BY <1>2, <1>3, <1>4 DEF after

LEMMA TerminateInstancesInv ==
    ASSUME Inv, NEW c \in Clients, TerminateInstances(c)
    PROVE  Inv'
<1> DEFINE Running(asked) == {i \in asked : instance[i].state = "running"}
           Own(T) == {e \in StoredEnis : eni[e].instance \in T}
           Kept(T) == {e \in Own(T) : eni[e].data.keep}
           Freed(e) == [eni[e] EXCEPT !.instance = None, !.data.instance = None, !.data.keep = FALSE]
<1>1. PICK asked \in SUBSET Instances :
          /\ UNCHANGED <<pc, req, seen, inStep>>
          /\ \A i \in asked : instance[i] # None
          /\ \A i \in Running(asked) : ~instance[i].protected
          /\ instance' = [i \in Instances |->
                IF i \in Running(asked) THEN [instance[i] EXCEPT !.state = "terminated"] ELSE instance[i]]
          /\ \E place : volume' = [v \in Volumes |->
                IF volume[v] = None THEN None ELSE AfterTerminate(Running(asked), place, volume[v])]
          /\ eni' = [e \in Enis |->
                IF e \in Kept(Running(asked)) THEN Freed(e) ELSE IF e \in Own(Running(asked)) THEN None ELSE eni[e]]
          /\ eip' = Cleared(eip, Running(asked), StoredEnis \ (Own(Running(asked)) \ Kept(Running(asked))))
          /\ UNCHANGED <<group, rule, used>>
  <2>1. PICK asked \in SUBSET Instances \ {{}} :
            LET T    == {i \in asked : instance[i].state = "running"}
                mine == {e \in StoredEnis : eni[e].instance \in T}
                stay == {e \in mine : eni[e].data.keep}
            IN
            /\ Whole(c, "TerminateInstances")
            /\ \A i \in asked : instance[i] # None
            /\ \A i \in T : ~instance[i].protected
            /\ instance' = [i \in Instances |-> IF i \in T THEN [instance[i] EXCEPT !.state = "terminated"] ELSE instance[i]]
            /\ \E place \in Bijection(T, 1 .. Cardinality(T)) :
                  volume' = [v \in Volumes |-> IF volume[v] = None THEN None ELSE AfterTerminate(T, place, volume[v])]
            /\ eni' = [e \in Enis |-> IF e \in stay THEN Freed(e) ELSE IF e \in mine THEN None ELSE eni[e]]
            /\ eip' = Cleared(eip, T, StoredEnis \ (mine \ stay))
            /\ UNCHANGED <<group, rule, used>>
    BY Zenon DEF TerminateInstances
  <2> DEFINE T == Running(asked)
  <2>2. \E place : volume' = [v \in Volumes |-> IF volume[v] = None THEN None ELSE AfterTerminate(T, place, volume[v])]
    BY <2>1
  <2> QED
    BY <2>1, <2>2, Zenon DEF Whole
<1> DEFINE S == Running(asked)
           own == Own(S)
           kept == Kept(S)
           left == StoredEnis \ (own \ kept)
<1>2. /\ S \subseteq Instances
      /\ \A i \in S : instance[i] # None /\ instance[i].state = "running" /\ ~instance[i].protected
  BY <1>1
<1>3. /\ \A e \in Enis : e \in own <=> eni[e] # None /\ eni[e].instance \in S
      /\ \A e \in Enis : e \in left <=> eni[e] # None /\ (e \in own => e \in kept)
      /\ left \subseteq Enis /\ kept \subseteq own
  BY DEF StoredEnis
<1>4. /\ instance' = [i \in Instances |-> IF i \in S THEN [instance[i] EXCEPT !.state = "terminated"] ELSE instance[i]]
      /\ \E place : volume' = [v \in Volumes |-> IF volume[v] = None THEN None ELSE AfterTerminate(S, place, volume[v])]
      /\ eni' = [e \in Enis |-> IF e \in kept THEN Freed(e) ELSE IF e \in own THEN None ELSE eni[e]]
      /\ eip' = Cleared(eip, S, left)
  BY <1>1
<1> HIDE DEF S, own, kept, left, Running, Own, Kept
<1>5. /\ instance \in [Instances -> InstanceRows \cup {None}] /\ eni \in [Enis -> EniRows \cup {None}]
      /\ eip \in [Eips -> EipRows \cup {None}]
      /\ \A v \in Volumes : volume[v] # None => volume[v] \in SUBSET (Instances \X BOOLEAN)
      /\ None \notin InstanceRows /\ None \notin EniRows /\ None \notin EipRows /\ None \notin Enis /\ None \notin Instances
  BY InterfacesAssumption DEF Inv, DbInv, RowTypes
<1>6. /\ instance' \in [Instances -> InstanceRows \cup {None}]
      /\ \A i \in Instances : instance'[i] # None => instance[i] # None /\ (i \notin S => instance'[i] = instance[i])
      /\ \A i \in S : ~instance'[i].protected
  <2>1. \A i \in S : [instance[i] EXCEPT !.state = "terminated"] \in InstanceRows
                      /\ [instance[i] EXCEPT !.state = "terminated"].protected = instance[i].protected
    BY <1>2, <1>5 DEF InstanceRows
  <2> QED
    BY <1>2, <1>4, <1>5, <2>1
<1>7. \A v \in Volumes : volume'[v] # None =>
          volume[v] # None /\ volume'[v] \subseteq volume[v] /\ \A a \in volume'[v] : a[1] \notin S
  <2>1. PICK place : volume' = [v \in Volumes |-> IF volume[v] = None THEN None ELSE AfterTerminate(S, place, volume[v])]
    BY <1>4
  <2>2. \A atts : AfterTerminate(S, place, atts) \in {None, {a \in atts : a[1] \notin S}}
    BY DEF AfterTerminate
  <2> QED
    BY <2>1, <2>2
\* An interface that stays lost its instance or is as it was.
<1>8. ASSUME NEW e \in Enis
      PROVE  /\ eni'[e] \in EniRows \cup {None}
             /\ eni'[e] # None <=> e \in left
             /\ eni'[e] # None =>
                  /\ eni[e] # None /\ eni'[e].subnet = eni[e].subnet /\ eni'[e].private = eni[e].private
                  /\ eni'[e].data.groups = eni[e].data.groups /\ eni'[e].data.public = eni[e].data.public
             /\ eni'[e] # None /\ eni[e].instance \in S => eni'[e].instance = None /\ eni'[e].data.instance = None
             /\ eni'[e] # None /\ eni[e].instance \notin S => eni'[e] = eni[e]
  <2>1. CASE e \in kept
    <3> DEFINE d == [eni[e].data EXCEPT !.instance = None, !.keep = FALSE]
    <3>1. eni[e] # None /\ eni[e].instance \in S /\ e \in left
      BY <1>3, <2>1
    <3>2. eni[e] \in EniRows /\ eni[e].data \in Datas
      BY <1>5, <3>1 DEF EniRows
    <3>3. /\ d \in Datas /\ d.instance = None /\ d.groups = eni[e].data.groups /\ d.public = eni[e].data.public
      BY <3>2 DEF Datas
    <3>4. Freed(e) = [eni[e] EXCEPT !.instance = None, !.data = d]
      BY <3>2 DEF EniRows, Datas
    <3>5. eni'[e] = Freed(e)
      BY <1>4, <2>1
    <3> HIDE DEF d, Freed
    <3>6. /\ eni'[e] \in EniRows /\ eni'[e].instance = None /\ eni'[e].data = d /\ eni'[e].subnet = eni[e].subnet
          /\ eni'[e].private = eni[e].private
      BY <3>2, <3>3, <3>4, <3>5 DEF EniRows
    <3> QED
      BY <1>5, <3>1, <3>3, <3>6
  <2>2. CASE e \notin kept /\ e \in own
    BY <1>3, <1>4, <2>2
  <2>3. CASE e \notin own
    BY <1>3, <1>4, <1>5, <2>3
  <2> QED
    BY <2>1, <2>2, <2>3
<1>9. /\ eip' \in [Eips -> EipRows \cup {None}]
      /\ \A p \in Eips :
            /\ eip'[p] # None <=> eip[p] # None
            /\ eip[p] # None =>
                 /\ eip'[p].ip = eip[p].ip
                 /\ eip[p].instance \notin S => eip'[p] = eip[p]
                 /\ eip[p].instance \in S =>
                       eip'[p].instance = None /\ eip'[p].eni = IF eip[p].eni \in left THEN eip[p].eni ELSE None
  <2> DEFINE after == Cleared(eip, S, left)
  <2>1. /\ after \in [Eips -> EipRows \cup {None}]
        /\ \A p \in Eips :
              /\ after[p] # None <=> eip[p] # None
              /\ eip[p] # None =>
                   /\ after[p].ip = eip[p].ip
                   /\ eip[p].instance \notin S => after[p] = eip[p]
                   /\ eip[p].instance \in S =>
                         after[p].instance = None /\ after[p].eni = IF eip[p].eni \in left THEN eip[p].eni ELSE None
    BY <1>3, <1>5, ClearedIs
  <2>2. eip' = after
    BY <1>4
  <2> HIDE DEF after
  <2> QED
    BY <2>1, <2>2
\* An address of an interface that stays is its still, one of an interface that goes is of none.
<1>10. ASSUME NEW p \in Eips, eip[p] # None, eip[p].eni # None
       PROVE  /\ eip[p].eni \in Enis /\ eni[eip[p].eni] # None
              /\ eni[eip[p].eni].instance # None => eip[p].instance = eni[eip[p].eni].instance
              /\ eni'[eip[p].eni] # None => eip'[p].eni = eip[p].eni
              /\ eni'[eip[p].eni] = None => eip'[p].eni = None
  <2>1. /\ eip[p].eni \in Enis /\ eni[eip[p].eni] # None
        /\ eni[eip[p].eni].instance # None => eip[p].instance = eni[eip[p].eni].instance
    BY <1>5, <1>10 DEF Inv, DbInv, AddressesStand, EipRows
  <2>2. eip[p].instance \notin S => eip[p].eni \in left
    BY <1>2, <1>3, <1>5, <2>1
  <2> QED
    BY <1>8, <1>9, <1>10, <2>1, <2>2
<1>11. \A p \in Eips : eip'[p] # None /\ eip'[p].eni # None => eip[p] # None /\ eip[p].eni = eip'[p].eni
  BY <1>9
<1> HIDE DEF Freed
<1>12. Persists
  BY <1>1, <1>8 DEF Persists
<1>13. RowTypes' /\ RulesSound' /\ Drawn'
  <2>1. eni' \in [Enis -> EniRows \cup {None}] /\ DOMAIN volume' = Volumes
    <3>1. eni' = [e \in Enis |-> eni'[e]]
      BY <1>4
    <3> QED
      BY <1>4, <1>8, <3>1
  <2>2. RowTypes'
    BY <1>1, <1>5, <1>6, <1>7, <1>9, <2>1 DEF Inv, DbInv, RowTypes
  <2>3. RulesSound'
    BY <1>1 DEF Inv, DbInv, RulesSound
  <2>4. Drawn'
    BY <1>1, <1>6, <1>8, <1>9 DEF Inv, DbInv, Drawn
  <2> QED
    BY <2>2, <2>3, <2>4
<1>14. EnisSound'
  <2>1. ASSUME NEW e \in Enis, eni'[e] # None
        PROVE  /\ \A g \in eni'[e].data.groups : g \in used' /\ group'[g] \in {VpcOf[eni'[e].subnet], None}
               /\ eni'[e].instance # None => eni'[e].data.instance = eni'[e].instance
    BY <1>1, <1>8, <2>1 DEF Inv, DbInv, EnisSound, DataFits, OfVpc
  <2>2. ASSUME NEW e \in Enis, NEW f \in Enis, eni'[e] # None, eni'[f] # None,
               eni'[e].subnet = eni'[f].subnet, eni'[e].private = eni'[f].private
        PROVE  e = f
    BY <1>8, <2>2 DEF Inv, DbInv, EnisSound, StoredEnis
  <2> QED
    BY <2>1, <2>2 DEF EnisSound, DataFits, OfVpc, StoredEnis
<1>15. AddressesDiffer'
  BY <1>9, <1>11 DEF Inv, DbInv, AddressesDiffer
<1>16. AddressesStand'
  <2>1. ASSUME NEW p \in Eips, eip'[p] # None, eip'[p].eni # None
        PROVE  /\ eni'[eip'[p].eni] # None
               /\ eni'[eip'[p].eni].instance # None => eip'[p].instance = eni'[eip'[p].eni].instance
    <3>1. eip[p] # None /\ eip[p].eni = eip'[p].eni
      BY <1>11, <2>1
    <3>2. eni'[eip[p].eni] # None
      BY <1>10, <2>1, <3>1
    <3>3. ASSUME eni'[eip[p].eni].instance # None PROVE eip'[p].instance = eni'[eip[p].eni].instance
      <4>1. eni'[eip[p].eni] = eni[eip[p].eni] /\ eni[eip[p].eni].instance \notin S
        BY <1>8, <1>10, <2>1, <3>1, <3>2, <3>3
      <4> QED
        BY <1>9, <1>10, <2>1, <3>1, <3>3, <4>1
    <3> QED
      BY <3>1, <3>2, <3>3
  <2> QED
    BY <2>1 DEF AddressesStand
<1>17. TerminatedHoldNothing'
  <2> SUFFICES ASSUME NEW i \in Instances, instance'[i] # None, instance'[i].state = "terminated"
               PROVE  /\ ~instance'[i].protected
                      /\ \A e \in Enis : eni'[e] # None => eni'[e].instance # i
                      /\ \A v \in Volumes : volume'[v] # None => \A a \in volume'[v] : a[1] # i
    BY DEF TerminatedHoldNothing, StoredEnis
  <2>1. CASE i \in S
    BY <1>5, <1>6, <1>7, <1>8, <2>1
  <2>2. CASE i \notin S
    <3>1. instance[i] # None /\ instance'[i] = instance[i]
      BY <1>6, <2>2
    <3>2. /\ ~instance[i].protected
          /\ \A e \in Enis : eni[e] # None => eni[e].instance # i
          /\ \A v \in Volumes : volume[v] # None => \A a \in volume[v] : a[1] # i
      BY <3>1 DEF Inv, DbInv, TerminatedHoldNothing, StoredEnis
    <3>3. \A e \in Enis : eni'[e] # None => eni'[e].instance # i
      BY <1>5, <1>8, <3>2
    <3> QED
      BY <1>7, <3>1, <3>2, <3>3
  <2> QED
    BY <2>1, <2>2
<1>18. ASSUME inStep' PROVE ((\A e \in Enis : eni[e] # None => Agrees(e)) /\ ShownOnce)'
  <2>1. (\A e \in Enis : eni[e] # None => Agrees(e)) /\ ShownOnce
    BY <1>1, <1>18 DEF Inv, DbInv, Agreement
  <2>2. ShownOnce'
    BY <1>8, <2>1 DEF ShownOnce
  <2>3. ASSUME NEW e \in Enis, eni'[e] # None PROVE Agrees(e)'
    <3>1. eni[e] # None /\ Agrees(e) /\ e # None
      BY <1>5, <1>8, <2>1, <2>3
    <3>2. /\ eni'[e].data.instance = eni'[e].instance
          /\ \A g \in eni'[e].data.groups : g \in Groups /\ group'[g] # None
      BY <1>1, <1>8, <2>3, <3>1 DEF Agrees
    <3>3. \A p \in Eips : eip'[p] # None /\ eip'[p].eni = e <=> eip[p] # None /\ eip[p].eni = e
      BY <1>9, <1>10, <1>11, <2>3, <3>1
    <3>4. ASSUME NEW p \in Eips, eip[p] # None, eip[p].eni = e
          PROVE  eni'[e].data.public = <<"eip", eip'[p].ip>> /\ eip'[p].instance = eni'[e].instance
      <4>1. eni[e].data.public = <<"eip", eip[p].ip>> /\ eip[p].instance = eni[e].instance
        BY <3>1, <3>4 DEF Agrees
      <4> QED
        BY <1>8, <1>9, <2>3, <3>4, <4>1
    <3>5. (\A p \in Eips : eip'[p] # None => eip'[p].eni # e) =>
              eni'[e].data.public = None \/ eni'[e].data.public[1] = "auto"
      BY <1>8, <2>3, <3>1, <3>3 DEF Agrees
    <3> QED
      BY <3>2, <3>3, <3>4, <3>5 DEF Agrees
  <2> QED
    BY <2>2, <2>3
<1>19. DbInv'
  BY <1>13, <1>14, <1>15, <1>16, <1>17, <1>18 DEF DbInv, Agreement
<1> QED
  BY <1>1, <1>12, <1>19, WholeIsGood
-----------------------------------------------------------------------------
(* The invariant, of every behaviour. *)

LEMMA DefaultsAre ==
    ASSUME Init
    PROVE  /\ group \in [Groups -> Vpcs \cup {None}]
           /\ \A g \in Groups : group[g] # None => g \in used
           /\ \A v \in Vpcs : DefaultOf[v] \in Groups /\ DefaultOf[v] \in used /\ group[DefaultOf[v]] = v
<1>1. group = [g \in Groups |-> IF \E v \in Vpcs : DefaultOf[v] = g
                                THEN CHOOSE v \in Vpcs : DefaultOf[v] = g ELSE None]
  BY DEF Init
<1>2. {DefaultOf[v] : v \in Vpcs} \subseteq used
  BY DEF Init
<1>3. \A v, w \in Vpcs : DefaultOf[v] = DefaultOf[w] => v = w
  BY InterfacesAssumption
<1>4. ASSUME NEW v \in Vpcs PROVE DefaultOf[v] \in Groups /\ DefaultOf[v] \in used /\ group[DefaultOf[v]] = v
  <2>1. DefaultOf[v] \in Groups
    BY InterfacesAssumption
  <2>2. (CHOOSE w \in Vpcs : DefaultOf[w] = DefaultOf[v]) = v
    BY <1>3
  <2> QED
    BY <1>1, <1>2, <2>1, <2>2
<1>5. \A g \in Groups : group[g] # None => \E v \in Vpcs : DefaultOf[v] = g
  BY <1>1
<1>6. group \in [Groups -> Vpcs \cup {None}]
  BY <1>1
<1> QED
  BY <1>4, <1>5, <1>6

LEMMA InitInv ==
    ASSUME Init
    PROVE  Inv
<1>1. /\ rule = {} /\ eip = [p \in Eips |-> None]
      /\ instance = [i \in Instances |->
             IF i \in Loaded(LoadedInstances) THEN [state |-> "running", protected |-> FALSE] ELSE None]
      /\ eni \in [Enis -> LoadedRows \cup {None}]
      /\ \A e \in Enis : eni[e] # None <=> e \in Loaded(LoadedEnis)
      /\ \A d, e \in Loaded(LoadedEnis) : d # e => eni[d].subnet # eni[e].subnet
      /\ volume \in [Volumes -> LoadedAttachments]
      /\ Loaded(LoadedInstances) \subseteq used /\ Loaded(LoadedEnis) \subseteq used
      /\ pc = [c \in Clients |-> "idle"] /\ req = [c \in Clients |-> None] /\ seen = [c \in Clients |-> None]
      /\ inStep = TRUE
  BY DEF Init
<1>2. ASSUME NEW e \in Enis, eni[e] # None
      PROVE  /\ eni[e] \in EniRows /\ eni[e].data.instance = eni[e].instance /\ eni[e].data.public = None
             /\ eni[e].data.groups = {DefaultOf[VpcOf[eni[e].subnet]]} /\ VpcOf[eni[e].subnet] \in Vpcs
  <2>1. PICK s \in Subnets, i \in LoadedInstances \cup {None}, k \in BOOLEAN :
            eni[e] = [subnet |-> s, private |-> Hosts, instance |-> i,
                      data |-> [instance |-> i, groups |-> {DefaultOf[VpcOf[s]]}, check |-> TRUE, auto |-> FALSE,
                                keep |-> k /\ i # None, public |-> None]]
    <3> DEFINE Row(s, i, k) ==
                 [subnet |-> s, private |-> Hosts, instance |-> i,
                  data |-> [instance |-> i, groups |-> {DefaultOf[VpcOf[s]]}, check |-> TRUE, auto |-> FALSE,
                            keep |-> k /\ i # None, public |-> None]]
    <3>1. LoadedRows = {Row(s, i, k) : s \in Subnets, i \in LoadedInstances \cup {None}, k \in BOOLEAN}
      BY DEF LoadedRows
    <3> HIDE DEF Row
    <3>2. eni[e] \in LoadedRows
      BY <1>1, <1>2
    <3>3. \E s \in Subnets, i \in LoadedInstances \cup {None}, k \in BOOLEAN : eni[e] = Row(s, i, k)
      BY <3>1, <3>2
    <3> QED
      BY <3>3 DEF Row
  <2>2. VpcOf[s] \in Vpcs /\ DefaultOf[VpcOf[s]] \in Groups /\ Hosts \in 1 .. Hosts /\ i \in Instances \cup {None}
    BY InterfacesAssumption
  <2> DEFINE keep == k /\ i # None
  <2>3. keep \in BOOLEAN
    OBVIOUS
  <2>4. eni[e] = [subnet |-> s, private |-> Hosts, instance |-> i,
                  data |-> [instance |-> i, groups |-> {DefaultOf[VpcOf[s]]}, check |-> TRUE, auto |-> FALSE,
                            keep |-> keep, public |-> None]]
    BY <2>1
  <2> HIDE DEF keep
  <2> QED
    BY <2>2, <2>3, <2>4 DEF EniRows, Datas
<1>3. RowTypes
  <2>1. instance \in [Instances -> InstanceRows \cup {None}]
    <3>1. [state |-> "running", protected |-> FALSE] \in InstanceRows
      BY DEF InstanceRows
    <3> QED
      BY <1>1, <3>1
  <2>2. eni \in [Enis -> EniRows \cup {None}]
    BY <1>1, <1>2
  <2>3. ASSUME NEW v \in Volumes PROVE volume[v] \in SUBSET (Instances \X BOOLEAN)
    <3>1. volume[v] \subseteq Loaded(LoadedInstances) \X BOOLEAN
      BY <1>1 DEF LoadedAttachments
    <3>2. Loaded(LoadedInstances) \subseteq Instances
      BY InterfacesAssumption DEF Loaded
    <3> QED
      BY <3>1, <3>2
  <2> QED
    BY <1>1, <2>1, <2>2, <2>3, DefaultsAre DEF RowTypes
<1>4. RulesSound
  <2>1. 0 \in Nat
    OBVIOUS
  <2> QED
    BY <1>1, <2>1 DEF RulesSound, RulesOK, Ordered, Bounded
<1>5. Drawn
  BY <1>1, DefaultsAre DEF Drawn
<1>6. EnisSound
  <2>1. \A e \in Enis : eni[e] # None => DataFits(e, eni[e].data)
    BY <1>2, DefaultsAre DEF DataFits, OfVpc
  <2> QED
    BY <1>1, <2>1 DEF EnisSound, StoredEnis
<1>7. AddressesDiffer /\ AddressesStand
  BY <1>1 DEF AddressesDiffer, AddressesStand
<1>8. TerminatedHoldNothing
  <2>1. \A i \in Instances : instance[i] # None => instance[i].state = "running"
    BY <1>1
  <2> QED
    BY <2>1 DEF TerminatedHoldNothing
<1>9. Agreement
  <2>1. ShownOnce
    BY <1>2 DEF ShownOnce
  <2>2. ASSUME NEW e \in Enis, eni[e] # None PROVE Agrees(e)
    <3>1. \A g \in eni[e].data.groups : g \in Groups /\ group[g] # None
      <4>1. eni[e].data.groups = {DefaultOf[VpcOf[eni[e].subnet]]} /\ VpcOf[eni[e].subnet] \in Vpcs
        BY <1>2, <2>2
      <4> QED
        BY <4>1, DefaultsAre, InterfacesAssumption
    <3> QED
      BY <1>1, <1>2, <2>2, <3>1 DEF Agrees
  <2> QED
    BY <2>1, <2>2 DEF Agreement
<1>10. ClientTypes /\ \A c \in Clients : ClientOK(c)
  BY <1>1 DEF ClientTypes, ClientOK, At, OnEni
<1> QED
  BY <1>3, <1>4, <1>5, <1>6, <1>7, <1>8, <1>9, <1>10 DEF Inv, DbInv

LEMMA NextInv ==
    ASSUME Inv, Next
    PROVE  Inv'
<1>1. PICK c \in Clients : SecurityGroup(c) \/ Compute(c) \/ Interface(c) \/ Address(c)
  BY DEF Next
<1>2. CASE SecurityGroup(c)
  BY <1>2, CreateSecurityGroupInv, DeleteSecurityGroupInv, AuthorizeSecurityGroupRulesInv, InsertRulesInv,
     RevokeSecurityGroupRulesInv DEF SecurityGroup
<1>3. CASE Compute(c)
  BY <1>3, RunInstancesInv, InsertInstanceInv, ModifyInstanceAttributeInv, TerminateInstancesInv DEF Compute
<1>4. CASE Interface(c)
  BY <1>4, ModifyNetworkInterfaceAttributeInv, ReadInterfaceInv, UpdateInterfaceInv DEF Interface
<1>5. CASE Address(c)
  BY <1>5, AllocateAddressInv, ReleaseAddressInv, AssociateAddressInv, AssociateEIPInv, DisassociateAddressInv,
     ReadAssociatedInv, DisassociateEIPInv DEF Address
<1> QED
  BY <1>1, <1>2, <1>3, <1>4, <1>5

LEMMA StutterInv ==
    ASSUME Inv, UNCHANGED vars
    PROVE  Inv'
<1>1. UNCHANGED <<pc, req, seen, inStep, db>>
  BY DEF vars, db
<1> QED
  BY <1>1, DbStays, WholeIsGood

LEMMA Invariance == Spec => []Inv
<1>1. Init => Inv
  BY InitInv
<1>2. Inv /\ [Next]_vars => Inv'
  BY NextInv, StutterInv
<1> QED
  BY <1>1, <1>2, PTL DEF Spec

\* Whatever the requests overtake: a group shows the rules it was given, an interface's
\* groups are of its own VPC, and no two interfaces of a subnet have one private address.
THEOREM SpecInterfacesAreSound == Spec => []InterfacesAreSound
<1>1. Inv => InterfacesAreSound
  <2> SUFFICES ASSUME Inv PROVE InterfacesAreSound
    OBVIOUS
  <2>1. TypeOK
    <3>1. rule \subseteq RuleRows
      BY DEF Inv, DbInv, RulesSound, RulesOK
    <3> QED
      BY <3>1 DEF Inv, DbInv, RowTypes, ClientTypes, TypeOK, StoredEnis
  <2>2. RulesReadBack
    BY ReadBack DEF Inv, DbInv, RulesSound
  <2>3. \A e \in StoredEnis : \A g \in eni[e].data.groups : group[g] \in {VpcOf[eni[e].subnet], None}
    BY DEF Inv, DbInv, EnisSound, DataFits, OfVpc, StoredEnis
  <2>4. \A e, f \in StoredEnis : eni[e].subnet = eni[f].subnet /\ eni[e].private = eni[f].private => e = f
    BY DEF Inv, DbInv, EnisSound
  <2> QED
    BY <2>1, <2>2, <2>3, <2>4 DEF InterfacesAreSound
<1> QED
  BY <1>1, Invariance, PTL

\* Whatever the requests overtake: no two addresses are one IP or of one interface, an
\* associated address's interface is there, and what has terminated holds nothing.
THEOREM SpecNothingDangles == Spec => []NothingDangles
<1>1. Inv => NothingDangles
  BY DEF Inv, DbInv, AddressesDiffer, AddressesStand, TerminatedHoldNothing, NothingDangles
<1> QED
  BY <1>1, Invariance, PTL

\* As long as every write was of a row still as it was read, an interface shows the
\* address associated with it and no other, its groups are there, and no public
\* address is shown twice.
THEOREM SpecInStepTheyAgree == Spec => []InStepTheyAgree
<1>1. Inv => InStepTheyAgree
  <2> SUFFICES ASSUME Inv, inStep
               PROVE  /\ \A e \in StoredEnis :
                            LET mine == {p \in Eips : eip[p] # None /\ eip[p].eni = e} IN
                            /\ eni[e].data.instance = eni[e].instance
                            /\ eni[e].data.groups \subseteq StoredGroups
                            /\ \A p \in mine : eni[e].data.public = <<"eip", eip[p].ip>> /\ eip[p].instance = eni[e].instance
                            /\ mine = {} => eni[e].data.public = None \/ eni[e].data.public[1] = "auto"
                      /\ \A e, f \in StoredEnis :
                            eni[e].data.public # None /\ eni[e].data.public = eni[f].data.public => e = f
    BY DEF InStepTheyAgree
  <2>1. (\A e \in Enis : eni[e] # None => Agrees(e)) /\ ShownOnce
    BY DEF Inv, DbInv, Agreement
  <2> QED
    BY <2>1 DEF Agrees, ShownOnce, StoredEnis, StoredGroups
<1> QED
  BY <1>1, Invariance, PTL
=============================================================================

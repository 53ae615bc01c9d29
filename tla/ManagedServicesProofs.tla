------------------------ MODULE ManagedServicesProofs ------------------------
(***************************************************************************)
(* For any clients, names and mixes of operations: no foreign key and no   *)
(* tag outlives its parent, and a protected database goes only to a        *)
(* request that another one overtook.                                      *)
(***************************************************************************)
EXTENDS ManagedServices, TLAPS

-----------------------------------------------------------------------------
(* What requests and rows carry. *)

\* A row is under references of the kinds its table names, of its mix.
LEMMA RowShape ==
    ASSUME NEW m \in Mixes, NEW e \in m.entities, NEW r \in RowsOf(e, m)
    PROVE  /\ r.refs \subseteq m.entities \cup m.outside
           /\ \A x \in r.refs : x[1] \in Names[e[1]]
           /\ r.protected \in MayProtect(e)
           /\ r.attrs \in MayHold(e)
           /\ r # None
<1>1. r \in [refs: RefsOf(e, m), protected: MayProtect(e), attrs: MayHold(e)]
  BY DEF RowsOf
<1>2. r.refs \in RefsOf(e, m) /\ r.protected \in MayProtect(e) /\ r.attrs \in MayHold(e)
  BY <1>1
<1>3. r.refs \subseteq {x \in m.entities \cup m.outside : x[1] \in Names[e[1]]}
  BY <1>2 DEF RefsOf
<1>4. r # None
  BY NoneAssumption
<1> QED
  BY <1>2, <1>3, <1>4

\* Every entity is of a kind, and no table's foreign key is to a child.
LEMMA KindShape ==
    ASSUME NEW e \in Entities
    PROVE  /\ e[1] \in Kinds
           /\ Names[e[1]] \cap Children = {}
<1>1. e[1] \in Kinds
  BY EntitiesAssumption
<1> QED
  BY <1>1 DEF Kinds, Names, Children, Replaced, Groups

\* What IAM and EC2 hold is of other kinds.
LEMMA OutsideShape ==
    ASSUME NEW x \in Outside
    PROVE  x[1] \in {"subnet", "securityGroup", "role"}
  BY EntitiesAssumption DEF OutsideKinds

LEMMA MixShape ==
    ASSUME NEW m \in Mixes
    PROVE  m.entities \subseteq Entities /\ m.outside \subseteq Outside
  BY DEF Entities, Outside

\* A create or put is of an entity of its mix, with a row of its table; only an item
\* is updated.
LEMMA CreateShape ==
    ASSUME NEW m \in Mixes, NEW r \in Creates[m]
    PROVE  /\ r.e \in m.entities
           /\ r.row \in RowsOf(r.e, m)
           /\ r.op = "ddbUpdateItem" => r.e[1] = "item"
<1>1. PICK e \in m.entities :
          r \in [op: m.ops \cap WriteOps(e), e: {e}, row: RowsOf(e, m),
                 tags: IF Taggable(e) THEN m.tags ELSE {FALSE}]
  BY DEF Creates
<1>2. r.e = e /\ r.row \in RowsOf(e, m) /\ r.op \in WriteOps(e)
  BY <1>1
<1>3. e[1] \in Kinds
  BY KindShape, MixShape
<1>4. r.op = "ddbUpdateItem" => e[1] = "item"
  BY <1>2, <1>3 DEF WriteOps, CreateOp, Kinds, Children, Replaced, Groups
<1> QED
  BY <1>2, <1>4

LEMMA DeleteShape ==
    ASSUME NEW m \in Mixes, NEW r \in Deletes[m]
    PROVE  /\ r.e \in m.entities
           /\ r.op = DeleteOp[r.e[1]]
<1>1. PICK e \in m.entities : r \in [op: m.ops \cap {DeleteOp[e[1]]}, e: {e}]
  BY DEF Deletes
<1> QED
  BY <1>1
-----------------------------------------------------------------------------
(* The invariant: of the rows, and of what each request holds in memory. *)

RowsInv ==
    /\ mix \in Mixes
    /\ row = [e \in Entities |-> row[e]]
    /\ \A e \in Entities : row[e] # None => e \in mix.entities /\ row[e] \in RowsOf(e, mix)
    /\ tagged \subseteq Entities
    /\ outside \subseteq mix.outside
    /\ NothingOutlivesItsParent

\* A request that is to write has what it was sent with; what it has read of an item
\* is attributes.
ClientsInv ==
    /\ pc \in [Clients -> Places]
    /\ req \in [Clients -> Creates[mix] \cup Deletes[mix] \cup {None}]
    /\ todo = [c \in Clients |-> todo[c]]
    /\ got = [c \in Clients |-> got[c]]
    /\ \A c \in Clients :
          /\ (todo[c] # {}) = (pc[c] = "look")
          /\ pc[c] # "idle" => req[c] \in Creates[mix] \cup Deletes[mix]
          /\ pc[c] \in {"look", "read", "insert", "tag"} => req[c] \in Creates[mix]
          /\ todo[c] \subseteq mix.entities \cup mix.outside
          /\ got[c] # None => got[c].attrs \subseteq Attrs

IInv == RowsInv /\ ClientsInv /\ quiet \in [Clients -> BOOLEAN]

-----------------------------------------------------------------------------
(* What the statements do to the rows. *)

\* A row that is stored is of its mix and of its table.
LEMMA StoredShape ==
    ASSUME RowsInv, NEW e \in Stored
    PROVE  /\ e \in Entities /\ e \in mix.entities
           /\ row[e] \in RowsOf(e, mix)
           /\ row[e].refs \subseteq mix.entities \cup mix.outside
           /\ \A x \in row[e].refs : x[1] \in Names[e[1]]
           /\ row[e].attrs \subseteq Attrs
           /\ row[e].protected \in MayProtect(e)
<1>1. e \in Entities /\ e \in mix.entities /\ row[e] \in RowsOf(e, mix) /\ mix \in Mixes
  BY DEF RowsInv, Stored
<1> QED
  BY <1>1, RowShape DEF MayHold

\* A DELETE takes a parent's children and nothing that another row names.
LEMMA DropKeeps ==
    ASSUME RowsInv, UNCHANGED mix, NEW e \in Entities, Drop(e)
    PROVE  RowsInv'
<1>1. CASE UNCHANGED db
  BY <1>1 DEF RowsInv, NothingOutlivesItsParent, Stored, db
<1>2. CASE e \in Stored /\ ~Held(e) /\ Remove(e)
  <2> DEFINE W == WithChildren(e)
  <2>1. /\ row' = [x \in Entities |-> IF x \in W THEN None ELSE row[x]]
        /\ tagged' = tagged \ W /\ outside' = outside
    BY <1>2 DEF Remove
  <2>2. Stored' = Stored \ W
    BY <2>1 DEF Stored
  <2>3. \A x \in Stored \ W : row'[x] = row[x]
    BY <2>1 DEF Stored
  <2>4. ASSUME NEW x \in Stored \ W, NEW y \in row[x].refs \ Outside
        PROVE  y \in Stored \ W
    <3>1. y \in Stored
      BY DEF RowsInv, NothingOutlivesItsParent
    <3>2. y[1] \in Names[x[1]] /\ x \in Entities
      BY StoredShape
    <3>3. y[1] \notin Children
      BY <3>2, KindShape
    <3>4. y # e
      BY <1>2 DEF Held, WithChildren
    <3> QED
      BY <3>1, <3>3, <3>4 DEF WithChildren
  <2>5. NothingOutlivesItsParent'
    BY <2>1, <2>2, <2>3, <2>4 DEF NothingOutlivesItsParent, RowsInv
  <2>6. /\ row' = [x \in Entities |-> row'[x]]
        /\ \A x \in Entities : row'[x] # None => x \in mix.entities /\ row'[x] \in RowsOf(x, mix)
    BY <2>1 DEF RowsInv
  <2> QED
    BY <2>1, <2>5, <2>6 DEF RowsInv
<1> QED
  BY <1>1, <1>2 DEF Drop

\* An INSERT adds a row that its foreign keys let in.
LEMMA InsertRowKeeps ==
    ASSUME RowsInv, UNCHANGED <<mix, tagged, outside>>, NEW e \in mix.entities, NEW r \in RowsOf(e, mix),
           KeysHold(e, r.refs), InsertRow(e, r)
    PROVE  RowsInv'
<1>1. /\ mix \in Mixes /\ e \in Entities
      /\ mix.entities \subseteq Entities /\ mix.outside \subseteq Outside
  BY MixShape DEF RowsInv
<1>2. r # None /\ r.refs \subseteq mix.entities \cup mix.outside
  BY <1>1, RowShape
<1>3. row' = [x \in Entities |-> IF x = e THEN r ELSE row[x]]
  BY <1>1 DEF InsertRow, RowsInv
<1>4. Stored' = Stored \cup {e}
  BY <1>1, <1>2, <1>3 DEF Stored
<1>5. r.refs \ Outside \subseteq Stored'
  BY <1>1, <1>2, <1>4 DEF KeysHold, Stored
<1>6. \A x \in Stored : row[x].refs \ Outside \subseteq Stored /\ tagged \subseteq Stored
  BY DEF RowsInv, NothingOutlivesItsParent
<1>7. NothingOutlivesItsParent'
  <2>1. \A x \in Stored' : row'[x].refs \ Outside \subseteq Stored'
    BY <1>1, <1>3, <1>4, <1>5, <1>6 DEF Stored
  <2>2. tagged' \subseteq Stored'
    BY <1>4 DEF RowsInv, NothingOutlivesItsParent
  <2> QED
    BY <2>1, <2>2 DEF NothingOutlivesItsParent
<1>8. \A x \in Entities : row'[x] # None => x \in mix.entities /\ row'[x] \in RowsOf(x, mix)
  BY <1>3 DEF RowsInv
<1> QED
  BY <1>1, <1>3, <1>7, <1>8 DEF RowsInv

LEMMA SameRowsKeep ==
    ASSUME RowsInv, UNCHANGED mix, UNCHANGED db
    PROVE  RowsInv'
  BY DEF RowsInv, NothingOutlivesItsParent, Stored, db

LEMMA PutTagsKeep ==
    ASSUME RowsInv, UNCHANGED mix, NEW e, PutTags(e)
    PROVE  RowsInv'
<1>1. e \in Stored /\ e \in Entities /\ tagged' = tagged \cup {e} /\ row' = row /\ outside' = outside
  BY DEF PutTags, Stored
<1>2. Stored' = Stored
  BY <1>1 DEF Stored
<1> QED
  BY <1>1, <1>2 DEF RowsInv, NothingOutlivesItsParent
-----------------------------------------------------------------------------
(* What the statements do to the request they are of. *)

\* A step gives one client a place p, a request r, lookups t and a row g it has read.
LEMMA MoveKeeps ==
    ASSUME ClientsInv, UNCHANGED mix, NEW c \in Clients,
           NEW p \in Places, NEW r \in Creates[mix] \cup Deletes[mix] \cup {None}, NEW t, NEW g,
           pc' = [pc EXCEPT ![c] = p], req' = [req EXCEPT ![c] = r],
           todo' = [todo EXCEPT ![c] = t], got' = [got EXCEPT ![c] = g],
           t # {} <=> p = "look",
           p # "idle" => r \in Creates[mix] \cup Deletes[mix],
           p \in {"look", "read", "insert", "tag"} => r \in Creates[mix],
           t \subseteq mix.entities \cup mix.outside,
           g # None => g.attrs \subseteq Attrs
    PROVE  ClientsInv'
<1>1. /\ pc' \in [Clients -> Places]
      /\ req' \in [Clients -> Creates[mix] \cup Deletes[mix] \cup {None}]
      /\ todo' = [d \in Clients |-> todo'[d]]
      /\ got' = [d \in Clients |-> got'[d]]
  BY DEF ClientsInv
<1>2. pc'[c] = p /\ req'[c] = r /\ todo'[c] = t /\ got'[c] = g
  BY DEF ClientsInv
<1>3. \A d \in Clients \ {c} :
          pc'[d] = pc[d] /\ req'[d] = req[d] /\ todo'[d] = todo[d] /\ got'[d] = got[d]
  BY DEF ClientsInv
<1>4. \A d \in Clients :
          /\ (todo'[d] # {}) = (pc'[d] = "look")
          /\ pc'[d] # "idle" => req'[d] \in Creates[mix] \cup Deletes[mix]
          /\ pc'[d] \in {"look", "read", "insert", "tag"} => req'[d] \in Creates[mix]
          /\ todo'[d] \subseteq mix.entities \cup mix.outside
          /\ got'[d] # None => got'[d].attrs \subseteq Attrs
  <2> TAKE d \in Clients
  <2>1. CASE d = c
    BY <1>2, <2>1
  <2>2. CASE d # c
    BY <1>3, <2>2 DEF ClientsInv
  <2> QED
    BY <2>1, <2>2
<1> QED
  BY <1>1, <1>4 DEF ClientsInv

LEMMA EndKeeps ==
    ASSUME ClientsInv, UNCHANGED mix, NEW c \in Clients, End(c)
    PROVE  ClientsInv' /\ pc'[c] = "idle"
<1>1. "idle" \in Places
  BY DEF Places
<1>2. ClientsInv'
  BY <1>1, MoveKeeps DEF End
<1> QED
  BY <1>2 DEF End, ClientsInv

LEMMA GotoKeeps ==
    ASSUME ClientsInv, UNCHANGED mix, NEW c \in Clients, NEW p \in {"get", "count", "delete", "tag"},
           pc[c] \notin {"idle", "look"}, p = "tag" => pc[c] = "insert", Goto(c, p)
    PROVE  ClientsInv' /\ pc'[c] = p
<1>1. p \in Places /\ p # "look" /\ p # "idle" /\ todo[c] = {}
  BY DEF Places, ClientsInv
<1>2. req' = [req EXCEPT ![c] = req[c]] /\ todo' = [todo EXCEPT ![c] = todo[c]]
          /\ got' = [got EXCEPT ![c] = got[c]]
  BY DEF Goto, ClientsInv
<1>3. pc' = [pc EXCEPT ![c] = p]
  BY DEF Goto
<1>4. req[c] \in Creates[mix] \cup Deletes[mix] /\ (p = "tag" => req[c] \in Creates[mix])
  BY DEF ClientsInv
<1>5. got[c] # None => got[c].attrs \subseteq Attrs
  BY DEF ClientsInv
<1>6. p \in {"look", "read", "insert", "tag"} => req[c] \in Creates[mix]
  BY <1>4
<1>7. ClientsInv'
  BY <1>1, <1>2, <1>3, <1>4, <1>5, <1>6, MoveKeeps
<1> QED
  BY <1>3, <1>7 DEF ClientsInv

LEMMA BeginKeeps ==
    ASSUME ClientsInv, UNCHANGED mix, NEW c \in Clients, NEW p \in Places \ {"idle", "read", "tag"},
           NEW r \in Creates[mix] \cup Deletes[mix], NEW t \in SUBSET (mix.entities \cup mix.outside),
           t # {} <=> p = "look", p \in {"look", "insert"} => r \in Creates[mix], Begin(c, p, r, t)
    PROVE  ClientsInv'
<1>1. got' = [got EXCEPT ![c] = got[c]] /\ (got[c] # None => got[c].attrs \subseteq Attrs)
  BY DEF Begin, ClientsInv
<1>2. pc' = [pc EXCEPT ![c] = p] /\ req' = [req EXCEPT ![c] = r] /\ todo' = [todo EXCEPT ![c] = t]
  BY DEF Begin
<1> QED
  BY <1>1, <1>2, MoveKeeps

LEMMA StillKeeps ==
    ASSUME ClientsInv, UNCHANGED <<mix, pc, req, todo, got>>
    PROVE  ClientsInv'
  BY DEF ClientsInv
-----------------------------------------------------------------------------
(* The shapes a handler's statements have, one lemma each. *)

\* The other requests stay where they are.
OthersStay(c) == \A d \in Clients \ {c} : pc'[d] = pc[d] /\ req'[d] = req[d]

\* A request comes to a DELETE, or to the count before one, with a row that is not
\* protected as it was read.
ReadsProtection(c) ==
    pc'[c] \in {"count", "delete"} =>
        /\ row' = row /\ req'[c] = req[c]
        /\ pc[c] = "count" \/ (req[c].e \in Stored => ~row[req[c].e].protected)

\* A protected row goes only to its own DELETE, after it was read.
TakesByDelete(c) ==
    \A e \in Stored : row[e].protected /\ row'[e] = None =>
        pc[c] = "delete" /\ pc'[c] # "delete" /\ req[c].e = e

SoundStep(c) == RowsInv' /\ ClientsInv' /\ OthersStay(c) /\ ReadsProtection(c) /\ TakesByDelete(c)

LEMMA SameRowStep ==
    ASSUME NEW c \in Clients, RowsInv', ClientsInv', OthersStay(c), ReadsProtection(c), row' = row
    PROVE  SoundStep(c)
  BY DEF SoundStep, TakesByDelete, Stored

LEMMA EndStep ==
    ASSUME RowsInv, ClientsInv, UNCHANGED <<mix, db>>, NEW c \in Clients, End(c)
    PROVE  SoundStep(c)
<1>1. RowsInv' /\ ClientsInv' /\ row' = row /\ pc'[c] = "idle"
  BY SameRowsKeep, EndKeeps DEF db
<1>2. OthersStay(c)
  BY DEF End, OthersStay, ClientsInv
<1> QED
  BY <1>1, <1>2, SameRowStep DEF ReadsProtection

LEMMA GotoStep ==
    ASSUME RowsInv, ClientsInv, UNCHANGED <<mix, db>>, NEW c \in Clients,
           NEW p \in {"get", "count", "delete"}, pc[c] \notin {"idle", "look"}, Goto(c, p),
           p = "get" \/ pc[c] = "count" \/ (req[c].e \in Stored => ~row[req[c].e].protected)
    PROVE  SoundStep(c)
<1>1. RowsInv' /\ ClientsInv' /\ row' = row /\ pc'[c] = p
  BY SameRowsKeep, GotoKeeps DEF db
<1>2. OthersStay(c) /\ req' = req
  BY DEF Goto, OthersStay, ClientsInv
<1> QED
  BY <1>1, <1>2, SameRowStep DEF ReadsProtection

LEMMA BeginStep ==
    ASSUME RowsInv, ClientsInv, UNCHANGED mix, NEW c \in Clients, NEW p \in {"look", "insert", "get"},
           NEW r \in Creates[mix] \cup Deletes[mix], NEW t \in SUBSET (mix.entities \cup mix.outside),
           t # {} <=> p = "look", p \in {"look", "insert"} => r \in Creates[mix], Begin(c, p, r, t)
    PROVE  SoundStep(c)
<1>1. p \in Places \ {"idle", "read", "tag"}
  BY DEF Places
<1>2. ClientsInv'
  BY <1>1, BeginKeeps
<1>3. UNCHANGED db /\ pc' = [pc EXCEPT ![c] = p] /\ req' = [req EXCEPT ![c] = r]
  BY DEF Begin
<1>4. RowsInv' /\ row' = row
  BY <1>3, SameRowsKeep DEF db
<1>5. OthersStay(c) /\ pc'[c] = p
  BY <1>3 DEF OthersStay, ClientsInv
<1> QED
  BY <1>2, <1>4, <1>5, SameRowStep DEF ReadsProtection

\* A handler takes a create in, with what it names to look up.
LEMMA ReceiveStep ==
    ASSUME RowsInv, ClientsInv, UNCHANGED mix, NEW c \in Clients, NEW o, Receive(c, o)
    PROVE  SoundStep(c)
<1>1. PICK r \in Creates[mix] :
          Begin(c, IF LookedUp(r.e, r.row.refs) = {} THEN "insert" ELSE "look", r, LookedUp(r.e, r.row.refs))
  BY DEF Receive
<1> DEFINE t == LookedUp(r.e, r.row.refs)
<1> DEFINE p == IF t = {} THEN "insert" ELSE "look"
<1>2. r.e \in mix.entities /\ r.row \in RowsOf(r.e, mix) /\ mix \in Mixes
  BY CreateShape DEF RowsInv
<1>3. r.row.refs \subseteq mix.entities \cup mix.outside
  BY <1>2, RowShape
<1>4. t \in SUBSET (mix.entities \cup mix.outside)
  BY <1>3 DEF LookedUp
<1>5. p \in {"look", "insert", "get"} /\ (t # {} <=> p = "look")
  OBVIOUS
<1>6. Begin(c, p, r, t)
  BY <1>1
<1> HIDE DEF t, p
<1> QED
  BY <1>4, <1>5, <1>6, BeginStep

\* A lookup that finds its row leaves the rest of them, or none.
LEMMA LookUpStep ==
    ASSUME RowsInv, ClientsInv, UNCHANGED mix, NEW c \in Clients, NEW o, LookUp(c, o)
    PROVE  SoundStep(c)
<1>1. UNCHANGED db /\ RowsInv' /\ row' = row /\ pc[c] = "look"
  BY SameRowsKeep DEF LookUp, db, At
<1>2. CASE End(c)
  BY <1>1, <1>2, EndStep
<1>3. ASSUME NEW x \in todo[c], Exists(x),
             todo' = [todo EXCEPT ![c] = @ \ {x}],
             got' = IF x[1] = "eksCluster" THEN [got EXCEPT ![c] = row[x]] ELSE got,
             pc' = [pc EXCEPT ![c] = IF todo[c] = {x} THEN LookedUpAll(o) ELSE "look"],
             UNCHANGED req
      PROVE  SoundStep(c)
  <2> DEFINE t == todo[c] \ {x}
  <2> DEFINE p == IF todo[c] = {x} THEN LookedUpAll(o) ELSE "look"
  <2> DEFINE g == IF x[1] = "eksCluster" THEN row[x] ELSE got[c]
  <2>1. /\ todo' = [todo EXCEPT ![c] = t] /\ pc' = [pc EXCEPT ![c] = p]
        /\ got' = [got EXCEPT ![c] = g] /\ req' = [req EXCEPT ![c] = req[c]]
    BY <1>3 DEF ClientsInv
  <2>2. t \subseteq mix.entities \cup mix.outside /\ req[c] \in Creates[mix]
            /\ (got[c] # None => got[c].attrs \subseteq Attrs)
    BY <1>1 DEF ClientsInv
  <2>3. x[1] = "eksCluster" => x \in Stored
    <3>1. outside \subseteq Outside
      BY MixShape DEF RowsInv
    <3> QED
      BY <1>3, <3>1, OutsideShape DEF Exists
  <2>4. g # None => g.attrs \subseteq Attrs
    BY <2>2, <2>3, StoredShape
  <2>5. p \in {"look", "read", "insert"} /\ p \in Places /\ (t # {} <=> p = "look")
    BY DEF LookedUpAll, Places
  <2>6. ClientsInv'
    <3> HIDE DEF t, p, g
    <3> QED
      BY <2>1, <2>2, <2>4, <2>5, MoveKeeps
  <2>7. OthersStay(c) /\ pc'[c] = p
    BY <2>1 DEF OthersStay, ClientsInv
  <2> QED
    BY <1>1, <2>5, <2>6, <2>7, SameRowStep DEF ReadsProtection
<1> QED
  BY <1>2, <1>3 DEF LookUp

LEMMA GetItemStep ==
    ASSUME RowsInv, ClientsInv, UNCHANGED mix, NEW c \in Clients, NEW o, GetDynamoDBItem(c, o)
    PROVE  SoundStep(c)
<1> DEFINE g == row[req[c].e]
<1>1. UNCHANGED db /\ RowsInv' /\ row' = row /\ pc[c] = "read"
  BY SameRowsKeep DEF GetDynamoDBItem, db, At
<1>2. /\ todo' = [todo EXCEPT ![c] = todo[c]] /\ pc' = [pc EXCEPT ![c] = "insert"]
      /\ got' = [got EXCEPT ![c] = g] /\ req' = [req EXCEPT ![c] = req[c]]
  BY DEF GetDynamoDBItem, ClientsInv
<1>3. req[c] \in Creates[mix] /\ todo[c] = {} /\ mix \in Mixes
  BY <1>1 DEF ClientsInv, RowsInv
<1>4. req[c].e \in Entities
  BY <1>3, CreateShape, MixShape
<1>5. g # None => g.attrs \subseteq Attrs
  BY <1>4, StoredShape DEF Stored
<1>6. ClientsInv'
  <2>1. "insert" \in Places
    BY DEF Places
  <2> HIDE DEF g
  <2> QED
    BY <1>2, <1>3, <1>5, <2>1, MoveKeeps
<1>7. OthersStay(c) /\ pc'[c] = "insert"
  BY <1>2 DEF OthersStay, ClientsInv
<1> QED
  BY <1>1, <1>6, <1>7, SameRowStep DEF ReadsProtection

\* What a request inserts is a row of its table, merged with an item's or not.
LEMMA MergedShape ==
    ASSUME RowsInv, ClientsInv, NEW c \in Clients, pc[c] = "insert"
    PROVE  /\ req[c].e \in mix.entities /\ Merged(c) \in RowsOf(req[c].e, mix)
           /\ req[c] \in Creates[mix]
<1> DEFINE e == req[c].e
<1>1. req[c] \in Creates[mix] /\ mix \in Mixes /\ (got[c] # None => got[c].attrs \subseteq Attrs)
  BY DEF ClientsInv, RowsInv
<1>2. /\ e \in mix.entities /\ req[c].row \in RowsOf(e, mix)
      /\ req[c].op = "ddbUpdateItem" => e[1] = "item"
  BY <1>1, CreateShape
<1>3. CASE req[c].op = "ddbUpdateItem" /\ got[c] # None
  <2>1. Merged(c) = [req[c].row EXCEPT !.attrs = @ \cup got[c].attrs]
    BY <1>3 DEF Merged
  <2>2. req[c].row \in [refs: RefsOf(e, mix), protected: MayProtect(e), attrs: SUBSET Attrs]
            /\ RowsOf(e, mix) = [refs: RefsOf(e, mix), protected: MayProtect(e), attrs: SUBSET Attrs]
    BY <1>2, <1>3 DEF RowsOf, MayHold
  <2>3. req[c].row.attrs \cup got[c].attrs \in SUBSET Attrs
    BY <1>1, <1>3, <2>2
  <2> QED
    BY <1>1, <1>2, <2>1, <2>2, <2>3
<1>4. CASE ~(req[c].op = "ddbUpdateItem" /\ got[c] # None)
  BY <1>1, <1>2, <1>4 DEF Merged
<1> QED
  BY <1>3, <1>4

LEMMA InsertStep ==
    ASSUME RowsInv, ClientsInv, UNCHANGED mix, NEW c \in Clients, NEW o, NEW fits, Insert(c, o, fits)
    PROVE  SoundStep(c)
<1> DEFINE e == req[c].e  r == Merged(c)
<1>1. pc[c] = "insert" /\ mix \in Mixes
  BY DEF Insert, At, RowsInv
<1>2. e \in mix.entities /\ r \in RowsOf(e, mix) /\ e \in Entities
  BY <1>1, MergedShape, MixShape
<1>3. CASE End(c) /\ UNCHANGED db
  BY <1>3, EndStep
<1>4. CASE /\ KeysHold(e, r.refs) /\ InsertRow(e, r) /\ UNCHANGED <<tagged, outside>>
           /\ Goto(c, "tag") \/ End(c)
  <2>1. RowsInv'
    <3> HIDE DEF e, r
    <3> QED
      BY <1>2, <1>4, InsertRowKeeps
  <2>2. ClientsInv' /\ pc'[c] \in {"idle", "tag"}
    BY <1>1, <1>4, EndKeeps, GotoKeeps
  <2>3. OthersStay(c)
    BY <1>4 DEF End, Goto, OthersStay, ClientsInv
  <2>4. \A x \in Stored : row'[x] # None
    <3>1. r # None
      BY <1>1, <1>2, RowShape
    <3>2. row' = [row EXCEPT ![e] = r]
      BY <1>4 DEF InsertRow
    <3> QED
      BY <1>2, <3>1, <3>2 DEF Stored, RowsInv
  <2> QED
    BY <2>1, <2>2, <2>3, <2>4 DEF SoundStep, ReadsProtection, TakesByDelete
<1> QED
  BY <1>3, <1>4 DEF Insert

\* Of a DELETE's rows only the one it names may be protected: no child is.
LEMMA DropTakes ==
    ASSUME RowsInv, NEW e \in Entities, Drop(e), NEW x \in Stored, row[x].protected, row'[x] = None
    PROVE  x = e
<1>1. CASE UNCHANGED db
  BY <1>1 DEF db, Stored
<1>2. CASE Remove(e)
  <2>1. x \in WithChildren(e)
    BY <1>2 DEF Remove, Stored
  <2>2. x[1] \notin Children
    BY StoredShape DEF MayProtect, Children, Replaced
  <2> QED
    BY <2>1, <2>2 DEF WithChildren
<1> QED
  BY <1>1, <1>2 DEF Drop

\* A DELETE that ends a request.
LEMMA DropEndStep ==
    ASSUME RowsInv, ClientsInv, UNCHANGED mix, NEW c \in Clients, pc[c] = "delete", Drop(req[c].e), End(c)
    PROVE  SoundStep(c)
<1>1. req[c].e \in Entities
  BY CreateShape, DeleteShape, MixShape DEF ClientsInv, RowsInv
<1>2. RowsInv' /\ ClientsInv' /\ pc'[c] = "idle"
  BY <1>1, DropKeeps, EndKeeps
<1>3. OthersStay(c)
  BY DEF End, OthersStay, ClientsInv
<1>4. TakesByDelete(c)
  BY <1>1, <1>2, DropTakes DEF TakesByDelete
<1> QED
  BY <1>2, <1>3, <1>4 DEF SoundStep, ReadsProtection

\* A delete that is one DELETE is of a row that is never protected.
LEMMA DeleteRowStep ==
    ASSUME RowsInv, ClientsInv, UNCHANGED mix, NEW c \in Clients, NEW o,
           o \notin {"DeleteDBCluster", "DeleteDBInstance"}, DeleteRow(c, o)
    PROVE  SoundStep(c)
<1>1. CASE \E r \in Deletes[mix] : r.op = o /\ Whole(c) /\ Drop(r.e)
  <2>1. PICK r \in Deletes[mix] : r.op = o /\ Whole(c) /\ Drop(r.e)
    BY <1>1
  <2>2. r.e \in mix.entities /\ r.e \in Entities /\ o = DeleteOp[r.e[1]]
    BY <2>1, DeleteShape, MixShape DEF RowsInv
  <2>3. r.e[1] \notin {"dbCluster", "dbInstance"}
    BY <2>2 DEF DeleteOp
  <2>4. RowsInv' /\ ClientsInv' /\ OthersStay(c) /\ pc'[c] = "idle"
    BY <2>1, <2>2, DropKeeps, StillKeeps DEF Whole, OthersStay
  <2>5. \A x \in Stored : ~(row[x].protected /\ row'[x] = None)
    BY <2>1, <2>2, <2>3, DropTakes, StoredShape DEF MayProtect
  <2> QED
    BY <2>4, <2>5 DEF SoundStep, ReadsProtection, TakesByDelete
<1>2. CASE At(c, "delete", o) /\ Drop(req[c].e) /\ End(c)
  BY <1>2, DropEndStep DEF At
<1> QED
  BY <1>1, <1>2 DEF DeleteRow

LEMMA ReadProtectionStep ==
    ASSUME RowsInv, ClientsInv, UNCHANGED mix, NEW c \in Clients, NEW o, NEW next \in {"count", "delete"},
           ReadProtection(c, o, next)
    PROVE  SoundStep(c)
<1>1. pc[c] = "get" /\ UNCHANGED db
  BY DEF ReadProtection, At
<1>2. CASE End(c)
  BY <1>1, <1>2, EndStep
<1>3. CASE Unprotected(req[c].e) /\ Goto(c, next)
  BY <1>1, <1>3, GotoStep DEF Unprotected
<1> QED
  BY <1>2, <1>3 DEF ReadProtection

\* A delete that reads deletion_protection first.
LEMMA BeginDeleteStep ==
    ASSUME RowsInv, ClientsInv, UNCHANGED mix, NEW c \in Clients,
           NEW r \in Deletes[mix], Begin(c, "get", r, {})
    PROVE  SoundStep(c)
  BY BeginStep

LEMMA DeleteDBClusterStep ==
    ASSUME RowsInv, ClientsInv, UNCHANGED mix, NEW c \in Clients, NEW o, DeleteDBCluster(c, o)
    PROVE  SoundStep(c)
<1>1. CASE \E r \in Deletes[mix] : r.op = o /\ Begin(c, "get", r, {})
  BY <1>1, BeginDeleteStep
<1>2. CASE ReadProtection(c, o, "delete")
  BY <1>2, ReadProtectionStep
<1>3. CASE At(c, "delete", o) /\ Drop(req[c].e) /\ End(c)
  BY <1>3, DropEndStep DEF At
<1> QED
  BY <1>1, <1>2, <1>3 DEF DeleteDBCluster

LEMMA DeleteDBInstanceStep ==
    ASSUME RowsInv, ClientsInv, UNCHANGED mix, NEW c \in Clients, NEW o, DeleteDBInstance(c, o)
    PROVE  SoundStep(c)
<1>1. CASE \E r \in Deletes[mix] : r.op = o /\ Begin(c, "get", r, {})
  BY <1>1, BeginDeleteStep
<1>2. CASE ReadProtection(c, o, "count")
  BY <1>2, ReadProtectionStep
<1>3. CASE At(c, "count", o) /\ (End(c) \/ Goto(c, "delete")) /\ UNCHANGED db
  BY <1>3, EndStep, GotoStep DEF At
<1>4. CASE At(c, "delete", o) /\ Drop(req[c].e) /\ End(c)
  BY <1>4, DropEndStep DEF At
<1> QED
  BY <1>1, <1>2, <1>3, <1>4 DEF DeleteDBInstance

\* The tags of what was created, or the way to its undo.
LEMMA tagCreatedStep ==
    ASSUME RowsInv, ClientsInv, UNCHANGED mix, NEW c \in Clients, NEW o, NEW undo \in {"get", "delete"},
           tagCreated(c, o, undo)
    PROVE  SoundStep(c)
<1>1. CASE pc[c] = "tag" /\ PutTags(req[c].e) /\ End(c)
  <2>1. RowsInv' /\ ClientsInv' /\ row' = row /\ pc'[c] = "idle"
    BY <1>1, PutTagsKeep, EndKeeps DEF PutTags
  <2>2. OthersStay(c)
    BY <1>1 DEF End, OthersStay, ClientsInv
  <2> QED
    BY <2>1, <2>2, SameRowStep DEF ReadsProtection
<1>2. CASE pc[c] = "tag" /\ ~Exists(req[c].e) /\ Goto(c, undo) /\ UNCHANGED db
  BY <1>2, GotoStep DEF Exists
<1> QED
  BY <1>1, <1>2 DEF tagCreated, At

LEMMA TagStep ==
    ASSUME RowsInv, ClientsInv, UNCHANGED mix, NEW c \in Clients, TagResource(c) \/ UntagResource(c)
    PROVE  SoundStep(c)
<1>1. Whole(c) /\ row' = row /\ outside' = outside
  BY DEF TagResource, UntagResource, PutTags
<1>2. RowsInv'
  <2>1. CASE TagResource(c)
    BY <2>1, PutTagsKeep DEF TagResource
  <2>2. CASE UntagResource(c)
    BY <1>1, <2>2 DEF UntagResource, RowsInv, NothingOutlivesItsParent, Stored
  <2> QED
    BY <2>1, <2>2
<1>3. ClientsInv' /\ OthersStay(c) /\ pc'[c] = "idle"
  BY <1>1, StillKeeps DEF Whole, OthersStay
<1> QED
  BY <1>1, <1>2, <1>3, SameRowStep DEF ReadsProtection
-----------------------------------------------------------------------------
(* The handlers, each a disjunction of the above. *)

LEMMA rdsStep ==
    ASSUME RowsInv, ClientsInv, UNCHANGED mix, NEW c \in Clients,
           \/ rdsCreateDBSubnetGroup(c) \/ rdsDeleteDBSubnetGroup(c)
           \/ rdsCreateDBParameterGroup(c) \/ rdsDeleteDBParameterGroup(c)
           \/ rdsCreateDBClusterParameterGroup(c) \/ rdsDeleteDBClusterParameterGroup(c)
           \/ rdsCreateDBCluster(c) \/ rdsDeleteDBCluster(c)
           \/ rdsCreateDBInstance(c) \/ rdsDeleteDBInstance(c)
    PROVE  SoundStep(c)
<1>1. CASE rdsCreateDBSubnetGroup(c)
  BY <1>1, ReceiveStep, LookUpStep, InsertStep, tagCreatedStep, DeleteRowStep
     DEF rdsCreateDBSubnetGroup, CreateDBSubnetGroup
<1>2. CASE rdsCreateDBParameterGroup(c)
  BY <1>2, ReceiveStep, InsertStep, tagCreatedStep, DeleteRowStep
     DEF rdsCreateDBParameterGroup, CreateDBParameterGroup
<1>3. CASE rdsCreateDBClusterParameterGroup(c)
  BY <1>3, ReceiveStep, InsertStep, tagCreatedStep, DeleteRowStep
     DEF rdsCreateDBClusterParameterGroup, CreateDBClusterParameterGroup
<1>4. CASE rdsCreateDBCluster(c)
  BY <1>4, ReceiveStep, LookUpStep, InsertStep, tagCreatedStep, DeleteDBClusterStep
     DEF rdsCreateDBCluster, CreateDBCluster
<1>5. CASE rdsCreateDBInstance(c)
  BY <1>5, ReceiveStep, LookUpStep, InsertStep, tagCreatedStep, DeleteDBInstanceStep
     DEF rdsCreateDBInstance, CreateDBInstance
<1>6. CASE rdsDeleteDBSubnetGroup(c) \/ rdsDeleteDBParameterGroup(c) \/ rdsDeleteDBClusterParameterGroup(c)
  BY <1>6, DeleteRowStep
     DEF rdsDeleteDBSubnetGroup, rdsDeleteDBParameterGroup, rdsDeleteDBClusterParameterGroup
<1>7. CASE rdsDeleteDBCluster(c) \/ rdsDeleteDBInstance(c)
  BY <1>7, DeleteDBClusterStep, DeleteDBInstanceStep DEF rdsDeleteDBCluster, rdsDeleteDBInstance
<1> QED
  BY <1>1, <1>2, <1>3, <1>4, <1>5, <1>6, <1>7

LEMMA eksStep ==
    ASSUME RowsInv, ClientsInv, UNCHANGED mix, NEW c \in Clients,
           \/ eksCreateCluster(c) \/ eksDeleteCluster(c)
           \/ eksCreateNodeGroup(c) \/ eksDeleteNodeGroup(c)
           \/ eksCreateAddon(c) \/ eksDeleteAddon(c)
    PROVE  SoundStep(c)
<1>1. CASE eksCreateCluster(c)
  BY <1>1, ReceiveStep, LookUpStep, InsertStep, tagCreatedStep, DeleteRowStep
     DEF eksCreateCluster, CreateEKSCluster
<1>2. CASE eksCreateNodeGroup(c)
  BY <1>2, ReceiveStep, LookUpStep, InsertStep, tagCreatedStep, DeleteRowStep
     DEF eksCreateNodeGroup, CreateEKSNodeGroup
<1>3. CASE eksCreateAddon(c)
  BY <1>3, ReceiveStep, LookUpStep, InsertStep, tagCreatedStep, DeleteRowStep
     DEF eksCreateAddon, CreateEKSAddon
<1>4. CASE eksDeleteCluster(c) \/ eksDeleteNodeGroup(c) \/ eksDeleteAddon(c)
  BY <1>4, DeleteRowStep DEF eksDeleteCluster, eksDeleteNodeGroup, eksDeleteAddon
<1> QED
  BY <1>1, <1>2, <1>3, <1>4

LEMMA ddbStep ==
    ASSUME RowsInv, ClientsInv, UNCHANGED mix, NEW c \in Clients,
           \/ ddbCreateTable(c) \/ ddbDeleteTable(c)
           \/ ddbPutItem(c) \/ ddbUpdateItem(c) \/ ddbDeleteItem(c)
    PROVE  SoundStep(c)
<1>1. CASE ddbCreateTable(c)
  BY <1>1, ReceiveStep, InsertStep, tagCreatedStep, DeleteRowStep DEF ddbCreateTable, CreateDynamoDBTable
<1>2. CASE ddbPutItem(c)
  BY <1>2, ReceiveStep, LookUpStep, InsertStep DEF ddbPutItem, PutDynamoDBItem
<1>3. CASE ddbUpdateItem(c)
  BY <1>3, ReceiveStep, LookUpStep, GetItemStep, InsertStep DEF ddbUpdateItem, PutDynamoDBItem
<1>4. CASE ddbDeleteTable(c) \/ ddbDeleteItem(c)
  BY <1>4, DeleteRowStep DEF ddbDeleteTable, ddbDeleteItem
<1> QED
  BY <1>1, <1>2, <1>3, <1>4

LEMMA s3Step ==
    ASSUME RowsInv, ClientsInv, UNCHANGED mix, NEW c \in Clients,
           s3PutBucket(c) \/ s3DeleteBucket(c) \/ s3PutConfig(c) \/ s3DeleteConfig(c)
    PROVE  SoundStep(c)
<1>1. CASE s3PutBucket(c)
  BY <1>1, ReceiveStep, InsertStep DEF s3PutBucket, CreateBucket
<1>2. CASE s3PutConfig(c)
  BY <1>2, ReceiveStep, LookUpStep, InsertStep DEF s3PutConfig, PutBucketConfig
<1>3. CASE s3DeleteBucket(c) \/ s3DeleteConfig(c)
  BY <1>3, DeleteRowStep DEF s3DeleteBucket, s3DeleteConfig
<1> QED
  BY <1>1, <1>2, <1>3

LEMMA HandleStep ==
    ASSUME RowsInv, ClientsInv, UNCHANGED mix, NEW c \in Clients, Handle(c)
    PROVE  SoundStep(c)
  BY rdsStep, eksStep, ddbStep, s3Step, TagStep DEF Handle

\* EC2 and IAM write no row of these services.
LEMMA OutsideStep ==
    ASSUME RowsInv, ClientsInv, ForgetOutside \/ CreateRole,
           UNCHANGED <<mix, row, tagged, pc, req, todo, got>>
    PROVE  RowsInv' /\ ClientsInv'
<1>1. outside' \subseteq mix.outside
  BY DEF ForgetOutside, CreateRole, RowsInv
<1> QED
  BY <1>1, StillKeeps DEF RowsInv, NothingOutlivesItsParent, Stored
-----------------------------------------------------------------------------
(* The inductive invariant. *)

\* What a request on its way to a DELETE read of its row still holds while no other
\* step has written one.
ProtInv ==
    \A c \in Clients : pc[c] \in {"count", "delete"} /\ quiet[c] =>
        (req[c].e \in Stored => ~row[req[c].e].protected)

LEMMA InitInv == Init => IInv /\ ProtInv
<1> SUFFICES ASSUME Init PROVE IInv /\ ProtInv
  OBVIOUS
<1>1. Stored = {}
  BY DEF Init, Stored
<1>2. RowsInv
  BY <1>1 DEF Init, RowsInv, NothingOutlivesItsParent
<1>3. ClientsInv
  BY DEF Init, ClientsInv, Places
<1> QED
  BY <1>2, <1>3 DEF Init, IInv, ProtInv

\* A request is quiet after a step only if it was before, or has ended; a step that
\* writes a row, here or in EC2 or IAM, leaves no other request under way quiet.
LEMMA QuietStep ==
    ASSUME IInv, NEW c \in Clients,
           LET seen == IF UNCHANGED <<row, outside>> THEN quiet ELSE Disturbed(Clients \ {c})
           IN quiet' = [seen EXCEPT ![c] = @ \/ pc'[c] = "idle"]
    PROVE  /\ quiet' \in [Clients -> BOOLEAN]
           /\ quiet'[c] => quiet[c] \/ pc'[c] = "idle"
           /\ \A d \in Clients \ {c} : quiet'[d] => quiet[d] /\ (UNCHANGED <<row, outside>> \/ pc[d] = "idle")
<1>1. quiet \in [Clients -> BOOLEAN]
  BY DEF IInv
<1>2. Disturbed(Clients \ {c}) \in [Clients -> BOOLEAN]
  BY <1>1 DEF Disturbed
<1>3. CASE UNCHANGED <<row, outside>>
  BY <1>1, <1>3
<1>4. CASE ~UNCHANGED <<row, outside>>
  <2>1. quiet' = [Disturbed(Clients \ {c}) EXCEPT ![c] = @ \/ pc'[c] = "idle"]
    BY <1>4
  <2>2. \A d \in Clients : Disturbed(Clients \ {c})[d] = (quiet[d] /\ (pc[d] = "idle" \/ d = c))
    BY DEF Disturbed
  <2> HIDE DEF Disturbed
  <2> QED
    BY <1>2, <2>1, <2>2
<1> QED
  BY <1>3, <1>4

\* Every step keeps the invariant, and takes a protected row only by the DELETE of a
\* request that another one overtook.
LEMMA StepInv ==
    ASSUME IInv, ProtInv, Next
    PROVE  /\ IInv' /\ ProtInv'
           /\ \A e \in Stored : row[e].protected /\ row'[e] = None =>
                 \E c \in Clients : pc[c] = "delete" /\ pc'[c] # "delete" /\ ~quiet[c]
<1>1. ASSUME NEW c \in Clients, UNCHANGED mix, Handle(c),
             LET seen == IF UNCHANGED <<row, outside>> THEN quiet ELSE Disturbed(Clients \ {c})
             IN quiet' = [seen EXCEPT ![c] = @ \/ pc'[c] = "idle"]
      PROVE  /\ IInv' /\ ProtInv'
             /\ \A e \in Stored : row[e].protected /\ row'[e] = None =>
                   pc[c] = "delete" /\ pc'[c] # "delete" /\ ~quiet[c]
  <2>1. /\ RowsInv' /\ ClientsInv'
        /\ OthersStay(c) /\ ReadsProtection(c) /\ TakesByDelete(c)
    BY <1>1, HandleStep DEF IInv, SoundStep
  <2>2. /\ quiet' \in [Clients -> BOOLEAN]
        /\ quiet'[c] => quiet[c] \/ pc'[c] = "idle"
        /\ \A d \in Clients \ {c} : quiet'[d] => quiet[d] /\ (row' = row \/ pc[d] = "idle")
    BY <1>1, QuietStep
  <2>3. ASSUME NEW d \in Clients, pc'[d] \in {"count", "delete"}, quiet'[d], req'[d].e \in Stored'
        PROVE  ~row'[req'[d].e].protected
    <3>1. CASE d = c
      <4>1. row' = row /\ req'[c] = req[c] /\ quiet[c]
        BY <2>1, <2>2, <2>3, <3>1 DEF ReadsProtection
      <4>2. req[c].e \in Stored
        BY <2>3, <3>1, <4>1 DEF Stored
      <4> QED
        BY <2>1, <2>3, <3>1, <4>1, <4>2 DEF ReadsProtection, ProtInv
    <3>2. CASE d # c
      <4>1. pc'[d] = pc[d] /\ req'[d] = req[d] /\ row' = row /\ quiet[d]
        BY <2>1, <2>2, <2>3, <3>2 DEF OthersStay
      <4>2. req[d].e \in Stored
        BY <2>3, <4>1 DEF Stored
      <4> QED
        BY <2>3, <4>1, <4>2 DEF ProtInv
    <3> QED
      BY <3>1, <3>2
  <2>4. ProtInv'
    BY <2>3 DEF ProtInv
  <2>5. ASSUME NEW e \in Stored, row[e].protected, row'[e] = None
        PROVE  pc[c] = "delete" /\ pc'[c] # "delete" /\ ~quiet[c]
    BY <2>1, <2>5 DEF TakesByDelete, ProtInv
  <2> QED
    BY <2>1, <2>2, <2>4, <2>5 DEF IInv
<1>2. ASSUME ForgetOutside \/ CreateRole, quiet' = Disturbed(Clients),
             UNCHANGED <<mix, row, tagged, pc, req, todo, got>>
      PROVE  /\ IInv' /\ ProtInv'
             /\ \A e \in Stored : row'[e] # None
  <2>1. RowsInv' /\ ClientsInv'
    BY <1>2, OutsideStep DEF IInv
  <2>2. quiet' \in [Clients -> BOOLEAN] /\ \A d \in Clients : quiet'[d] => quiet[d]
    BY <1>2 DEF Disturbed, IInv
  <2>3. ProtInv'
    BY <1>2, <2>2 DEF ProtInv, Stored
  <2> QED
    BY <1>2, <2>1, <2>2, <2>3 DEF IInv, Stored
<1> QED
  BY <1>1, <1>2 DEF Next

LEMMA StutterInv == IInv /\ ProtInv /\ UNCHANGED vars => IInv' /\ ProtInv'
<1> SUFFICES ASSUME IInv, ProtInv, UNCHANGED vars PROVE IInv' /\ ProtInv'
  OBVIOUS
<1>1. RowsInv' /\ ClientsInv'
  BY SameRowsKeep, StillKeeps DEF IInv, vars, db
<1> QED
  BY <1>1 DEF IInv, ProtInv, Stored, vars

LEMMA Invariance == Spec => [](IInv /\ ProtInv)
  BY InitInv, StepInv, StutterInv, PTL DEF Spec
-----------------------------------------------------------------------------
(* What a create knows of what it has looked up. *)

Creating == {"look", "read", "insert"}

\* What it still looks up is of its references. A node group has read a cluster of one
\* VPC, once it is past that lookup. As long as no other step has written a row, what it
\* found is there, its node group's cluster as it was read, and so is the item it updates.
LookInv(c) ==
    pc[c] \in Creating =>
        LET e == req[c].e  refs == req[c].row.refs IN
        /\ todo[c] \subseteq LookedUp(e, refs)
        /\ e[1] = "nodeGroup" /\ ParentOf(e) \notin todo[c] => got[c] # None /\ OneVpc(got[c].refs)
        /\ quiet[c] =>
              /\ \A x \in LookedUp(e, refs) \ todo[c] : Exists(x)
              /\ e[1] = "nodeGroup" /\ ParentOf(e) \notin todo[c] => got[c] = row[ParentOf(e)]
              /\ pc[c] = "insert" /\ req[c].op = "ddbUpdateItem" => got[c] = row[e]

\* A stored cluster's subnets are of one VPC, and so are its security groups.
ClustersInv == \A x \in Stored : x[1] = "eksCluster" => OneVpc(row[x].refs)

OpsOfTypes == {"CreateDBSubnetGroup", "eksCreateCluster"}

LEMMA OpShape ==
    ASSUME NEW m \in Mixes, NEW r \in Creates[m]
    PROVE  /\ r.e[1] \in Kinds
           /\ r.e[1] \in {"subnetGroup", "eksCluster"} => r.op \in OpsOfTypes
           /\ r.e[1] = "nodeGroup" => r.op = "eksCreateNodeGroup"
           /\ r.op = "ddbUpdateItem" => r.e[1] = "item"
<1>1. PICK e \in m.entities :
          r \in [op: m.ops \cap WriteOps(e), e: {e}, row: RowsOf(e, m),
                 tags: IF Taggable(e) THEN m.tags ELSE {FALSE}]
  BY DEF Creates
<1>2. r.e = e /\ r.op \in WriteOps(e) /\ e[1] \in Kinds
  BY <1>1, KindShape, MixShape
<1>3. r.op = CreateOp[e[1]] \/ (e[1] = "item" /\ r.op = "ddbUpdateItem")
  BY <1>2 DEF WriteOps
<1>4. r.op = "ddbUpdateItem" => r.e[1] = "item"
  BY CreateShape
<1> QED
  BY <1>2, <1>3, <1>4 DEF CreateOp, OpsOfTypes

\* A child names its parent and no other row of its kind.
LEMMA RefsShape ==
    ASSUME NEW m \in Mixes, NEW e \in m.entities, NEW r \in RowsOf(e, m)
    PROVE  /\ r.refs \subseteq m.entities \cup m.outside
           /\ \A x \in r.refs : x[1] \in Names[e[1]]
           /\ e[1] = "nodeGroup" =>
                 /\ ParentOf(e) \in r.refs /\ ParentOf(e)[1] = "eksCluster"
                 /\ \A x \in r.refs : x[1] = "eksCluster" => x = ParentOf(e)
           /\ e[1] = "item" => ParentOf(e) \in r.refs /\ \A x \in r.refs : x = ParentOf(e)
<1>1. /\ r.refs \subseteq m.entities \cup m.outside
      /\ \A x \in r.refs : x[1] \in Names[e[1]]
  BY RowShape
<1>2. r.refs \in RefsOf(e, m)
  BY DEF RowsOf
<1>3. /\ \A x, y \in r.refs : x[1] = y[1] /\ x # y => x[1] \in {"subnet", "securityGroup"}
      /\ e[1] \in Children => ParentOf(e) \in r.refs
  BY <1>2 DEF RefsOf
<1>4. ASSUME e[1] = "nodeGroup"
      PROVE  /\ ParentOf(e) \in r.refs /\ ParentOf(e)[1] = "eksCluster"
             /\ \A x \in r.refs : x[1] = "eksCluster" => x = ParentOf(e)
  <2>1. e[1] \in Children /\ ParentOf(e)[1] = "eksCluster"
    BY <1>4 DEF Children, ParentOf, ParentKind
  <2> QED
    BY <1>3, <2>1
<1>5. ASSUME e[1] = "item" PROVE ParentOf(e) \in r.refs /\ \A x \in r.refs : x = ParentOf(e)
  <2>1. e[1] \in Children /\ ParentOf(e)[1] = "table"
    BY <1>5 DEF Children, Replaced, ParentOf, ParentKind
  <2>2. \A x \in r.refs : x[1] = "table"
    BY <1>1, <1>5 DEF Names
  <2> QED
    BY <1>3, <2>1, <2>2
<1> QED
  BY <1>1, <1>4, <1>5
-----------------------------------------------------------------------------
(* The steps of a create, told apart from all others. *)

OthersHold(c) ==
    \A d \in Clients \ {c} : pc'[d] = pc[d] /\ req'[d] = req[d] /\ todo'[d] = todo[d] /\ got'[d] = got[d]

LooksUp(c) ==
    /\ pc[c] = "look" /\ UNCHANGED db
    /\ \E x \in todo[c] :
          /\ Exists(x)
          /\ todo'[c] = todo[c] \ {x}
          /\ got'[c] = IF x[1] = "eksCluster" THEN row[x] ELSE got[c]
          /\ pc'[c] = IF todo[c] = {x} THEN LookedUpAll(req[c].op) ELSE "look"
          /\ req'[c] = req[c]

ReadsItem(c) ==
    /\ pc[c] = "read" /\ pc'[c] = "insert" /\ UNCHANGED db
    /\ got'[c] = row[req[c].e] /\ req'[c] = req[c] /\ todo'[c] = todo[c]
    /\ req[c].op = "ddbUpdateItem"

\* An update of an item is refused by nothing but a key.
Inserts(c) ==
    /\ pc[c] = "insert" /\ pc'[c] \notin Creating
    /\ \/ UNCHANGED db /\ (req[c].op = "ddbUpdateItem" => ~KeysHold(req[c].e, Merged(c).refs))
       \/ /\ InsertRow(req[c].e, Merged(c)) /\ KeysHold(req[c].e, Merged(c).refs)
          /\ UNCHANGED outside
          /\ req[c].op \in OpsOfTypes => OneVpc(req[c].row.refs)
          /\ req[c].op = "eksCreateNodeGroup" => InClusterSubnets(c)

\* Any other writes no row but None.
Rests(c) ==
    /\ pc[c] # "insert" /\ pc'[c] \notin Creating
    /\ \A x \in Entities : row'[x] \in {row[x], None}

Told(c) == OthersHold(c) /\ (LooksUp(c) \/ ReadsItem(c) \/ Inserts(c) \/ Rests(c) \/ \E o : Receive(c, o))

LEMMA HoldStep ==
    ASSUME ClientsInv, NEW c \in Clients,
           End(c) \/ Whole(c) \/ (\E p : Goto(c, p)) \/ (\E p, r, t : Begin(c, p, r, t))
    PROVE  OthersHold(c)
<1>1. CASE End(c) \/ Whole(c)
  BY <1>1 DEF End, Whole, OthersHold, ClientsInv
<1>2. CASE \E p : Goto(c, p)
  BY <1>2 DEF Goto, OthersHold, ClientsInv
<1>3. CASE \E p, r, t : Begin(c, p, r, t)
  BY <1>3 DEF Begin, OthersHold, ClientsInv
<1> QED
  BY <1>1, <1>2, <1>3

LEMMA RestStep ==
    ASSUME ClientsInv, NEW c \in Clients, pc[c] # "insert",
           End(c) \/ (pc[c] \notin Creating /\ Whole(c)) \/ (\E p \in {"get", "count", "delete"} : Goto(c, p))
              \/ (\E r : Begin(c, "get", r, {})),
           \A x \in Entities : row'[x] \in {row[x], None}
    PROVE  Told(c)
<1>1. pc'[c] \notin Creating
  BY DEF End, Whole, Goto, Begin, Creating, ClientsInv
<1> QED
  BY <1>1, HoldStep DEF Told, Rests

LEMMA ToldReceive ==
    ASSUME ClientsInv, NEW c \in Clients, NEW o, Receive(c, o)
    PROVE  Told(c)
  BY HoldStep DEF Receive, Told

LEMMA ToldLookUp ==
    ASSUME ClientsInv, NEW c \in Clients, NEW o, LookUp(c, o)
    PROVE  Told(c)
<1>1. pc[c] = "look" /\ req[c].op = o /\ UNCHANGED db
  BY DEF LookUp, At
<1>2. CASE End(c)
  BY <1>1, <1>2, RestStep DEF db
<1>3. ASSUME NEW x \in todo[c], Exists(x),
             todo' = [todo EXCEPT ![c] = @ \ {x}],
             got' = IF x[1] = "eksCluster" THEN [got EXCEPT ![c] = row[x]] ELSE got,
             pc' = [pc EXCEPT ![c] = IF todo[c] = {x} THEN LookedUpAll(o) ELSE "look"],
             UNCHANGED req
      PROVE  Told(c)
  <2>1. OthersHold(c)
    BY <1>3 DEF OthersHold, ClientsInv
  <2>2. /\ todo'[c] = todo[c] \ {x} /\ pc'[c] = IF todo[c] = {x} THEN LookedUpAll(o) ELSE "look"
        /\ got'[c] = IF x[1] = "eksCluster" THEN row[x] ELSE got[c]
    BY <1>3 DEF ClientsInv
  <2> QED
    BY <1>1, <1>3, <2>1, <2>2 DEF Told, LooksUp
<1> QED
  BY <1>2, <1>3 DEF LookUp

LEMMA ToldGetItem ==
    ASSUME ClientsInv, NEW c \in Clients, GetDynamoDBItem(c, "ddbUpdateItem")
    PROVE  Told(c)
  BY DEF GetDynamoDBItem, At, Told, ReadsItem, OthersHold, ClientsInv

LEMMA ToldInsert ==
    ASSUME ClientsInv, NEW c \in Clients, NEW o, NEW fits, Insert(c, o, fits),
           o \in OpsOfTypes /\ fits => OneVpc(req[c].row.refs),
           o = "eksCreateNodeGroup" /\ fits => InClusterSubnets(c),
           o = "ddbUpdateItem" => fits
    PROVE  Told(c)
<1>1. pc[c] = "insert" /\ req[c].op = o
  BY DEF Insert, At
<1>2. ASSUME End(c) \/ Goto(c, "tag") PROVE OthersHold(c) /\ pc'[c] \notin Creating
  BY <1>2, HoldStep DEF End, Goto, Creating, ClientsInv
<1>3. CASE ~(fits /\ KeysHold(req[c].e, Merged(c).refs)) /\ End(c) /\ UNCHANGED db
  BY <1>1, <1>2, <1>3 DEF Told, Inserts
<1>4. CASE /\ fits /\ KeysHold(req[c].e, Merged(c).refs)
           /\ InsertRow(req[c].e, Merged(c)) /\ (Goto(c, "tag") \/ End(c)) /\ UNCHANGED outside
  BY <1>1, <1>2, <1>4 DEF Told, Inserts
<1> QED
  BY <1>3, <1>4 DEF Insert

LEMMA ToldTyped ==
    ASSUME ClientsInv, NEW c \in Clients, NEW o \in OpsOfTypes, Insert(c, o, OneVpc(req[c].row.refs))
    PROVE  Told(c)
<1>1. o # "eksCreateNodeGroup" /\ o # "ddbUpdateItem"
  BY DEF OpsOfTypes
<1> QED
  BY <1>1, ToldInsert

LEMMA ToldNodeGroup ==
    ASSUME ClientsInv, NEW c \in Clients, Insert(c, "eksCreateNodeGroup", InClusterSubnets(c))
    PROVE  Told(c)
<1>1. "eksCreateNodeGroup" \notin OpsOfTypes
  BY DEF OpsOfTypes
<1> QED
  BY <1>1, ToldInsert

LEMMA ToldUntyped ==
    ASSUME ClientsInv, NEW c \in Clients, NEW o, o \notin OpsOfTypes, o # "eksCreateNodeGroup",
           Insert(c, o, TRUE)
    PROVE  Told(c)
  BY ToldInsert

LEMMA DropFades ==
    ASSUME NEW e, Drop(e)
    PROVE  \A x \in Entities : row'[x] \in {row[x], None}
  BY DEF Drop, Remove, db

LEMMA ToldDropEnd ==
    ASSUME ClientsInv, NEW c \in Clients, NEW o, At(c, "delete", o), Drop(req[c].e), End(c)
    PROVE  Told(c)
  BY DropFades, RestStep DEF At

LEMMA ToldDeleteRow ==
    ASSUME ClientsInv, NEW c \in Clients, NEW o, DeleteRow(c, o)
    PROVE  Told(c)
<1>1. CASE \E r \in Deletes[mix] : Whole(c) /\ Drop(r.e)
  <2>1. pc[c] = "idle" /\ "idle" \notin Creating
    BY <1>1 DEF Whole, Creating
  <2> QED
    BY <1>1, <2>1, DropFades, RestStep
<1> QED
  BY <1>1, ToldDropEnd DEF DeleteRow

LEMMA ToldReadProtection ==
    ASSUME ClientsInv, NEW c \in Clients, NEW o, NEW next \in {"count", "delete"},
           ReadProtection(c, o, next)
    PROVE  Told(c)
  BY RestStep DEF ReadProtection, At, db

LEMMA ToldBeginDelete ==
    ASSUME ClientsInv, NEW c \in Clients, NEW r, Begin(c, "get", r, {})
    PROVE  Told(c)
  BY RestStep DEF Begin, db

LEMMA ToldDeleteDBCluster ==
    ASSUME ClientsInv, NEW c \in Clients, NEW o, DeleteDBCluster(c, o)
    PROVE  Told(c)
  BY ToldBeginDelete, ToldReadProtection, ToldDropEnd DEF DeleteDBCluster

LEMMA ToldDeleteDBInstance ==
    ASSUME ClientsInv, NEW c \in Clients, NEW o, DeleteDBInstance(c, o)
    PROVE  Told(c)
<1>1. CASE At(c, "count", o) /\ (End(c) \/ Goto(c, "delete")) /\ UNCHANGED db
  BY <1>1, RestStep DEF At, db
<1> QED
  BY <1>1, ToldBeginDelete, ToldReadProtection, ToldDropEnd DEF DeleteDBInstance

LEMMA ToldTags ==
    ASSUME ClientsInv, NEW c \in Clients, TagResource(c) \/ UntagResource(c)
    PROVE  Told(c)
<1>1. Whole(c) /\ row' = row /\ pc[c] \notin Creating /\ pc[c] # "insert"
  BY DEF TagResource, UntagResource, PutTags, Whole, Creating
<1> QED
  BY <1>1, RestStep

LEMMA ToldTagCreated ==
    ASSUME ClientsInv, NEW c \in Clients, NEW o, NEW undo \in {"get", "delete"}, tagCreated(c, o, undo)
    PROVE  Told(c)
<1>1. pc[c] = "tag" /\ row' = row /\ (End(c) \/ Goto(c, undo))
  BY DEF tagCreated, At, PutTags, db
<1> QED
  BY <1>1, RestStep

LEMMA ToldHandle ==
    ASSUME ClientsInv, NEW c \in Clients, Handle(c)
    PROVE  Told(c)
<1>0. /\ "CreateDBSubnetGroup" \in OpsOfTypes /\ "eksCreateCluster" \in OpsOfTypes
      /\ \A o \in {"CreateDBParameterGroup", "CreateDBClusterParameterGroup", "CreateDBCluster",
                   "CreateDBInstance", "eksCreateAddon", "ddbCreateTable", "ddbPutItem", "ddbUpdateItem",
                   "s3PutBucket", "s3PutConfig"} : o \notin OpsOfTypes /\ o # "eksCreateNodeGroup"
  BY DEF OpsOfTypes
<1>1. CASE rdsCreateDBSubnetGroup(c)
  BY <1>0, <1>1, ToldReceive, ToldLookUp, ToldTyped, ToldTagCreated, ToldDeleteRow
     DEF rdsCreateDBSubnetGroup, CreateDBSubnetGroup
<1>2. CASE rdsCreateDBParameterGroup(c)
  BY <1>0, <1>2, ToldReceive, ToldUntyped, ToldTagCreated, ToldDeleteRow
     DEF rdsCreateDBParameterGroup, CreateDBParameterGroup
<1>3. CASE rdsCreateDBClusterParameterGroup(c)
  BY <1>0, <1>3, ToldReceive, ToldUntyped, ToldTagCreated, ToldDeleteRow
     DEF rdsCreateDBClusterParameterGroup, CreateDBClusterParameterGroup
<1>4. CASE rdsCreateDBCluster(c)
  BY <1>0, <1>4, ToldReceive, ToldLookUp, ToldUntyped, ToldTagCreated, ToldDeleteDBCluster
     DEF rdsCreateDBCluster, CreateDBCluster
<1>5. CASE rdsCreateDBInstance(c)
  BY <1>0, <1>5, ToldReceive, ToldLookUp, ToldUntyped, ToldTagCreated, ToldDeleteDBInstance
     DEF rdsCreateDBInstance, CreateDBInstance
<1>6. CASE eksCreateCluster(c)
  BY <1>0, <1>6, ToldReceive, ToldLookUp, ToldTyped, ToldTagCreated, ToldDeleteRow
     DEF eksCreateCluster, CreateEKSCluster
<1>7. CASE eksCreateNodeGroup(c)
  BY <1>0, <1>7, ToldReceive, ToldLookUp, ToldNodeGroup, ToldTagCreated, ToldDeleteRow
     DEF eksCreateNodeGroup, CreateEKSNodeGroup
<1>8. CASE eksCreateAddon(c)
  BY <1>0, <1>8, ToldReceive, ToldLookUp, ToldUntyped, ToldTagCreated, ToldDeleteRow
     DEF eksCreateAddon, CreateEKSAddon
<1>9. CASE ddbCreateTable(c)
  BY <1>0, <1>9, ToldReceive, ToldUntyped, ToldTagCreated, ToldDeleteRow
     DEF ddbCreateTable, CreateDynamoDBTable
<1>10. CASE ddbPutItem(c)
  BY <1>0, <1>10, ToldReceive, ToldLookUp, ToldUntyped
     DEF ddbPutItem, PutDynamoDBItem
<1>11. CASE ddbUpdateItem(c)
  BY <1>0, <1>11, ToldReceive, ToldLookUp, ToldGetItem, ToldUntyped
     DEF ddbUpdateItem, PutDynamoDBItem
<1>12. CASE s3PutBucket(c)
  BY <1>0, <1>12, ToldReceive, ToldUntyped
     DEF s3PutBucket, CreateBucket
<1>13. CASE s3PutConfig(c)
  BY <1>0, <1>13, ToldReceive, ToldLookUp, ToldUntyped
     DEF s3PutConfig, PutBucketConfig
<1>14. CASE \E o : DeleteRow(c, o) \/ DeleteDBCluster(c, o) \/ DeleteDBInstance(c, o)
  BY <1>14, ToldDeleteRow, ToldDeleteDBCluster, ToldDeleteDBInstance
<1>15. CASE TagResource(c) \/ UntagResource(c)
  BY <1>15, ToldTags
<1> QED
  BY <1>1, <1>2, <1>3, <1>4, <1>5, <1>6, <1>7, <1>8, <1>9, <1>10, <1>11, <1>12, <1>13, <1>14, <1>15
     DEF Handle, rdsDeleteDBSubnetGroup, rdsDeleteDBParameterGroup, rdsDeleteDBClusterParameterGroup,
         rdsDeleteDBCluster, rdsDeleteDBInstance, eksDeleteCluster, eksDeleteNodeGroup, eksDeleteAddon,
         ddbDeleteTable, ddbDeleteItem, s3DeleteBucket, s3DeleteConfig
-----------------------------------------------------------------------------
(* That creates keep knowing it. *)

\* A request that stays where it is, beside no write while it is quiet, knows what it knew.
LEMMA LookStays ==
    ASSUME NEW c \in Clients, LookInv(c),
           pc'[c] = pc[c], req'[c] = req[c], todo'[c] = todo[c], got'[c] = got[c],
           quiet'[c] => quiet[c] /\ (pc[c] = "idle" \/ UNCHANGED <<row, outside>>)
    PROVE  LookInv(c)'
<1>1. SUFFICES ASSUME pc[c] \in Creating PROVE LookInv(c)'
  BY DEF LookInv, Creating
<1>2. quiet'[c] => quiet[c] /\ row' = row /\ outside' = outside /\ Stored' = Stored
  BY <1>1 DEF Creating, Stored
<1> QED
  BY <1>1, <1>2 DEF LookInv, Exists

LEMMA ReceiveKnows ==
    ASSUME RowsInv, ClientsInv, NEW c \in Clients, NEW o, Receive(c, o)
    PROVE  LookInv(c)'
<1>1. PICK r \in Creates[mix] :
          Begin(c, IF LookedUp(r.e, r.row.refs) = {} THEN "insert" ELSE "look", r, LookedUp(r.e, r.row.refs))
  BY DEF Receive
<1>2. mix \in Mixes /\ r.e \in mix.entities /\ r.row \in RowsOf(r.e, mix)
  BY CreateShape DEF RowsInv
<1>3. req'[c] = r /\ todo'[c] = LookedUp(r.e, r.row.refs)
  BY <1>1 DEF Begin, ClientsInv
<1>4. r.e[1] = "nodeGroup" => ParentOf(r.e) \in LookedUp(r.e, r.row.refs)
  BY <1>2, RefsShape DEF LookedUp
<1>5. pc'[c] = "insert" => r.op # "ddbUpdateItem"
  <2>1. SUFFICES ASSUME LookedUp(r.e, r.row.refs) = {}, r.op = "ddbUpdateItem" PROVE FALSE
    BY <1>1 DEF Begin, ClientsInv
  <2>2. r.e[1] = "item"
    BY <1>2, <2>1, OpShape
  <2> QED
    BY <1>2, <2>1, <2>2, RefsShape DEF LookedUp
<1> QED
  BY <1>3, <1>4, <1>5 DEF LookInv

LEMMA LookUpKnows ==
    ASSUME RowsInv, ClientsInv, ClustersInv, UNCHANGED mix, NEW c \in Clients, LookInv(c), LooksUp(c),
           quiet'[c] => quiet[c]
    PROVE  LookInv(c)'
<1>1. PICK x \in todo[c] :
          /\ Exists(x)
          /\ todo'[c] = todo[c] \ {x}
          /\ got'[c] = IF x[1] = "eksCluster" THEN row[x] ELSE got[c]
          /\ pc'[c] = IF todo[c] = {x} THEN LookedUpAll(req[c].op) ELSE "look"
          /\ req'[c] = req[c]
  BY DEF LooksUp
<1> DEFINE e == req[c].e  refs == req[c].row.refs
<1>2. pc[c] = "look" /\ pc[c] \in Creating /\ row' = row /\ outside' = outside /\ Stored' = Stored
  BY DEF LooksUp, db, Creating, Stored
<1>3. req[c] \in Creates[mix] /\ mix \in Mixes /\ e \in mix.entities /\ req[c].row \in RowsOf(e, mix)
  BY <1>2, CreateShape DEF ClientsInv, RowsInv
<1>4. /\ todo[c] \subseteq LookedUp(e, refs)
      /\ e[1] = "nodeGroup" /\ ParentOf(e) \notin todo[c] => got[c] # None /\ OneVpc(got[c].refs)
      /\ quiet[c] =>
            /\ \A y \in LookedUp(e, refs) \ todo[c] : Exists(y)
            /\ e[1] = "nodeGroup" /\ ParentOf(e) \notin todo[c] => got[c] = row[ParentOf(e)]
  BY <1>2 DEF LookInv
<1>5. x \in refs
  BY <1>1, <1>4 DEF LookedUp
<1>6. ASSUME e[1] = "nodeGroup", ParentOf(e) \notin todo'[c]
      PROVE  /\ got'[c] # None /\ OneVpc(got'[c].refs)
             /\ quiet'[c] => got'[c] = row[ParentOf(e)]
  <2>1. x[1] = "eksCluster" <=> x = ParentOf(e)
    BY <1>3, <1>5, <1>6, RefsShape
  <2>2. CASE x = ParentOf(e)
    <3>1. outside \subseteq Outside
      BY MixShape DEF RowsInv
    <3>2. x \in Stored
      BY <1>1, <2>1, <2>2, <3>1, OutsideShape DEF Exists
    <3> QED
      BY <1>1, <2>1, <2>2, <3>2 DEF ClustersInv, Stored
  <2>3. CASE x # ParentOf(e)
    BY <1>1, <1>4, <1>6, <2>1, <2>3
  <2> QED
    BY <2>2, <2>3
<1>7. \A y \in LookedUp(e, refs) \ todo'[c] : y = x \/ y \in LookedUp(e, refs) \ todo[c]
  BY <1>1
<1>8. quiet'[c] => \A y \in LookedUp(e, refs) \ todo'[c] : Exists(y)'
  BY <1>1, <1>2, <1>4, <1>7 DEF Exists
<1>9. pc'[c] = "insert" => req[c].op # "ddbUpdateItem"
  BY <1>1 DEF LookedUpAll
<1> QED
  BY <1>1, <1>2, <1>4, <1>6, <1>8, <1>9 DEF LookInv

LEMMA ReadItemKnows ==
    ASSUME RowsInv, ClientsInv, NEW c \in Clients, LookInv(c), ReadsItem(c), quiet'[c] => quiet[c]
    PROVE  LookInv(c)'
<1>1. pc[c] \in Creating /\ req[c] \in Creates[mix] /\ mix \in Mixes
  BY DEF ReadsItem, Creating, ClientsInv, RowsInv
<1>2. req[c].e[1] = "item"
  BY <1>1, OpShape DEF ReadsItem
<1>3. row' = row /\ outside' = outside /\ Stored' = Stored
  BY DEF ReadsItem, db, Stored
<1> QED
  BY <1>1, <1>2, <1>3 DEF LookInv, ReadsItem, Exists

\* The stored clusters stay of one VPC, for an insert checks it.
LEMMA ClustersStay ==
    ASSUME RowsInv, ClientsInv, ClustersInv, NEW c \in Clients, Told(c)
    PROVE  ClustersInv'
<1>1. CASE \A x \in Entities : row'[x] \in {row[x], None}
  BY <1>1 DEF ClustersInv, Stored
<1>2. CASE Inserts(c) /\ InsertRow(req[c].e, Merged(c)) /\ (req[c].op \in OpsOfTypes => OneVpc(req[c].row.refs))
  <2> DEFINE e == req[c].e  r == Merged(c)
  <2>1. pc[c] = "insert" /\ mix \in Mixes
    BY <1>2 DEF Inserts, RowsInv
  <2>2. req[c] \in Creates[mix] /\ e \in mix.entities /\ e \in Entities
    BY <2>1, MergedShape, MixShape
  <2>3. \A x \in Entities : row'[x] = IF x = e THEN r ELSE row[x]
    BY <1>2 DEF InsertRow, RowsInv
  <2>4. ASSUME e[1] = "eksCluster" PROVE OneVpc(r.refs)
    <3>1. req[c].op \in OpsOfTypes /\ req[c].op # "ddbUpdateItem"
      BY <2>1, <2>2, <2>4, OpShape
    <3> QED
      BY <1>2, <3>1 DEF Merged
  <2> HIDE DEF e, r
  <2> QED
    BY <2>3, <2>4 DEF ClustersInv, Stored
<1> QED
  BY <1>1, <1>2 DEF Told, LooksUp, ReadsItem, Inserts, Rests, Receive, Begin, db
-----------------------------------------------------------------------------
(* What an insert leaves. *)

LEMMA InsertIsSound ==
    ASSUME RowsInv, ClientsInv, NEW c \in Clients, LookInv(c), Inserts(c), NEW e \in Entities, req[c].e = e,
           row'[e] # None
    PROVE  /\ row[e] = None => CreateIsSound(c, e)
           /\ req[c].op = "ddbUpdateItem" => UpdateMerges(c, e)
<1> DEFINE r == Merged(c)  refs == req[c].row.refs
<1>1. pc[c] = "insert" /\ pc[c] \in Creating /\ todo[c] = {} /\ mix \in Mixes /\ req[c] \in Creates[mix]
  BY DEF Inserts, Creating, ClientsInv, RowsInv
<1>2. e \in mix.entities /\ req[c].row \in RowsOf(e, mix) /\ r \in RowsOf(e, mix)
  BY <1>1, CreateShape, MergedShape
<1>3. /\ e[1] = "nodeGroup" => got[c] # None /\ OneVpc(got[c].refs)
      /\ quiet[c] =>
            /\ \A x \in LookedUp(e, refs) : Exists(x)
            /\ e[1] = "nodeGroup" => got[c] = row[ParentOf(e)]
            /\ req[c].op = "ddbUpdateItem" => got[c] = row[e]
  BY <1>1 DEF LookInv
<1>4. r.refs = refs /\ (req[c].op # "ddbUpdateItem" => r = req[c].row)
  BY <1>2 DEF Merged, RowsOf
<1>5. CASE UNCHANGED db /\ (req[c].op = "ddbUpdateItem" => ~KeysHold(e, r.refs))
  <2>1. row' = row /\ row[e] # None /\ e \in Stored
    BY <1>5 DEF db, Stored
  <2>2. ASSUME req[c].op = "ddbUpdateItem" PROVE FALSE
    <3>1. e[1] = "item" /\ e[1] \in Replaced
      BY <1>1, <2>2, OpShape DEF Replaced
    <3>2. row[e] \in RowsOf(e, mix)
      BY <2>1 DEF RowsInv
    <3>3. ParentOf(e) \in row[e].refs /\ \A x \in refs : x = ParentOf(e)
      BY <1>1, <1>2, <3>1, <3>2, RefsShape
    <3>4. row[e].refs \ Outside \subseteq Stored
      BY <2>1 DEF RowsInv, NothingOutlivesItsParent
    <3>5. \A x \in refs \ Outside : row[x] # None
      BY <3>3, <3>4 DEF Stored
    <3>6. KeysHold(e, r.refs)
      BY <1>4, <3>1, <3>5 DEF KeysHold
    <3> QED
      BY <1>5, <2>2, <3>6
  <2> QED
    BY <2>1, <2>2
<1>6. CASE /\ InsertRow(e, r) /\ UNCHANGED outside
           /\ req[c].op \in OpsOfTypes => OneVpc(refs)
           /\ req[c].op = "eksCreateNodeGroup" => InClusterSubnets(c)
  <2>1. \A x \in Entities : row'[x] = IF x = e THEN r ELSE row[x]
    BY <1>6 DEF InsertRow, RowsInv
  <2>2. row'[e] = r
    BY <2>1
  <2>3. e[1] = "nodeGroup" => SubnetsIn(refs) \subseteq SubnetsIn(got[c].refs)
    BY <1>1, <1>6, OpShape DEF InClusterSubnets
  <2>4. OneVpc(refs)
    <3>1. \A x \in refs : x[1] \in Names[e[1]]
      BY <1>1, <1>2, RefsShape
    <3>2. CASE e[1] \in {"subnetGroup", "eksCluster"}
      BY <1>1, <1>6, <3>2, OpShape
    <3>3. CASE e[1] = "nodeGroup"
      <4>1. refs \cap DOMAIN VpcOf \subseteq SubnetsIn(refs)
        BY <3>1, <3>3, EntitiesAssumption DEF Names, SubnetsIn
      <4>2. refs \cap DOMAIN VpcOf \subseteq got[c].refs \cap DOMAIN VpcOf
        BY <2>3, <3>3, <4>1 DEF SubnetsIn
      <4> QED
        BY <1>3, <3>3, <4>2 DEF OneVpc
    <3>4. CASE e[1] \notin {"subnetGroup", "eksCluster", "nodeGroup"}
      <4>1. e[1] \in Kinds
        BY <1>1, OpShape
      <4>2. Names[e[1]] \cap {"subnet", "securityGroup"} = {}
        BY <3>4, <4>1 DEF Names, Kinds, Children, Replaced, Groups
      <4>3. refs \cap DOMAIN VpcOf = {}
        BY <3>1, <4>2, EntitiesAssumption
      <4> QED
        BY <4>3 DEF OneVpc
    <3> QED
      BY <3>2, <3>3, <3>4
  <2>5. ASSUME row[e] = None, quiet[c], NEW x \in LookedUp(e, refs) PROVE Exists(x) /\ x # e
    <3>1. Exists(x)
      BY <1>3, <2>5
    <3>2. e \notin outside
      <4>1. outside \subseteq Outside /\ e[1] \in Kinds
        BY <1>1, OpShape, MixShape DEF RowsInv
      <4> QED
        BY <4>1, OutsideShape DEF Kinds, Children, Replaced, Groups
    <3>3. x # e
      BY <2>5, <3>1, <3>2 DEF Exists, Stored
    <3> QED
      BY <3>1, <3>3
  <2>6. ASSUME row[e] = None, quiet[c], e[1] = "nodeGroup"
        PROVE  SubnetsIn(refs) \subseteq SubnetsIn(row'[ParentOf(e)].refs)
    <3>1. ParentOf(e) \in LookedUp(e, refs) /\ ParentOf(e)[1] = "eksCluster"
      BY <1>1, <1>2, <2>6, RefsShape DEF LookedUp
    <3>2. ParentOf(e) \in Entities
      <4>1. outside \subseteq Outside /\ Exists(ParentOf(e))
        BY <1>3, <2>6, <3>1, MixShape DEF RowsInv
      <4> QED
        BY <3>1, <4>1, OutsideShape DEF Exists, Stored
    <3>3. row'[ParentOf(e)] = got[c]
      BY <1>3, <2>1, <2>5, <2>6, <3>1, <3>2
    <3> QED
      BY <2>3, <2>6, <3>3
  <2>7. row[e] = None => CreateIsSound(c, e)
    BY <1>4, <2>2, <2>4, <2>5, <2>6 DEF CreateIsSound
  <2>8. req[c].op = "ddbUpdateItem" => UpdateMerges(c, e)
    <3>1. SUFFICES ASSUME req[c].op = "ddbUpdateItem", quiet[c]
                   PROVE  r.attrs = req[c].row.attrs \cup (IF row[e] = None THEN {} ELSE row[e].attrs)
      BY <2>2 DEF UpdateMerges
    <3>2. got[c] = row[e]
      BY <1>3, <3>1
    <3> QED
      BY <1>2, <3>1, <3>2 DEF Merged, RowsOf
  <2> QED
    BY <2>7, <2>8
<1> QED
  BY <1>5, <1>6 DEF Inserts

LooksInv == ClustersInv /\ \A c \in Clients : LookInv(c)

LEMMA InitLooks == Init => LooksInv
  BY DEF Init, LooksInv, ClustersInv, Stored, LookInv, Creating

LEMMA NextLooks ==
    ASSUME IInv, LooksInv, Next
    PROVE  /\ LooksInv'
           /\ \A c \in Clients, e \in Entities :
                 pc[c] = "insert" /\ pc'[c] # "insert" /\ req[c].e = e /\ row'[e] # None =>
                    /\ row[e] = None => CreateIsSound(c, e)
                    /\ req[c].op = "ddbUpdateItem" => UpdateMerges(c, e)
<1> DEFINE Sound(c, e) ==
        pc[c] = "insert" /\ pc'[c] # "insert" /\ req[c].e = e /\ row'[e] # None =>
            /\ row[e] = None => CreateIsSound(c, e)
            /\ req[c].op = "ddbUpdateItem" => UpdateMerges(c, e)
<1>1. ASSUME NEW c \in Clients, UNCHANGED mix, Handle(c),
             LET seen == IF UNCHANGED <<row, outside>> THEN quiet ELSE Disturbed(Clients \ {c})
             IN quiet' = [seen EXCEPT ![c] = @ \/ pc'[c] = "idle"]
      PROVE  LooksInv' /\ \A d \in Clients, e \in Entities : Sound(d, e)
  <2>1. RowsInv /\ ClientsInv /\ Told(c) /\ ClustersInv /\ \A d \in Clients : LookInv(d)
    BY <1>1, ToldHandle DEF IInv, LooksInv
  <2>2. /\ quiet'[c] => quiet[c] \/ pc'[c] = "idle"
        /\ \A d \in Clients \ {c} : quiet'[d] => quiet[d] /\ (UNCHANGED <<row, outside>> \/ pc[d] = "idle")
    BY <1>1, QuietStep
  <2>3. ClustersInv'
    BY <2>1, ClustersStay
  <2>4. ASSUME NEW d \in Clients \ {c} PROVE LookInv(d)'
    BY <2>1, <2>2, LookStays DEF Told, OthersHold
  <2>5. LookInv(c)'
    <3>1. CASE pc'[c] \in Creating
      <4>1. quiet'[c] => quiet[c]
        BY <2>2, <3>1 DEF Creating
      <4> QED
        BY <1>1, <2>1, <3>1, <4>1, ReceiveKnows, LookUpKnows, ReadItemKnows DEF Told, Inserts, Rests
    <3>2. CASE pc'[c] \notin Creating
      BY <3>2 DEF LookInv
    <3> QED
      BY <3>1, <3>2
  <2>6. ASSUME NEW e \in Entities PROVE Sound(c, e)
    <3>1. SUFFICES ASSUME pc[c] = "insert", pc'[c] # "insert", req[c].e = e, row'[e] # None
                   PROVE  /\ row[e] = None => CreateIsSound(c, e)
                          /\ req[c].op = "ddbUpdateItem" => UpdateMerges(c, e)
      OBVIOUS
    <3>2. Inserts(c)
      BY <2>1, <3>1 DEF Told, LooksUp, ReadsItem, Rests, Receive, Begin
    <3> QED
      BY <2>1, <3>1, <3>2, InsertIsSound
  <2>7. ASSUME NEW d \in Clients \ {c}, NEW e \in Entities PROVE Sound(d, e)
    BY <2>1 DEF Told, OthersHold
  <2> QED
    BY <2>3, <2>4, <2>5, <2>6, <2>7 DEF LooksInv
<1>2. ASSUME quiet' = Disturbed(Clients), UNCHANGED <<mix, row, tagged, pc, req, todo, got>>
      PROVE  LooksInv' /\ \A d \in Clients, e \in Entities : Sound(d, e)
  <2>1. \A d \in Clients : quiet'[d] => quiet[d] /\ pc[d] = "idle"
    BY <1>2 DEF Disturbed
  <2>2. ClustersInv'
    BY <1>2 DEF LooksInv, ClustersInv, Stored
  <2>3. ASSUME NEW d \in Clients PROVE LookInv(d)'
    BY <1>2, <2>1, LookStays DEF LooksInv
  <2> QED
    BY <1>2, <2>2, <2>3 DEF LooksInv
<1> QED
  BY <1>1, <1>2 DEF Next

LEMMA StutterLooks == LooksInv /\ UNCHANGED vars => LooksInv'
<1> SUFFICES ASSUME LooksInv, UNCHANGED vars PROVE LooksInv'
  OBVIOUS
<1>1. ClustersInv'
  BY DEF LooksInv, ClustersInv, Stored, vars
<1>2. ASSUME NEW c \in Clients PROVE LookInv(c)'
  BY LookStays DEF LooksInv, vars
<1> QED
  BY <1>1, <1>2 DEF LooksInv

-----------------------------------------------------------------------------
(* The theorems. *)

\* Whatever overlaps, every stored row is of its table, what its foreign keys name is
\* stored with it, and no tag is left without its resource.
THEOREM RowsStaySound == Spec => []RowsAreSound
<1>1. IInv => RowsAreSound
  BY DEF IInv, RowsInv, ClientsInv, RowsAreSound, TypeOK
<1> QED
  BY <1>1, Invariance, PTL

\* The read of deletion_protection before a DELETE is overtaken or is enough: a
\* protected cluster or instance goes only to a request some other write fell into.
THEOREM ProtectedStay == Spec => QuietProtectedStay
<1>1. IInv /\ ProtInv /\ [Next]_vars =>
          [\A e \in Stored : row[e].protected /\ row'[e] = None =>
              \E c \in Clients : pc[c] = "delete" /\ pc'[c] # "delete" /\ ~quiet[c]]_vars
  BY StepInv
<1> QED
  BY <1>1, Invariance, PTL DEF Spec, QuietProtectedStay

\* What a create checked in statements of its own holds of the row it inserts: the VPC
\* of its subnets always, the rest when nothing was written in between; and an update
\* of an item that nothing overlaps changes what it names.
THEOREM WrittenAsChecked == Spec => WritesAreSound
<1>1. IInv /\ LooksInv /\ [Next]_vars => LooksInv'
  BY NextLooks, StutterLooks
<1>2. IInv /\ LooksInv /\ [Next]_vars =>
          [\A c \in Clients, e \in Entities :
              pc[c] = "insert" /\ pc'[c] # "insert" /\ req[c].e = e /\ row'[e] # None =>
                 /\ row[e] = None => CreateIsSound(c, e)
                 /\ req[c].op = "ddbUpdateItem" => UpdateMerges(c, e)]_vars
  BY NextLooks
<1> QED
  BY <1>1, <1>2, InitLooks, Invariance, PTL DEF Spec, WritesAreSound
=============================================================================

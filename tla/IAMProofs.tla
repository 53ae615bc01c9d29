----------------------------- MODULE IAMProofs -----------------------------
(***************************************************************************)
(* That IAM's statements implement the store IAMStore promises, and what   *)
(* that store keeps, for any clients, names, key ids and operations.       *)
(***************************************************************************)
EXTENDS IAM, TLAPS

\* What every state of a store satisfies.
StoreInv == StoreTypeOK /\ NothingOutlivesItsHolder /\ TagsAreOfStoredResources

\* A store begins in StoreInv: with no rows at all.
LEMMA StoreInitInv == StoreInit => StoreInv
BY DEF StoreInit, StoreInv, StoreTypeOK, NothingOutlivesItsHolder, TagsAreOfStoredResources

\* Where what hangs on entities points.
LEMMA Pointers ==
    ASSUME StoreTypeOK
    PROVE  /\ \A a \in att : a[1] \in Entities /\ a[2] \in ARNs
           /\ \A h \in inline : h \in Entities
           /\ \A k \in keys : k[1] \in Entities
           /\ \A q \in inProfile : q[1] \in Entities /\ q[2] \in Entities
           /\ \A arn \in tagged : arn \in ARNs
           /\ \A arn \in ARNs : <<arn[1], arn[2]>> \in Entities
BY DEF StoreTypeOK, Holders, Of, Entities, Kinds, ARNs, PolicyARNs

\* A step of the entity tables that drops no row and moves no ARN disturbs
\* nothing that hangs on them.
LEMMA RowsKeep ==
    ASSUME StoreInv, StoreTypeOK',
           UNCHANGED <<att, inline, keys, inProfile, tagged>>,
           \A f \in Entities : Exists(f) => Exists(f)' /\ row'[f].src = row[f].src
    PROVE  StoreInv'
<1>1. \A arn \in ARNs : Stored(arn) => Stored(arn)'
  BY Pointers DEF StoreInv, Stored, ArnOf
<1>2. NothingOutlivesItsHolder'
  BY <1>1, Pointers DEF StoreInv, NothingOutlivesItsHolder
<1>3. TagsAreOfStoredResources'
  BY <1>1, Pointers DEF StoreInv, TagsAreOfStoredResources
<1> QED BY <1>2, <1>3 DEF StoreInv

\* A step that leaves the entity tables alone keeps every row and ARN.
LEMMA SameRows ==
    ASSUME row' = row
    PROVE  \A x : (Exists(x)' <=> Exists(x)) /\ (Stored(x)' <=> Stored(x))
BY DEF Exists, Stored, ArnOf

\* DropEntity takes a row nothing points to, and the tags of its ARN.
LEMMA DropKeeps ==
    ASSUME StoreInv, NEW e \in Entities, DropEntity(e)
    PROVE  StoreInv'
<1>1. \A f \in Entities : f # e /\ Exists(f) => Exists(f)' /\ row'[f] = row[f]
  BY DEF StoreInv, StoreTypeOK, DropEntity, Exists
<1>2. \A arn \in ARNs : Stored(arn) /\ arn # ArnOf(e) => Stored(arn)'
  <2> SUFFICES ASSUME NEW arn \in ARNs, Stored(arn), arn # ArnOf(e) PROVE Stored(arn)'
    OBVIOUS
  <2>1. <<arn[1], arn[2]>> \in Entities /\ <<arn[1], arn[2]>> # e
    BY Pointers DEF StoreInv, Stored
  <2> QED BY <1>1, <2>1 DEF Stored, ArnOf
<1>3. StoreTypeOK'
  BY DEF StoreInv, StoreTypeOK, DropEntity
<1>4. NothingOutlivesItsHolder'
  <2>1. \A a \in att' : Exists(a[1])' /\ Stored(a[2])'
    BY <1>1, <1>2, Pointers DEF StoreInv, NothingOutlivesItsHolder, DropEntity, Held
  <2>2. \A h \in inline' : Exists(h)'
    BY <1>1, Pointers DEF StoreInv, NothingOutlivesItsHolder, DropEntity, Held
  <2>3. \A k \in keys' : Exists(k[1])'
    BY <1>1, Pointers DEF StoreInv, NothingOutlivesItsHolder, DropEntity, Held
  <2>4. \A q \in inProfile' : Exists(q[1])' /\ Exists(q[2])'
    BY <1>1, Pointers DEF StoreInv, NothingOutlivesItsHolder, DropEntity, Held
  <2> QED BY <2>1, <2>2, <2>3, <2>4 DEF NothingOutlivesItsHolder
<1>5. TagsAreOfStoredResources'
  BY <1>2, Pointers DEF StoreInv, TagsAreOfStoredResources, DropEntity
<1> QED BY <1>3, <1>4, <1>5 DEF StoreInv

\* Every step of a store keeps StoreInv.
LEMMA StoreNextInv == StoreInv /\ [StoreNext]_db => StoreInv'
<1> SUFFICES ASSUME StoreInv, [StoreNext]_db PROVE StoreInv'
  OBVIOUS
<1>1. ASSUME NEW e \in Entities, NEW b \in Bodies, AddEntity(e, b) PROVE StoreInv'
  <2>1. StoreTypeOK'
    BY <1>1 DEF StoreInv, StoreTypeOK, AddEntity
  <2>2. \A f \in Entities : Exists(f) => Exists(f)' /\ row'[f].src = row[f].src
    BY <1>1, NoneAssumption DEF StoreInv, StoreTypeOK, AddEntity, Exists
  <2> QED BY <1>1, <2>1, <2>2, RowsKeep DEF AddEntity
<1>2. ASSUME NEW e \in Entities, NEW b \in Bodies, ChangeEntity(e, b) PROVE StoreInv'
  <2>1. StoreTypeOK'
    BY <1>2 DEF StoreInv, StoreTypeOK, ChangeEntity
  <2>2. \A f \in Entities : Exists(f) => Exists(f)' /\ row'[f].src = row[f].src
    BY <1>2, NoneAssumption DEF StoreInv, StoreTypeOK, ChangeEntity, Exists
  <2> QED BY <1>2, <2>1, <2>2, RowsKeep DEF ChangeEntity
<1>3. ASSUME NEW e \in Entities, DropEntity(e) PROVE StoreInv'
  BY <1>3, DropKeeps
<1>4. CASE ChangeAttachments
  <2>1. \A a \in att' : Exists(a[1])' /\ Stored(a[2])'
    BY <1>4, SameRows DEF StoreInv, NothingOutlivesItsHolder, ChangeAttachments
  <2> QED BY <1>4, <2>1, SameRows DEF StoreInv, StoreTypeOK, NothingOutlivesItsHolder,
                                     TagsAreOfStoredResources, ChangeAttachments
<1>5. CASE ChangeInline
  BY <1>5, SameRows DEF StoreInv, StoreTypeOK, NothingOutlivesItsHolder,
                        TagsAreOfStoredResources, ChangeInline
<1>6. CASE ChangeKeys
  BY <1>6, SameRows DEF StoreInv, StoreTypeOK, NothingOutlivesItsHolder,
                        TagsAreOfStoredResources, ChangeKeys
<1>7. CASE ChangeProfile
  BY <1>7, SameRows DEF StoreInv, StoreTypeOK, NothingOutlivesItsHolder,
                        TagsAreOfStoredResources, ChangeProfile
<1>8. CASE ChangeTags
  BY <1>8, SameRows DEF StoreInv, StoreTypeOK, NothingOutlivesItsHolder,
                        TagsAreOfStoredResources, ChangeTags
<1>9. CASE UNCHANGED db
  BY <1>9 DEF StoreInv, StoreTypeOK, NothingOutlivesItsHolder, TagsAreOfStoredResources,
              db, Exists, Stored, ArnOf
<1> QED BY <1>1, <1>2, <1>3, <1>4, <1>5, <1>6, <1>7, <1>8, <1>9 DEF StoreNext

\* Every store keeps its types, its references and its tags.
THEOREM StoreIsSound == StoreSpec => []StoreInv
<1>1. StoreInit => StoreInv
  BY StoreInitInv
<1>2. StoreInv /\ [StoreNext]_db => StoreInv'
  BY StoreNextInv
<1> QED BY <1>1, <1>2, PTL DEF StoreSpec

\* No step of a store takes an entity that something hangs on.
LEMMA StoreHolds == StoreInv /\ [StoreNext]_db => [\A e \in Entities : Held(e) => row'[e] # None]_db
<1> SUFFICES ASSUME StoreInv, StoreNext, NEW e \in Entities, Held(e) PROVE row'[e] # None
  BY DEF db
<1>1. Exists(e)
  <2>1. CASE \E a \in att : a[1] = e \/ (Exists(e) /\ a[2] = ArnOf(e))
    BY <2>1 DEF StoreInv, NothingOutlivesItsHolder
  <2>2. CASE e \in inline \/ (\E k \in keys : k[1] = e) \/ (\E q \in inProfile : q[2] = e)
    BY <2>2 DEF StoreInv, NothingOutlivesItsHolder
  <2> QED BY <2>1, <2>2 DEF Held
<1>2. ASSUME NEW f \in Entities, NEW b \in Bodies, AddEntity(f, b) \/ ChangeEntity(f, b)
      PROVE  row'[e] # None
  BY <1>1, <1>2, NoneAssumption DEF StoreInv, StoreTypeOK, AddEntity, ChangeEntity, Exists
<1>3. ASSUME NEW f \in Entities, DropEntity(f) PROVE row'[e] # None
  BY <1>1, <1>3 DEF StoreInv, StoreTypeOK, DropEntity, Exists
<1>4. CASE ChangeAttachments \/ ChangeInline \/ ChangeKeys \/ ChangeProfile \/ ChangeTags
  BY <1>1, <1>4 DEF ChangeAttachments, ChangeInline, ChangeKeys, ChangeProfile, ChangeTags, Exists
<1> QED BY <1>2, <1>3, <1>4 DEF StoreNext

-----------------------------------------------------------------------------
\* The requests.

\* A client at work has a request, and one that writes a role back has read it.
AtWork ==
    \A c \in Clients : pc[c] # "idle" =>
        /\ req[c] \in Requests
        /\ pc[c] = "write" /\ req[c].op = "UpdateRole" => got[c] \in Bodies

IInv == TypeOK /\ StoreInv /\ AtWork

\* The operations by the kind of entity they are addressed to.
OnRole == {"CreateRole", "DeleteRole", "UpdateRole", "AttachRolePolicy", "DetachRolePolicy",
           "PutRolePolicy", "DeleteRolePolicy", "TagRole", "UntagRole"}
OnUser == {"CreateUser", "DeleteUser", "CreateAccessKey", "DeleteAccessKey", "AttachUserPolicy",
           "DetachUserPolicy", "PutUserPolicy", "DeleteUserPolicy", "TagUser", "UntagUser"}

\* A request names an entity of its operation's kind, and a policy's ARN or a
\* role where the operation takes one.
LEMMA Target ==
    ASSUME NEW r \in Requests
    PROVE  /\ r.e \in Entities
           /\ r.op \in OnRole => r.e \in Of("role")
           /\ r.op \in OnUser => r.e \in Of("user")
           /\ r.op \in OnRoleToo => r.e \in Of("profile") /\ r.arg \in Of("role")
           /\ r.op \in OnPolicy => r.arg \in PolicyARNs
<1>1. PICK o \in Ops, n \in Names :
        r.op = o /\ r.e = <<OpKind[o], n>> /\ r.arg \in Args(o, <<OpKind[o], n>>)
  <2>1. PICK o \in Ops, n \in Names : r \in RequestsOf(o, n)
    BY DEF Requests
  <2> QED BY <2>1 DEF RequestsOf
<1>2. OpKind[o] \in Kinds
  BY <1>1, OpsAssumption DEF OpKind, Kinds
<1>3. o \in OnRole => OpKind[o] = "role"
  BY DEF OpKind, OnRole
<1>4. o \in OnUser => OpKind[o] = "user"
  BY DEF OpKind, OnUser
<1>5. o \in OnRoleToo => OpKind[o] = "profile" /\ o \notin OnPolicy
  BY DEF OpKind, OnRoleToo, OnPolicy
<1>6. o \in OnPolicy => r.arg \in PolicyARNs
  <2>1. o \in OnPolicy => o \notin OnRoleToo
    BY DEF OnPolicy, OnRoleToo
  <2> QED BY <1>1, <2>1 DEF Args
<1>7. o \in OnRoleToo => r.arg \in Of("role")
  BY <1>1, <1>5 DEF Args, Of
<1> QED BY <1>1, <1>2, <1>3, <1>4, <1>5, <1>6, <1>7 DEF Of, Entities

\* What a statement does to its client: it moves the client on, answers it or
\* keeps the row it read.
Control(c) ==
    /\ pc[c] # "idle"
    /\ req' = req \/ (pc'[c] = "idle" /\ req' = [req EXCEPT ![c] = None])
    /\ pc' \in [Clients -> Places]
    /\ ans' \in [Clients -> Answers]
    /\ got' \in [Clients -> Bodies \cup {None}]
    /\ \A d \in Clients : d # c => pc'[d] = pc[d] /\ got'[d] = got[d]
    /\ pc'[c] = "write" /\ req[c].op = "UpdateRole" => got'[c] \in Bodies

LEMMA GotoControl ==
    ASSUME TypeOK, NEW c \in Clients, NEW p \in Places, pc[c] # "idle", Goto(c, p),
           p = "write" => req[c].op # "UpdateRole"
    PROVE  Control(c)
BY DEF TypeOK, Goto, Control

LEMMA AnswerControl ==
    ASSUME TypeOK, NEW c \in Clients, NEW a \in Answers, pc[c] # "idle", Answer(c, a)
    PROVE  Control(c)
BY DEF TypeOK, Answer, Control, Places

LEMMA LookupControl ==
    ASSUME TypeOK, NEW c \in Clients, NEW place, NEW o, NEW e \in Entities, NEW next \in Places,
           place # "idle", Lookup(c, place, o, e, next)
    PROVE  Control(c) /\ UNCHANGED db
<1>1. pc[c] # "idle" /\ UNCHANGED db
  BY DEF Lookup, At
<1>2. CASE ~Exists(e) /\ Answer(c, "NotFound")
  BY <1>1, <1>2, AnswerControl DEF Answers
<1>3. CASE Exists(e) /\ pc' = [pc EXCEPT ![c] = next] /\ got' = [got EXCEPT ![c] = row[e]]
           /\ UNCHANGED <<req, ans>>
  <2>1. row[e] \in Bodies
    BY <1>3 DEF TypeOK, StoreTypeOK, Exists
  <2> QED BY <1>1, <1>3, <2>1 DEF TypeOK, Control
<1> QED BY <1>1, <1>2, <1>3 DEF Lookup

\* A row that passes DELETE's NOT EXISTS and RESTRICT keys is one nothing holds,
\* and the cascades then take only a profile's role.
LEMMA RemoveIsDrop ==
    ASSUME StoreInv, NEW e \in Entities, Exists(e), ~Attached(e), ~Restricted(e), Remove(e)
    PROVE  DropEntity(e)
<1>1. ~Held(e)
  <2>1. ~(\E a \in att : a[1] = e \/ (Exists(e) /\ a[2] = ArnOf(e)))
    BY DEF Attached
  <2>2. e \notin inline
    BY DEF StoreInv, StoreTypeOK, Attached, Restricted, Holders, Of
  <2>3. ~(\E k \in keys : k[1] = e)
    BY DEF StoreInv, StoreTypeOK, Attached, Of
  <2>4. ~(\E q \in inProfile : q[2] = e)
    BY DEF StoreInv, StoreTypeOK, Restricted, Of
  <2> QED BY <2>1, <2>2, <2>3, <2>4 DEF Held
<1>2. att' = att /\ inline' = inline /\ keys' = keys
  BY <1>1 DEF Remove, Held
<1> QED BY <1>1, <1>2 DEF Remove, DropEntity

LEMMA DeleteStep ==
    ASSUME IInv, NEW c \in Clients, NEW o \in Deletes, Delete(c, o)
    PROVE  [StoreNext]_db /\ Control(c)
<1> DEFINE e == req[c].e
<1>1. pc[c] # "idle" /\ e \in Entities /\ TypeOK /\ StoreInv
  BY Target DEF IInv, AtWork, Delete, At
<1>2. CASE Exists(e) /\ ~Attached(e) /\ ~Restricted(e) /\ Remove(e) /\ Answer(c, "ok")
  BY <1>1, <1>2, RemoveIsDrop, AnswerControl DEF StoreNext, Answers
<1>3. CASE Answer(c, "InUse") /\ UNCHANGED db
  BY <1>1, <1>3, AnswerControl DEF Answers
<1>4. CASE /\ IF o = "DeleteInstanceProfile" THEN Answer(c, "NotFound") ELSE Goto(c, "confirm")
           /\ UNCHANGED db
  BY <1>1, <1>4, AnswerControl, GotoControl DEF Answers, Places
<1>5. CASE Answer(c, IF Exists(e) THEN "InUse" ELSE "NotFound") /\ UNCHANGED db
  BY <1>1, <1>5, AnswerControl DEF Answers
<1> QED BY <1>2, <1>3, <1>4, <1>5 DEF Delete

LEMMA CreateStep ==
    ASSUME IInv, NEW c \in Clients, NEW o \in Creates, Create(c, o)
    PROVE  [StoreNext]_db /\ Control(c)
<1> DEFINE e == req[c].e
<1>1. pc[c] # "idle" /\ e \in Entities /\ TypeOK /\ StoreInv
  BY Target DEF IInv, AtWork, Create, tagCreated, At
<1>2. CASE Answer(c, "Conflict") /\ UNCHANGED db
  BY <1>1, <1>2, AnswerControl DEF Answers
<1>3. CASE /\ ~Exists(e)
           /\ row' = [row EXCEPT ![e] = [src |-> "own", desc |-> None]]
           /\ IF req[c].tags THEN Goto(c, "tag") ELSE Answer(c, "ok")
           /\ UNCHANGED <<att, inline, keys, inProfile, tagged>>
  <2>1. [src |-> "own", desc |-> None] \in Bodies
    BY DEF Bodies
  <2>2. StoreNext
    BY <1>1, <1>3, <2>1 DEF StoreNext, AddEntity
  <2> QED BY <1>1, <1>3, <2>2, AnswerControl, GotoControl DEF Answers, Places
<1>4. CASE /\ Stored(Own(e))
           /\ tagged' = tagged \cup {Own(e)}
           /\ Answer(c, "ok")
           /\ UNCHANGED <<row, att, inline, keys, inProfile>>
  <2>1. Own(e) \in ARNs
    BY <1>1 DEF Own, ARNs, Entities
  <2> QED BY <1>1, <1>4, <2>1, AnswerControl DEF StoreNext, ChangeTags, Answers
<1>5. CASE Goto(c, "undo") /\ UNCHANGED db
  BY <1>1, <1>5, GotoControl DEF Places
<1>6. CASE /\ IF Exists(e) /\ ~Attached(e) /\ ~Restricted(e) THEN Remove(e) ELSE UNCHANGED db
           /\ Answer(c, "NotFound")
  BY <1>1, <1>6, RemoveIsDrop, AnswerControl DEF StoreNext, Answers
<1> QED BY <1>2, <1>3, <1>4, <1>5, <1>6 DEF Create, tagCreated

LEMMA UpdateRoleStep ==
    ASSUME IInv, NEW c \in Clients, UpdateRole(c)
    PROVE  [StoreNext]_db /\ Control(c)
<1> DEFINE e == req[c].e
<1>1. pc[c] # "idle" /\ e \in Entities /\ TypeOK /\ StoreInv
  BY Target DEF IInv, AtWork, UpdateRole, Lookup, At
<1>2. CASE Lookup(c, "start", "UpdateRole", e, "write")
  BY <1>1, <1>2, LookupControl DEF Places
<1>3. CASE Answer(c, "NotFound") /\ UNCHANGED db
  BY <1>1, <1>3, AnswerControl DEF Answers
<1>4. CASE /\ At(c, "write", "UpdateRole") /\ Exists(e)
           /\ row' = [row EXCEPT ![e] = [got[c] EXCEPT !.desc = c, !.src = row[e].src]]
           /\ Answer(c, "ok")
           /\ UNCHANGED <<att, inline, keys, inProfile, tagged>>
  <2> DEFINE b == [got[c] EXCEPT !.desc = c, !.src = row[e].src]
  <2>1. got[c] \in Bodies
    BY <1>4 DEF IInv, AtWork, At
  <2>2. row[e] \in Bodies
    BY <1>1, <1>4 DEF StoreInv, StoreTypeOK, Exists
  <2>3. b \in Bodies /\ b.src = row[e].src
    BY <2>1, <2>2 DEF Bodies
  <2>4. ChangeEntity(e, b)
    BY <1>4, <2>3 DEF ChangeEntity
  <2> QED BY <1>1, <1>4, <2>3, <2>4, AnswerControl DEF StoreNext, Answers
<1> QED BY <1>2, <1>3, <1>4 DEF UpdateRole

LEMMA AttachStep ==
    ASSUME IInv, NEW c \in Clients, NEW o \in {"AttachRolePolicy", "AttachUserPolicy"}, Attach(c, o)
    PROVE  [StoreNext]_db /\ Control(c)
<1> DEFINE e == req[c].e
           arg == req[c].arg
<1>1. pc[c] # "idle" /\ req[c].op = o /\ TypeOK /\ StoreInv /\ req[c] \in Requests
  BY DEF IInv, AtWork, Attach, SeedManagedPolicy, Lookup, InsertAttachment, At
<1>2. e \in Holders /\ e \in Entities /\ arg \in PolicyARNs /\ o # "UpdateRole"
  BY <1>1, Target DEF Holders, OnPolicy, OnRole, OnUser
<1>3. CASE SeedManagedPolicy(c, o)
  <2> DEFINE p == <<"policy", arg[2]>>
             b == [src |-> "aws", desc |-> None]
  <2>1. p \in Entities /\ b \in Bodies
    BY <1>2 DEF PolicyARNs, Entities, Kinds, Bodies
  <2>2. CASE arg[3] = "aws" /\ ~Exists(p)
    <3>1. AddEntity(p, b)
      BY <1>3, <2>2 DEF SeedManagedPolicy, AddEntity
    <3> QED BY <1>1, <1>3, <2>1, <3>1, GotoControl DEF StoreNext, SeedManagedPolicy, Places
  <2>3. CASE ~(arg[3] = "aws" /\ ~Exists(p))
    BY <1>1, <1>3, <2>3, GotoControl DEF SeedManagedPolicy, db, Places
  <2> QED BY <2>2, <2>3
<1>4. CASE Lookup(c, "holder", o, e, "write")
  BY <1>1, <1>2, <1>4, LookupControl DEF Places
<1>5. CASE InsertAttachment(c, o)
  <2> DEFINE done == Stored(arg) /\ <<e, arg>> \notin att /\ Exists(e)
  <2>1. CASE done
    <3>1. Exists(e) /\ Stored(arg) /\ att' = att \cup {<<e, arg>>} /\ Answer(c, "ok")
      BY <1>5, <2>1 DEF InsertAttachment
    <3>2. ChangeAttachments
      BY <1>2, <1>5, <3>1 DEF ChangeAttachments, InsertAttachment
    <3> QED BY <1>1, <3>1, <3>2, AnswerControl DEF StoreNext, Answers
  <2>2. CASE ~done
    <3>1. UNCHANGED db /\ \E a \in Answers : Answer(c, a)
      BY <1>5, <2>2 DEF InsertAttachment, db, Answers
    <3> QED BY <1>1, <3>1, AnswerControl
  <2> QED BY <2>1, <2>2
<1> QED BY <1>3, <1>4, <1>5 DEF Attach

LEMMA DetachStep ==
    ASSUME IInv, NEW c \in Clients, NEW o, Detach(c, o)
    PROVE  [StoreNext]_db /\ Control(c)
<1>1. pc[c] # "idle" /\ TypeOK
  BY DEF IInv, Detach, At
<1>2. ChangeAttachments /\ \E a \in Answers : Answer(c, a)
  BY DEF Detach, ChangeAttachments, Answers
<1> QED BY <1>1, <1>2, AnswerControl DEF StoreNext

LEMMA UpsertStep ==
    ASSUME IInv, NEW c \in Clients, NEW place, NEW o, NEW missing \in Answers,
           place # "idle", UpsertInline(c, place, o, missing), req[c].e \in Holders
    PROVE  [StoreNext]_db /\ Control(c)
<1>1. pc[c] # "idle" /\ TypeOK
  BY DEF IInv, UpsertInline, At
<1>2. ChangeInline
  BY DEF UpsertInline, ChangeInline
<1>3. \E a \in Answers : Answer(c, a)
  BY DEF UpsertInline, Answers
<1> QED BY <1>1, <1>2, <1>3, AnswerControl DEF StoreNext

LEMMA InlineStep ==
    ASSUME IInv, NEW c \in Clients,
           PutRolePolicy(c) \/ PutUserPolicy(c) \/ DeleteRolePolicy(c) \/ DeleteUserPolicy(c)
    PROVE  [StoreNext]_db /\ Control(c)
<1>1. TypeOK
  BY DEF IInv
<1>2. CASE PutRolePolicy(c)
  <2>1. req[c].e \in Holders
    BY <1>2, Target DEF IInv, AtWork, PutRolePolicy, UpsertInline, At, Holders, OnRole
  <2> QED BY <1>2, <2>1, UpsertStep DEF PutRolePolicy, Answers
<1>3. CASE PutUserPolicy(c)
  <2>1. req[c].e \in Holders /\ req[c].e \in Entities
    BY <1>3, Target DEF IInv, AtWork, PutUserPolicy, Lookup, UpsertInline, At, Holders, OnUser
  <2>2. CASE Lookup(c, "start", "PutUserPolicy", req[c].e, "write")
    BY <1>1, <2>1, <2>2, LookupControl DEF Places
  <2>3. CASE UpsertInline(c, "write", "PutUserPolicy", "failed")
    BY <2>1, <2>3, UpsertStep DEF Answers
  <2> QED BY <1>3, <2>2, <2>3 DEF PutUserPolicy
<1>4. ASSUME NEW o, DeleteInline(c, o) PROVE [StoreNext]_db /\ Control(c)
  <2>1. pc[c] # "idle" /\ ChangeInline /\ \E a \in Answers : Answer(c, a)
    BY <1>4 DEF DeleteInline, At, ChangeInline, Answers
  <2> QED BY <1>1, <2>1, AnswerControl DEF StoreNext
<1> QED BY <1>2, <1>3, <1>4 DEF DeleteRolePolicy, DeleteUserPolicy

LEMMA AccessKeyStep ==
    ASSUME IInv, NEW c \in Clients, CreateAccessKey(c) \/ DeleteAccessKey(c)
    PROVE  [StoreNext]_db /\ Control(c)
<1> DEFINE e == req[c].e
<1>1. pc[c] # "idle" /\ e \in Of("user") /\ e \in Entities /\ TypeOK
  BY Target DEF IInv, AtWork, CreateAccessKey, DeleteAccessKey, Lookup, At, OnUser
<1>2. CASE Lookup(c, "start", "CreateAccessKey", e, "write")
  BY <1>1, <1>2, LookupControl DEF Places
<1>3. CASE Answer(c, "NotFound") /\ UNCHANGED db
  BY <1>1, <1>3, AnswerControl DEF Answers
<1>4. CASE /\ Exists(e)
           /\ \E k \in KeyIds :
                 /\ keys' = keys \cup {<<e, k>>}
                 /\ Answer(c, IF <<e, k>> \in keys THEN "Conflict" ELSE "ok")
           /\ UNCHANGED <<row, att, inline, inProfile, tagged>>
  <2>1. ChangeKeys /\ \E a \in Answers : Answer(c, a)
    BY <1>1, <1>4 DEF ChangeKeys, Answers
  <2> QED BY <1>1, <2>1, AnswerControl DEF StoreNext
<1>5. CASE DeleteAccessKey(c)
  <2>1. ChangeKeys /\ \E a \in Answers : Answer(c, a)
    BY <1>5 DEF DeleteAccessKey, ChangeKeys, Answers
  <2> QED BY <1>1, <2>1, AnswerControl DEF StoreNext
<1> QED BY <1>2, <1>3, <1>4, <1>5 DEF CreateAccessKey

LEMMA ProfileStep ==
    ASSUME IInv, NEW c \in Clients,
           AddRoleToInstanceProfile(c) \/ RemoveRoleFromInstanceProfile(c)
    PROVE  [StoreNext]_db /\ Control(c)
<1> DEFINE o == "AddRoleToInstanceProfile"
           e == req[c].e
           r == req[c].arg
           taken == \E q \in inProfile : q[1] = e
<1>1. pc[c] # "idle" /\ e \in Of("profile") /\ r \in Of("role") /\ TypeOK
  BY Target DEF IInv, AtWork, AddRoleToInstanceProfile, RemoveRoleFromInstanceProfile,
                Lookup, At, OnRoleToo
<1>2. e \in Entities /\ r \in Entities
  BY <1>1 DEF Of, Entities, Kinds
<1>3. CASE Lookup(c, "start", o, e, "role")
  BY <1>1, <1>2, <1>3, LookupControl DEF Places
<1>4. CASE Lookup(c, "role", o, r, "write")
  BY <1>1, <1>2, <1>4, LookupControl DEF Places
<1>5. CASE /\ IF ~taken /\ Exists(e) /\ Exists(r)
              THEN inProfile' = inProfile \cup {<<e, r>>} /\ Answer(c, "ok")
              ELSE UNCHANGED inProfile /\ Answer(c, IF taken THEN "Limit" ELSE "NotFound")
           /\ UNCHANGED <<row, att, inline, keys, tagged>>
  <2>1. ChangeProfile
    BY <1>1, <1>5 DEF ChangeProfile
  <2>2. \E a \in Answers : Answer(c, a)
    BY <1>5 DEF Answers
  <2> QED BY <1>1, <2>1, <2>2, AnswerControl DEF StoreNext
<1>6. CASE RemoveRoleFromInstanceProfile(c)
  <2>1. ChangeProfile /\ \E a \in Answers : Answer(c, a)
    BY <1>6 DEF RemoveRoleFromInstanceProfile, ChangeProfile, Answers
  <2> QED BY <1>1, <2>1, AnswerControl DEF StoreNext
<1> QED BY <1>3, <1>4, <1>5, <1>6 DEF AddRoleToInstanceProfile

LEMMA TagStep ==
    ASSUME IInv, NEW c \in Clients, NEW o, NEW add, o # "UpdateRole",
           iamTaggedARN(c, o) \/ ChangeResourceTags(c, o, add)
    PROVE  [StoreNext]_db /\ Control(c)
<1>1. pc[c] # "idle" /\ req[c].op = o /\ TypeOK /\ req[c] \in Requests
  BY DEF IInv, AtWork, iamTaggedARN, ChangeResourceTags, Lookup, At
<1>2. req[c].e \in Entities /\ TagArn(c) \in ARNs
  BY <1>1, Target DEF TagArn, Own, Entities, ARNs, PolicyARNs, Kinds
<1>3. CASE iamTaggedARN(c, o)
  <2>1. CASE Goto(c, "write") /\ UNCHANGED db
    BY <1>1, <2>1, GotoControl DEF Places
  <2>2. CASE Lookup(c, "start", o, req[c].e, "write")
    BY <1>1, <1>2, <2>2, LookupControl DEF Places
  <2> QED BY <1>3, <2>1, <2>2 DEF iamTaggedARN
<1>4. CASE ChangeResourceTags(c, o, add)
  <2>1. CASE /\ Stored(TagArn(c))
             /\ tagged' = IF add THEN tagged \cup {TagArn(c)} ELSE tagged \ {TagArn(c)}
             /\ Answer(c, "ok")
             /\ UNCHANGED <<row, att, inline, keys, inProfile>>
    <3>1. ChangeTags
      BY <1>2, <2>1 DEF ChangeTags
    <3> QED BY <1>1, <2>1, <3>1, AnswerControl DEF StoreNext, Answers
  <2>2. CASE Answer(c, "NotFound") /\ UNCHANGED db
    BY <1>1, <2>2, AnswerControl DEF Answers
  <2> QED BY <1>4, <2>1, <2>2 DEF ChangeResourceTags
<1> QED BY <1>3, <1>4

\* Every statement of every handler is a step of the store or leaves it alone.
LEMMA HandleStep ==
    ASSUME IInv, NEW c \in Clients, Handle(c)
    PROVE  [StoreNext]_db /\ Control(c)
<1>1. CASE CreateRole(c) \/ CreatePolicy(c) \/ CreateUser(c) \/ CreateInstanceProfile(c)
  BY <1>1, CreateStep DEF CreateRole, CreatePolicy, CreateUser, CreateInstanceProfile, Creates
<1>2. CASE DeleteRole(c) \/ DeletePolicy(c) \/ DeleteUser(c) \/ DeleteInstanceProfile(c)
  BY <1>2, DeleteStep DEF DeleteRole, DeletePolicy, DeleteUser, DeleteInstanceProfile, Deletes
<1>3. CASE UpdateRole(c)
  BY <1>3, UpdateRoleStep
<1>4. CASE CreateAccessKey(c) \/ DeleteAccessKey(c)
  BY <1>4, AccessKeyStep
<1>5. CASE AddRoleToInstanceProfile(c) \/ RemoveRoleFromInstanceProfile(c)
  BY <1>5, ProfileStep
<1>6. CASE AttachRolePolicy(c) \/ AttachUserPolicy(c)
  BY <1>6, AttachStep DEF AttachRolePolicy, AttachUserPolicy
<1>7. CASE DetachRolePolicy(c) \/ DetachUserPolicy(c)
  BY <1>7, DetachStep DEF DetachRolePolicy, DetachUserPolicy
<1>8. CASE PutRolePolicy(c) \/ DeleteRolePolicy(c) \/ PutUserPolicy(c) \/ DeleteUserPolicy(c)
  BY <1>8, InlineStep
<1>9. CASE iamTag(c) \/ iamUntag(c)
  BY <1>9, TagStep DEF iamTag, iamUntag
<1> QED BY <1>1, <1>2, <1>3, <1>4, <1>5, <1>6, <1>7, <1>8, <1>9 DEF Handle

\* Every step of IAM is a step of the store, and keeps the invariant.
LEMMA NextStep == IInv /\ [Next]_vars => [StoreNext]_db /\ IInv'
<1> SUFFICES ASSUME IInv, [Next]_vars PROVE [StoreNext]_db /\ IInv'
  OBVIOUS
<1>1. ASSUME [StoreNext]_db PROVE StoreInv' /\ StoreTypeOK'
  BY <1>1, StoreNextInv DEF IInv, StoreInv
<1>2. ASSUME NEW c \in Clients, Handle(c) PROVE [StoreNext]_db /\ IInv'
  <2>1. [StoreNext]_db /\ Control(c)
    BY <1>2, HandleStep
  <2>2. TypeOK' /\ StoreInv'
    BY <1>1, <2>1 DEF IInv, TypeOK, Control
  <2>3. AtWork'
    <3>1. CASE req' = req
      BY <2>1, <3>1 DEF IInv, AtWork, Control
    <3>2. CASE pc'[c] = "idle" /\ req' = [req EXCEPT ![c] = None]
      <4>1. \A d \in Clients : d # c => pc'[d] = pc[d] /\ got'[d] = got[d] /\ req'[d] = req[d]
        BY <2>1, <3>2 DEF IInv, TypeOK, Control
      <4> QED BY <3>2, <4>1 DEF IInv, AtWork
    <3> QED BY <2>1, <3>1, <3>2 DEF Control
  <2> QED BY <2>1, <2>2, <2>3 DEF IInv
<1>3. ASSUME NEW c \in Clients, NEW r \in Requests, Send(c, r) PROVE [StoreNext]_db /\ IInv'
  <2>1. [StoreNext]_db
    BY <1>3 DEF Send
  <2>2. TypeOK' /\ StoreInv'
    BY <1>1, <1>3, <2>1 DEF IInv, TypeOK, Send, Places, Answers
  <2>3. AtWork'
    BY <1>3 DEF IInv, TypeOK, AtWork, Send
  <2> QED BY <2>1, <2>2, <2>3 DEF IInv
<1>4. CASE UNCHANGED vars
  <2>1. UNCHANGED db
    BY <1>4 DEF vars, db
  <2>2. TypeOK' /\ StoreInv'
    BY <1>1, <1>4, <2>1 DEF IInv, TypeOK, vars
  <2>3. AtWork'
    BY <1>4 DEF IInv, AtWork, vars
  <2> QED BY <2>1, <2>2, <2>3 DEF IInv
<1> QED BY <1>2, <1>3, <1>4 DEF Next

\* IAM keeps its invariant.
THEOREM Invariance == Spec => []IInv
<1>1. Init => IInv
  BY StoreInitInv DEF Init, IInv, TypeOK, StoreInv, AtWork, Places, Answers
<1>2. IInv /\ [Next]_vars => IInv'
  BY NextStep
<1> QED BY <1>1, <1>2, PTL DEF Spec

\* Every variable keeps its type.
THEOREM TypeCorrect == Spec => []TypeOK
<1>1. IInv => TypeOK
  BY DEF IInv
<1> QED BY <1>1, Invariance, PTL

\* NOT EXISTS, foreign keys and triggers, statement by statement and in any
\* order of requests, implement the store IAM promises.
THEOREM Implementation == Spec => ImplementsIAMStore
<1>1. Init => StoreInit
  BY DEF Init
<1>2. IInv /\ [Next]_vars => [StoreNext]_db
  BY NextStep
<1> QED BY <1>1, <1>2, Invariance, PTL DEF Spec, ImplementsIAMStore, StoreSpec

\* No attachment, inline policy, key, profile role or tag is left of an entity
\* that is gone, however deletes race with what adds them.
THEOREM NothingLeft == Spec => []NothingIsLeftBehind
<1>1. IInv => NothingIsLeftBehind
  BY DEF IInv, StoreInv, NothingIsLeftBehind
<1> QED BY <1>1, Invariance, PTL

\* No request, nor the undo of one, takes an entity that something hangs on.
THEOREM HeldStay == Spec => HeldEntitiesStay
<1>1. IInv /\ [Next]_vars => [\A e \in Entities : Held(e) => row'[e] # None]_db
  BY NextStep, StoreHolds DEF IInv
<1> QED BY <1>1, Invariance, PTL DEF Spec, HeldEntitiesStay
=============================================================================

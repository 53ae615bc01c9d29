-------------------------------- MODULE IAM --------------------------------
(***************************************************************************)
(* IAM in one account: roles, users, managed policies and instance         *)
(* profiles, what hangs on them (attachments, inline policies, access      *)
(* keys, a profile's role, tags) and the requests that change them, each   *)
(* taken one SQL statement at a time.                                      *)
(*                                                                         *)
(* Requests hold identityMu shared, so they run beside one another; the    *)
(* database has one connection, so each statement or transaction is one    *)
(* step.  A read-only request, and the read a failed request makes only to *)
(* word its error, change nothing and are left out.                        *)
(***************************************************************************)
EXTENDS IAMStore

CONSTANT Mixes \* sets of operations: the clients of a behaviour send those of one

\* The kind of entity each operation is addressed to.
OpKind == [
    CreateRole |-> "role", DeleteRole |-> "role", UpdateRole |-> "role",
    CreatePolicy |-> "policy", DeletePolicy |-> "policy",
    CreateUser |-> "user", DeleteUser |-> "user",
    CreateInstanceProfile |-> "profile", DeleteInstanceProfile |-> "profile",
    AddRoleToInstanceProfile |-> "profile", RemoveRoleFromInstanceProfile |-> "profile",
    CreateAccessKey |-> "user", DeleteAccessKey |-> "user",
    AttachRolePolicy |-> "role", DetachRolePolicy |-> "role",
    AttachUserPolicy |-> "user", DetachUserPolicy |-> "user",
    PutRolePolicy |-> "role", DeleteRolePolicy |-> "role",
    PutUserPolicy |-> "user", DeleteUserPolicy |-> "user",
    TagRole |-> "role", UntagRole |-> "role",
    TagUser |-> "user", UntagUser |-> "user",
    TagInstanceProfile |-> "profile", UntagInstanceProfile |-> "profile",
    TagPolicy |-> "policy", UntagPolicy |-> "policy" ]

Ops == UNION Mixes

ASSUME OpsAssumption == Ops \subseteq DOMAIN OpKind

Creates == {"CreateRole", "CreatePolicy", "CreateUser", "CreateInstanceProfile"}
Deletes == {"DeleteRole", "DeletePolicy", "DeleteUser", "DeleteInstanceProfile"}
OnPolicy == {"AttachRolePolicy", "DetachRolePolicy", "AttachUserPolicy",
             "DetachUserPolicy", "TagPolicy", "UntagPolicy"}
OnRoleToo == {"AddRoleToInstanceProfile", "RemoveRoleFromInstanceProfile"}

Own(e) == <<e[1], e[2], "own">>

\* What a request of operation o on entity e names besides it.
Args(o, e) == CASE o \in OnPolicy -> PolicyARNs
                [] o \in OnRoleToo -> {"role"} \X Names
                [] OTHER -> {e}

RequestsOf(o, n) ==
    [op: {o}, e: {<<OpKind[o], n>>}, arg: Args(o, <<OpKind[o], n>>),
     tags: IF o \in Creates THEN BOOLEAN ELSE {TRUE}]

Requests == UNION {UNION {RequestsOf(o, n) : n \in Names} : o \in Ops}

-----------------------------------------------------------------------------
VARIABLES
    ops,              \* the operations sent in this behaviour
    pc, req, got, ans \* each client's place, request, row read and answer

vars == <<row, att, inline, keys, inProfile, tagged, ops, pc, req, got, ans>>

Places == {"idle", "start", "holder", "role", "write", "confirm", "tag", "undo"}
Answers == {"none", "ok", "NotFound", "Conflict", "InUse", "Limit", "failed"}

Init ==
    /\ StoreInit
    /\ ops \in Mixes
    /\ pc = [c \in Clients |-> "idle"]
    /\ req = [c \in Clients |-> None]
    /\ got = [c \in Clients |-> None]
    /\ ans = [c \in Clients |-> "none"]

\* A client sends a request.
Send(c, r) ==
    /\ pc[c] = "idle" /\ r.op \in ops
    /\ pc' = [pc EXCEPT ![c] = "start"]
    /\ req' = [req EXCEPT ![c] = r]
    /\ ans' = [ans EXCEPT ![c] = "none"]
    /\ UNCHANGED <<db, got>>

At(c, place, o) == pc[c] = place /\ req[c].op = o

Goto(c, place) == pc' = [pc EXCEPT ![c] = place] /\ UNCHANGED <<req, got, ans>>

\* The answer ends the request, and what it held with it.
Answer(c, a) ==
    /\ pc' = [pc EXCEPT ![c] = "idle"]
    /\ req' = [req EXCEPT ![c] = None]
    /\ got' = [got EXCEPT ![c] = None]
    /\ ans' = [ans EXCEPT ![c] = a]

\* GetRole, GetUser or GetInstanceProfile: NotFound, or on to the next step.
Lookup(c, place, o, e, next) ==
    /\ At(c, place, o)
    /\ \/ ~Exists(e) /\ Answer(c, "NotFound")
       \/ /\ Exists(e)
          /\ pc' = [pc EXCEPT ![c] = next]
          /\ got' = [got EXCEPT ![c] = row[e]]
          /\ UNCHANGED <<req, ans>>
    /\ UNCHANGED db

-----------------------------------------------------------------------------
\* DELETE of an entity: refused by its own NOT EXISTS (Attached), or by a
\* RESTRICT foreign key (Restricted).

\* A variant for the runs' mutants: DeleteUser's NOT EXISTS without the keys.
AttachedButKeys(e) ==
    \/ \E a \in att : a[1] = e \/ (Exists(e) /\ a[2] = ArnOf(e))
    \/ e[1] = "user" /\ e \in inline

Attached(e) ==
    \/ \E a \in att : a[1] = e \/ (Exists(e) /\ a[2] = ArnOf(e))
    \/ e[1] = "user" /\ (e \in inline \/ \E k \in keys : k[1] = e)

Restricted(e) == e[1] = "role" /\ (e \in inline \/ \E q \in inProfile : q[2] = e)

\* A variant for the runs' mutants: no AFTER DELETE trigger.
RemoveKeepingTags(e) ==
    /\ row' = [row EXCEPT ![e] = None]
    /\ att' = {a \in att : a[1] # e}
    /\ inline' = inline \ {e}
    /\ keys' = {k \in keys : k[1] # e}
    /\ inProfile' = {q \in inProfile : q[1] # e}
    /\ UNCHANGED tagged

\* The row goes, its children by ON DELETE CASCADE and its tags by the table's
\* AFTER DELETE trigger.
Remove(e) ==
    /\ row' = [row EXCEPT ![e] = None]
    /\ att' = {a \in att : a[1] # e}
    /\ inline' = inline \ {e}
    /\ keys' = {k \in keys : k[1] # e}
    /\ inProfile' = {q \in inProfile : q[1] # e}
    /\ tagged' = tagged \ {ArnOf(e)}

\* DELETE, then a read to tell an absent entity from a held one.
Delete(c, o) ==
    LET e == req[c].e IN
    \/ /\ At(c, "start", o)
       /\ Exists(e) /\ ~Attached(e) /\ ~Restricted(e)
       /\ Remove(e)
       /\ Answer(c, "ok")
    \/ /\ At(c, "start", o)
       /\ Exists(e) /\ ~Attached(e) /\ Restricted(e)
       /\ Answer(c, "InUse")
       /\ UNCHANGED db
    \/ /\ At(c, "start", o)
       /\ ~Exists(e) \/ Attached(e)
       /\ IF o = "DeleteInstanceProfile" THEN Answer(c, "NotFound") ELSE Goto(c, "confirm")
       /\ UNCHANGED db
    \/ /\ At(c, "confirm", o)
       /\ Answer(c, IF Exists(e) THEN "InUse" ELSE "NotFound")
       /\ UNCHANGED db

DeleteRole(c)            == Delete(c, "DeleteRole")
DeletePolicy(c)          == Delete(c, "DeletePolicy")
DeleteUser(c)            == Delete(c, "DeleteUser")
DeleteInstanceProfile(c) == Delete(c, "DeleteInstanceProfile")

-----------------------------------------------------------------------------
\* Creates: INSERT, then tagCreated with the tags the request carries.

\* tagCreated: tags what was created; when that fails, deletes it again.
tagCreated(c, o) ==
    LET e == req[c].e IN
    \/ /\ At(c, "tag", o) /\ Stored(Own(e))
       /\ tagged' = tagged \cup {Own(e)}
       /\ Answer(c, "ok")
       /\ UNCHANGED <<row, att, inline, keys, inProfile>>
    \/ /\ At(c, "tag", o) /\ ~Stored(Own(e))
       /\ Goto(c, "undo")
       /\ UNCHANGED db
    \/ /\ At(c, "undo", o)
       /\ IF Exists(e) /\ ~Attached(e) /\ ~Restricted(e) THEN Remove(e) ELSE UNCHANGED db
       /\ Answer(c, "NotFound")

Create(c, o) ==
    LET e == req[c].e IN
    \/ /\ At(c, "start", o) /\ Exists(e)
       /\ Answer(c, "Conflict")
       /\ UNCHANGED db
    \/ /\ At(c, "start", o) /\ ~Exists(e)
       /\ row' = [row EXCEPT ![e] = [src |-> "own", desc |-> None]]
       /\ IF req[c].tags THEN Goto(c, "tag") ELSE Answer(c, "ok")
       /\ UNCHANGED <<att, inline, keys, inProfile, tagged>>
    \/ tagCreated(c, o)

CreateRole(c)            == Create(c, "CreateRole")
CreatePolicy(c)          == Create(c, "CreatePolicy")
CreateUser(c)            == Create(c, "CreateUser")
CreateInstanceProfile(c) == Create(c, "CreateInstanceProfile")

\* UpdateRole and UpdateRoleDescription: read the row, write it back changed.
UpdateRole(c) ==
    LET e == req[c].e IN
    \/ Lookup(c, "start", "UpdateRole", e, "write")
    \/ /\ At(c, "write", "UpdateRole") /\ ~Exists(e)
       /\ Answer(c, "NotFound")
       /\ UNCHANGED db
    \/ /\ At(c, "write", "UpdateRole") /\ Exists(e)
       /\ row' = [row EXCEPT ![e] = [got[c] EXCEPT !.desc = c, !.src = row[e].src]]
       /\ Answer(c, "ok")
       /\ UNCHANGED <<att, inline, keys, inProfile, tagged>>

-----------------------------------------------------------------------------
\* Attachments of managed policies.

\* SeedManagedPolicy: INSERT OR IGNORE of an AWS-managed policy's stub, whose
\* conflict is on the (account, name) key.
SeedManagedPolicy(c, o) ==
    LET p == <<"policy", req[c].arg[2]>> IN
    /\ At(c, "start", o)
    /\ IF req[c].arg[3] = "aws" /\ ~Exists(p)
       THEN row' = [row EXCEPT ![p] = [src |-> "aws", desc |-> None]]
       ELSE UNCHANGED row
    /\ Goto(c, "holder")
    /\ UNCHANGED <<att, inline, keys, inProfile, tagged>>

\* A variant for the runs' mutants: the insert with the policy's name for its
\* ARN.
InsertNamed(c, o) ==
    LET e == req[c].e  pair == <<req[c].e, <<"policy", req[c].arg[2]>>>> IN
    /\ At(c, "write", o)
    /\ IF Stored(req[c].arg) /\ pair \notin att /\ Exists(e)
       THEN att' = att \cup {pair} /\ Answer(c, "ok")
       ELSE UNCHANGED att /\ Answer(c, "NotFound")
    /\ UNCHANGED <<row, inline, keys, inProfile, tagged>>

\* INSERT ... SELECT ... WHERE EXISTS the policy: no row inserted, or the
\* holder's foreign key failing, is NotFound; the primary key Conflict.
InsertAttachment(c, o) ==
    LET e == req[c].e  pair == <<req[c].e, req[c].arg>> IN
    /\ At(c, "write", o)
    /\ IF Stored(req[c].arg) /\ pair \notin att /\ Exists(e)
       THEN att' = att \cup {pair} /\ Answer(c, "ok")
       ELSE /\ UNCHANGED att
            /\ Answer(c, IF Stored(req[c].arg) /\ pair \in att THEN "Conflict" ELSE "NotFound")
    /\ UNCHANGED <<row, inline, keys, inProfile, tagged>>

Attach(c, o) ==
    \/ SeedManagedPolicy(c, o)
    \/ Lookup(c, "holder", o, req[c].e, "write")
    \/ InsertAttachment(c, o)

AttachRolePolicy(c) == Attach(c, "AttachRolePolicy")
AttachUserPolicy(c) == Attach(c, "AttachUserPolicy")

Detach(c, o) ==
    LET pair == <<req[c].e, req[c].arg>> IN
    /\ At(c, "start", o)
    /\ att' = att \ {pair}
    /\ Answer(c, IF pair \in att THEN "ok" ELSE "NotFound")
    /\ UNCHANGED <<row, inline, keys, inProfile, tagged>>

DetachRolePolicy(c) == Detach(c, "DetachRolePolicy")
DetachUserPolicy(c) == Detach(c, "DetachUserPolicy")

-----------------------------------------------------------------------------
\* Inline policies, access keys, instance profiles' roles.

\* The upsert of an inline policy; its foreign key fails without the holder.
UpsertInline(c, place, o, missing) ==
    LET e == req[c].e IN
    /\ At(c, place, o)
    /\ inline' = IF Exists(e) THEN inline \cup {e} ELSE inline
    /\ Answer(c, IF Exists(e) THEN "ok" ELSE missing)
    /\ UNCHANGED <<row, att, keys, inProfile, tagged>>

PutRolePolicy(c) == UpsertInline(c, "start", "PutRolePolicy", "NotFound")

\* PutUserPolicy leaves a foreign key failure unmapped: a 500.
PutUserPolicy(c) ==
    \/ Lookup(c, "start", "PutUserPolicy", req[c].e, "write")
    \/ UpsertInline(c, "write", "PutUserPolicy", "failed")

DeleteInline(c, o) ==
    LET e == req[c].e IN
    /\ At(c, "start", o)
    /\ inline' = inline \ {e}
    /\ Answer(c, IF e \in inline THEN "ok" ELSE "NotFound")
    /\ UNCHANGED <<row, att, keys, inProfile, tagged>>

DeleteRolePolicy(c) == DeleteInline(c, "DeleteRolePolicy")
DeleteUserPolicy(c) == DeleteInline(c, "DeleteUserPolicy")

\* CreateAccessKey: GetUser, then INSERT of a random id.
CreateAccessKey(c) ==
    LET e == req[c].e IN
    \/ Lookup(c, "start", "CreateAccessKey", e, "write")
    \/ /\ At(c, "write", "CreateAccessKey") /\ ~Exists(e)
       /\ Answer(c, "NotFound")
       /\ UNCHANGED db
    \/ /\ At(c, "write", "CreateAccessKey") /\ Exists(e)
       /\ \E k \in KeyIds :
             /\ keys' = keys \cup {<<e, k>>}
             /\ Answer(c, IF <<e, k>> \in keys THEN "Conflict" ELSE "ok")
       /\ UNCHANGED <<row, att, inline, inProfile, tagged>>

DeleteAccessKey(c) ==
    /\ At(c, "start", "DeleteAccessKey")
    /\ \E k \in KeyIds :
          /\ keys' = keys \ {<<req[c].e, k>>}
          /\ Answer(c, IF <<req[c].e, k>> \in keys THEN "ok" ELSE "NotFound")
    /\ UNCHANGED <<row, att, inline, inProfile, tagged>>

\* GetInstanceProfile, GetRole, then an INSERT with two foreign keys and a
\* primary key that allows one role.
AddRoleToInstanceProfile(c) ==
    LET o == "AddRoleToInstanceProfile"  e == req[c].e  r == req[c].arg
        taken == \E q \in inProfile : q[1] = e
    IN
    \/ Lookup(c, "start", o, e, "role")
    \/ Lookup(c, "role", o, r, "write")
    \/ /\ At(c, "write", o)
       /\ IF ~taken /\ Exists(e) /\ Exists(r)
          THEN inProfile' = inProfile \cup {<<e, r>>} /\ Answer(c, "ok")
          ELSE UNCHANGED inProfile /\ Answer(c, IF taken THEN "Limit" ELSE "NotFound")
       /\ UNCHANGED <<row, att, inline, keys, tagged>>

RemoveRoleFromInstanceProfile(c) ==
    LET pair == <<req[c].e, req[c].arg>> IN
    /\ At(c, "start", "RemoveRoleFromInstanceProfile")
    /\ inProfile' = inProfile \ {pair}
    /\ Answer(c, IF pair \in inProfile THEN "ok" ELSE "NotFound")
    /\ UNCHANGED <<row, att, inline, keys, tagged>>

-----------------------------------------------------------------------------
\* Tag calls: ARNByName for a role, then one transaction on the ARN.

TagArn(c) == IF req[c].op \in OnPolicy THEN req[c].arg ELSE Own(req[c].e)

\* A variant for the runs' mutants: no resourceExists.
ChangeTagsUnchecked(c, o, add) ==
    /\ At(c, "write", o)
    /\ tagged' = IF add THEN tagged \cup {TagArn(c)} ELSE tagged \ {TagArn(c)}
    /\ Answer(c, "ok")
    /\ UNCHANGED <<row, att, inline, keys, inProfile>>

ChangeResourceTags(c, o, add) ==
    \/ /\ At(c, "write", o) /\ Stored(TagArn(c))
       /\ tagged' = IF add THEN tagged \cup {TagArn(c)} ELSE tagged \ {TagArn(c)}
       /\ Answer(c, "ok")
       /\ UNCHANGED <<row, att, inline, keys, inProfile>>
    \/ /\ At(c, "write", o) /\ ~Stored(TagArn(c))
       /\ Answer(c, "NotFound")
       /\ UNCHANGED db

\* iamTaggedARN: a policy's ARN is the request's, any other is read by name.
iamTaggedARN(c, o) ==
    \/ o \in OnPolicy /\ At(c, "start", o) /\ Goto(c, "write") /\ UNCHANGED db
    \/ o \notin OnPolicy /\ Lookup(c, "start", o, req[c].e, "write")

iamTag(c) ==
    \E o \in {"TagRole", "TagUser", "TagInstanceProfile", "TagPolicy"} :
        iamTaggedARN(c, o) \/ ChangeResourceTags(c, o, TRUE)

iamUntag(c) ==
    \E o \in {"UntagRole", "UntagUser", "UntagInstanceProfile", "UntagPolicy"} :
        iamTaggedARN(c, o) \/ ChangeResourceTags(c, o, FALSE)

-----------------------------------------------------------------------------
Handle(c) ==
    \/ CreateRole(c) \/ UpdateRole(c) \/ DeleteRole(c)
    \/ CreatePolicy(c) \/ DeletePolicy(c)
    \/ CreateUser(c) \/ DeleteUser(c) \/ CreateAccessKey(c) \/ DeleteAccessKey(c)
    \/ CreateInstanceProfile(c) \/ DeleteInstanceProfile(c)
    \/ AddRoleToInstanceProfile(c) \/ RemoveRoleFromInstanceProfile(c)
    \/ AttachRolePolicy(c) \/ DetachRolePolicy(c) \/ AttachUserPolicy(c) \/ DetachUserPolicy(c)
    \/ PutRolePolicy(c) \/ DeleteRolePolicy(c) \/ PutUserPolicy(c) \/ DeleteUserPolicy(c)
    \/ iamTag(c) \/ iamUntag(c)

Next ==
    /\ \E c \in Clients : Handle(c) \/ \E r \in Requests : Send(c, r)
    /\ UNCHANGED ops

Spec == Init /\ [][Next]_vars

-----------------------------------------------------------------------------
\* Properties.

TypeOK ==
    /\ StoreTypeOK
    /\ pc \in [Clients -> Places]
    /\ req \in [Clients -> Requests \cup {None}]
    /\ got \in [Clients -> Bodies \cup {None}]
    /\ ans \in [Clients -> Answers]

\* Every statement of every request is one step of the store IAM promises, or
\* changes nothing: NOT EXISTS, foreign keys and triggers add up to IAMStore.
ImplementsIAMStore == StoreSpec
=============================================================================

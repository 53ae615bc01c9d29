------------------------------ MODULE IAMStore ------------------------------
(***************************************************************************)
(* What IAM promises of its store, whoever calls it in whatever order:     *)
(* every change is one atomic step; what hangs on an entity hangs on one   *)
(* that exists; an entity leaves only when nothing holds it; nothing but   *)
(* its tags and a profile's role leaves with it.                           *)
(*                                                                         *)
(* Module IAM extends this one with the requests, and each of its SQL      *)
(* statements is shown to be one of these steps, or none.                  *)
(***************************************************************************)
EXTENDS Naturals

CONSTANTS
    Clients, \* the requests that may be in flight at once
    Names,   \* entity names
    KeyIds,  \* access key ids
    None     \* no row

\* A stored row: whose ARN it has (the account's own or AWS's) and the request
\* that last described it.
Bodies == [src: {"own", "aws"}, desc: Clients \cup {None}]

ASSUME NoneAssumption == None \notin Bodies

Of(kind) == {kind} \X Names
Kinds    == {"role", "user", "policy", "profile"}
Entities == Kinds \X Names
Holders  == Of("role") \cup Of("user")

\* An ARN names an entity and its owner; an AWS-managed one is a policy's.
ARNs       == Kinds \X Names \X {"own", "aws"}
PolicyARNs == {"policy"} \X Names \X {"own", "aws"}

VARIABLES
    row,       \* entity -> its row or None: the four entity tables
    att,       \* role_ and user_policy_attachments: <<holder, policy ARN>>
    inline,    \* role_ and user_inline_policies: the holders that have one
    keys,      \* iam_access_keys: <<user, id>>
    inProfile, \* instance_profile_roles: <<profile, role>>
    tagged     \* resource_tags: the ARNs that carry a tag

db == <<row, att, inline, keys, inProfile, tagged>>

StoreInit ==
    /\ row = [e \in Entities |-> None]
    /\ att = {} /\ inline = {} /\ keys = {} /\ inProfile = {} /\ tagged = {}

Exists(e)   == row[e] # None
ArnOf(e)    == <<e[1], e[2], row[e].src>>
Stored(arn) == Exists(<<arn[1], arn[2]>>) /\ arn = ArnOf(<<arn[1], arn[2]>>)

\* What a delete refuses to take: a role or user with an attachment or an
\* inline policy, a user with a key, a role in a profile, an attached policy.
Held(e) ==
    \/ \E a \in att : a[1] = e \/ (Exists(e) /\ a[2] = ArnOf(e))
    \/ e \in inline
    \/ \E k \in keys : k[1] = e
    \/ \E q \in inProfile : q[2] = e

-----------------------------------------------------------------------------
AddEntity(e, b) ==
    /\ ~Exists(e)
    /\ row' = [row EXCEPT ![e] = b]
    /\ UNCHANGED <<att, inline, keys, inProfile, tagged>>

ChangeEntity(e, b) ==
    /\ Exists(e) /\ b.src = row[e].src
    /\ row' = [row EXCEPT ![e] = b]
    /\ UNCHANGED <<att, inline, keys, inProfile, tagged>>

DropEntity(e) ==
    /\ Exists(e) /\ ~Held(e)
    /\ row' = [row EXCEPT ![e] = None]
    /\ tagged' = tagged \ {ArnOf(e)}
    /\ inProfile' = {q \in inProfile : q[1] # e}
    /\ UNCHANGED <<att, inline, keys>>

ChangeAttachments ==
    /\ \/ \E e \in Holders, arn \in PolicyARNs :
             Exists(e) /\ Stored(arn) /\ att' = att \cup {<<e, arn>>}
       \/ att' \in SUBSET att
    /\ UNCHANGED <<row, inline, keys, inProfile, tagged>>

ChangeInline ==
    /\ \/ \E e \in Holders : Exists(e) /\ inline' = inline \cup {e}
       \/ inline' \in SUBSET inline
    /\ UNCHANGED <<row, att, keys, inProfile, tagged>>

ChangeKeys ==
    /\ \/ \E e \in Of("user"), k \in KeyIds : Exists(e) /\ keys' = keys \cup {<<e, k>>}
       \/ keys' \in SUBSET keys
    /\ UNCHANGED <<row, att, inline, inProfile, tagged>>

ChangeProfile ==
    /\ \/ \E p \in Of("profile"), r \in Of("role") :
             /\ Exists(p) /\ Exists(r)
             /\ \A q \in inProfile : q[1] # p
             /\ inProfile' = inProfile \cup {<<p, r>>}
       \/ inProfile' \in SUBSET inProfile
    /\ UNCHANGED <<row, att, inline, keys, tagged>>

ChangeTags ==
    /\ \/ \E arn \in ARNs : Stored(arn) /\ tagged' = tagged \cup {arn}
       \/ tagged' \in SUBSET tagged
    /\ UNCHANGED <<row, att, inline, keys, inProfile>>

StoreNext ==
    \/ \E e \in Entities, b \in Bodies : AddEntity(e, b) \/ ChangeEntity(e, b)
    \/ \E e \in Entities : DropEntity(e)
    \/ ChangeAttachments \/ ChangeInline \/ ChangeKeys \/ ChangeProfile \/ ChangeTags

StoreSpec == StoreInit /\ [][StoreNext]_db

-----------------------------------------------------------------------------
\* Properties of every store of this kind.

StoreTypeOK ==
    /\ row \in [Entities -> Bodies \cup {None}]
    /\ att \subseteq Holders \X PolicyARNs
    /\ inline \subseteq Holders
    /\ keys \subseteq Of("user") \X KeyIds
    /\ inProfile \subseteq Of("profile") \X Of("role")
    /\ tagged \subseteq ARNs

\* DeletePolicy's "neither order leaves an attachment to a deleted policy", and
\* the foreign keys: whatever the order of creates, attaches and deletes, every
\* attachment, inline policy, key and profile role is of entities that exist.
NothingOutlivesItsHolder ==
    /\ \A a \in att : Exists(a[1]) /\ Stored(a[2])
    /\ \A e \in inline : Exists(e)
    /\ \A k \in keys : Exists(k[1])
    /\ \A q \in inProfile : Exists(q[1]) /\ Exists(q[2])

\* tags.go: a tag call on a missing resource stores no orphan, so a resource
\* recreated under the same ARN starts untagged.
TagsAreOfStoredResources == \A arn \in tagged : Stored(arn)

\* Both: nothing in IAM's tables is left of an entity that is gone.
NothingIsLeftBehind == NothingOutlivesItsHolder /\ TagsAreOfStoredResources

\* DeleteConflict: an entity goes only when nothing hangs on it, also by the
\* undo of a create, and no cascade takes an attachment, a key or an inline
\* policy with it.
HeldEntitiesStay == [][\A e \in Entities : Held(e) => row'[e] # None]_db
=============================================================================

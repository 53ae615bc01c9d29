------------------------------ MODULE Route53 ------------------------------
(***************************************************************************)
(* Route53 in one account: hosted zones, their record sets, their tags and *)
(* the change log, and the requests that change them, each taken one SQL   *)
(* statement at a time.                                                    *)
(*                                                                         *)
(* A change batch is validated whole, then applied change by change, in    *)
(* statements of their own: what validation read may be stale by then.     *)
(* The variable quiet records whether it can be.                           *)
(***************************************************************************)
EXTENDS Naturals, Sequences

CONSTANTS
    Clients,   \* the requests that may be in flight at once
    Zones,     \* the ids r53RandID may draw
    ZoneNames, \* the names zones are created under: the apex, dotted or not
    Batches,   \* the change batches clients send
    Ops,       \* the operations clients send
    None       \* no zone

\* A name is the zone's apex or one below it, with the trailing dot or without.
Names   == [label: {"apex", "www"}, dot: BOOLEAN]
Types   == {"NS", "SOA", "A", "CNAME"}
Keys    == [name: Names, type: Types]
Changes == [action: {"CREATE", "UPSERT", "DELETE"}, name: Names, type: Types]

ASSUME ConstantsAssumption ==
    /\ ZoneNames \subseteq {n \in Names : n.label = "apex"}
    /\ Batches \subseteq Seq(Changes)
    /\ Ops \subseteq {"CreateHostedZone", "DeleteHostedZone", "ChangeResourceRecordSets",
                      "ChangeTagsForResource"}
    /\ None \notin Names \cup Zones

Requests ==
    UNION { [op: {"CreateHostedZone"} \cap Ops, name: ZoneNames],
            [op: {"DeleteHostedZone"} \cap Ops, zone: Zones],
            [op: {"ChangeResourceRecordSets"} \cap Ops, zone: Zones, batch: Batches],
            [op: {"ChangeTagsForResource"} \cap Ops, zone: Zones, add: BOOLEAN] }

VARIABLES
    zone,    \* route53_hosted_zones: zone id -> its name or None
    sets,    \* route53_record_sets: <<zone id, key>>
    changes, \* route53_changes: the zones with a recorded change
    tagged,  \* resource_tags: the zones that carry a tag
    pc, req, \* each client's place and request
    on,      \* the zone it works on
    name,    \* the zone's name as it read it
    i,       \* the change of its batch it is at
    seen,    \* r53ExistenceError's batch: key -> whether it exists by then
    quiet,   \* no other request has written to its zone since it began
    ans      \* its answer

db      == <<zone, sets, changes, tagged>>
control == <<pc, req, on, name, i, seen, ans>>
vars    == <<zone, sets, changes, tagged, pc, req, on, name, i, seen, quiet, ans>>

Places  == {"idle", "start", "ns", "ns put", "soa", "soa put", "count", "drop",
            "validate", "apply", "put", "change"}
Answers == {"none", "ok", "NotFound", "Exists", "NotEmpty", "InvalidChangeBatch", "failed"}

Init ==
    /\ zone = [z \in Zones |-> None]
    /\ sets = {} /\ changes = {} /\ tagged = {}
    /\ pc = [c \in Clients |-> "idle"]
    /\ req = [c \in Clients |-> None]
    /\ on = [c \in Clients |-> None]
    /\ name = [c \in Clients |-> None]
    /\ i = [c \in Clients |-> 1]
    /\ seen = [c \in Clients |-> << >>]
    /\ quiet = [c \in Clients |-> TRUE]
    /\ ans = [c \in Clients |-> "none"]

Exists(z) == zone[z] # None

\* A variant for the runs' mutants: the record set under the name as requested.
KeyAsGiven(ch) == [name |-> ch.name, type |-> ch.type]

\* r53FQDN: a record set is stored under the dotted name.
FQDN(n) == [n EXCEPT !.dot = TRUE]
Key(ch) == [name |-> FQDN(ch.name), type |-> ch.type]

-----------------------------------------------------------------------------
\* A client sends a request.
Send(c, r) ==
    /\ pc[c] = "idle"
    /\ pc' = [pc EXCEPT ![c] = "start"]
    /\ req' = [req EXCEPT ![c] = r]
    /\ on' = [on EXCEPT ![c] = IF r.op = "CreateHostedZone" THEN None ELSE r.zone]
    /\ quiet' = [quiet EXCEPT ![c] = TRUE]
    /\ ans' = [ans EXCEPT ![c] = "none"]
    /\ UNCHANGED <<db, name, i, seen>>

At(c, place, o) == pc[c] = place /\ req[c].op = o

Goto(c, place) == pc' = [pc EXCEPT ![c] = place] /\ UNCHANGED <<req, on, name, i, seen, ans>>

\* The answer ends the request, and what it held with it.
Answer(c, a) ==
    /\ pc' = [pc EXCEPT ![c] = "idle"]
    /\ req' = [req EXCEPT ![c] = None]
    /\ on' = [on EXCEPT ![c] = None]
    /\ name' = [name EXCEPT ![c] = None]
    /\ i' = [i EXCEPT ![c] = 1]
    /\ seen' = [seen EXCEPT ![c] = << >>]
    /\ ans' = [ans EXCEPT ![c] = a]

\* A statement that only reads, and one that writes to zone z.
Reads == UNCHANGED <<db, quiet>>
Writes(c, z) == quiet' = [d \in Clients |-> quiet[d] /\ (d = c \/ on[d] # z)]

\* GetHostedZone for the row's name.
GetHostedZone(c, place, o, next) ==
    /\ At(c, place, o)
    /\ \/ ~Exists(on[c]) /\ Answer(c, "NotFound")
       \/ /\ Exists(on[c])
          /\ pc' = [pc EXCEPT ![c] = next]
          /\ name' = [name EXCEPT ![c] = zone[on[c]]]
          /\ UNCHANGED <<req, on, i, seen, ans>>
    /\ Reads

\* RecordChange, whose error no caller looks at, and the answer.
RecordChange(c) ==
    /\ pc[c] = "change"
    /\ changes' = changes \cup {on[c]}
    /\ Answer(c, "ok")
    /\ UNCHANGED <<zone, sets, tagged, quiet>>

-----------------------------------------------------------------------------
\* CreateHostedZone: INSERT, then PutRecordSet of the zone's NS and its SOA
\* under the name the request gave.

InsertZone(c) ==
    /\ At(c, "start", "CreateHostedZone")
    /\ \E z \in Zones :
          IF Exists(z)
          THEN Answer(c, "Exists") /\ Reads
          ELSE /\ zone' = [zone EXCEPT ![z] = req[c].name]
               /\ on' = [on EXCEPT ![c] = z]
               /\ pc' = [pc EXCEPT ![c] = "ns"]
               /\ Writes(c, z)
               /\ UNCHANGED <<sets, changes, tagged, req, name, i, seen, ans>>

\* The REPLACE fails its foreign key, unmapped, when the zone is gone.
PutDefault(c, place, type, next) ==
    /\ At(c, place, "CreateHostedZone")
    /\ IF Exists(on[c])
       THEN /\ sets' = sets \cup {<<on[c], [name |-> req[c].name, type |-> type]>>}
            /\ Goto(c, next)
            /\ Writes(c, on[c])
            /\ UNCHANGED <<zone, changes, tagged>>
       ELSE Answer(c, "failed") /\ Reads

CreateHostedZone(c) ==
    \/ InsertZone(c)
    \/ GetHostedZone(c, "ns", "CreateHostedZone", "ns put")
    \/ PutDefault(c, "ns put", "NS", "soa")
    \/ GetHostedZone(c, "soa", "CreateHostedZone", "soa put")
    \/ PutDefault(c, "soa put", "SOA", "change")

-----------------------------------------------------------------------------
\* DeleteHostedZone: get, count what is not a default record set, DELETE, which
\* cascades to the record sets and fires the tags' trigger.

IsDefault(k, n) == k.type \in {"NS", "SOA"} /\ k.name = n

\* A variant for the runs' mutants: nothing counted.
CountUnread(c) ==
    /\ At(c, "count", "DeleteHostedZone")
    /\ Goto(c, "drop")
    /\ Reads

CountRecords(c) ==
    /\ At(c, "count", "DeleteHostedZone")
    /\ IF \E s \in sets : s[1] = on[c] /\ ~IsDefault(s[2], name[c])
       THEN Answer(c, "NotEmpty")
       ELSE Goto(c, "drop")
    /\ Reads

DropZone(c) ==
    /\ At(c, "drop", "DeleteHostedZone")
    /\ IF Exists(on[c])
       THEN /\ zone' = [zone EXCEPT ![on[c]] = None]
            /\ sets' = {s \in sets : s[1] # on[c]}
            /\ tagged' = tagged \ {on[c]}
            /\ Goto(c, "change")
            /\ Writes(c, on[c])
            /\ UNCHANGED changes
       ELSE Answer(c, "NotFound") /\ Reads

DeleteHostedZone(c) ==
    \/ GetHostedZone(c, "start", "DeleteHostedZone", "count")
    \/ CountRecords(c)
    \/ DropZone(c)

-----------------------------------------------------------------------------
\* ChangeResourceRecordSets.

Current(c) == req[c].batch[i[c]]

\* The place of the change after the current one, or the next phase's first.
Advance(c, place, next) ==
    /\ IF i[c] < Len(req[c].batch)
       THEN i' = [i EXCEPT ![c] = @ + 1] /\ pc' = [pc EXCEPT ![c] = place]
       ELSE i' = [i EXCEPT ![c] = 1] /\ pc' = [pc EXCEPT ![c] = next]
    /\ UNCHANGED <<req, on, name, ans>>

\* r53IsApex compares without the trailing dots.
IsApex(ch) == ch.name.label = "apex"

\* A variant for the runs' mutants: each change validated against the table alone.
BelievedStored(c, k) == <<on[c], k>> \in sets

Believed(c, k) == IF k \in DOMAIN seen[c] THEN seen[c][k] ELSE <<on[c], k>> \in sets

Refused(c, ch) ==
    \/ ch.type = "CNAME" /\ IsApex(ch)
    \/ ch.action = "CREATE" /\ Believed(c, Key(ch))
    \/ ch.action = "DELETE" /\ ~Believed(c, Key(ch))

\* r53ExistenceError: refuse, or note what the change leaves behind.
Validate(c) ==
    LET ch == Current(c)  k == Key(ch) IN
    /\ At(c, "validate", "ChangeResourceRecordSets")
    /\ \/ Refused(c, ch) /\ Answer(c, "InvalidChangeBatch")
       \/ /\ ~Refused(c, ch)
          /\ seen' = [seen EXCEPT ![c] =
                [q \in DOMAIN @ \cup {k} |-> IF q = k THEN ch.action # "DELETE" ELSE @[q]]]
          /\ Advance(c, "validate", "apply")
    /\ Reads

\* DeleteRecordSet, or PutRecordSet's GetHostedZone.
Apply(c) ==
    LET ch == Current(c)  s == <<on[c], Key(ch)>> IN
    /\ At(c, "apply", "ChangeResourceRecordSets")
    /\ \/ /\ ch.action = "DELETE" /\ s \in sets
          /\ sets' = sets \ {s}
          /\ Advance(c, "apply", "change")
          /\ Writes(c, on[c])
          /\ UNCHANGED <<zone, changes, tagged, seen>>
       \/ /\ ch.action = "DELETE" /\ s \notin sets
          /\ Answer(c, "NotFound") /\ Reads
       \/ /\ ch.action # "DELETE"
          /\ IF Exists(on[c]) THEN Goto(c, "put") ELSE Answer(c, "NotFound")
          /\ Reads

\* PutRecordSet's INSERT OR REPLACE, for CREATE and UPSERT alike.
Put(c) ==
    /\ At(c, "put", "ChangeResourceRecordSets")
    /\ IF Exists(on[c])
       THEN /\ sets' = sets \cup {<<on[c], Key(Current(c))>>}
            /\ Advance(c, "apply", "change")
            /\ Writes(c, on[c])
            /\ UNCHANGED <<zone, changes, tagged, seen>>
       ELSE Answer(c, "failed") /\ Reads

\* A batch of no changes only leaves its change behind.
BeginBatch(c) ==
    GetHostedZone(c, "start", "ChangeResourceRecordSets",
                  IF req[c].batch = << >> THEN "change" ELSE "validate")

ChangeResourceRecordSets(c) == BeginBatch(c) \/ Validate(c) \/ Apply(c) \/ Put(c)

\* ChangeTagsForResource: one transaction, after resourceExists.
ChangeTagsForResource(c) ==
    /\ At(c, "start", "ChangeTagsForResource")
    /\ IF Exists(on[c])
       THEN /\ tagged' = IF req[c].add THEN tagged \cup {on[c]} ELSE tagged \ {on[c]}
            /\ Answer(c, "ok")
       ELSE UNCHANGED tagged /\ Answer(c, "NotFound")
    /\ UNCHANGED <<zone, sets, changes, quiet>>

-----------------------------------------------------------------------------
Handle(c) ==
    \/ CreateHostedZone(c) \/ DeleteHostedZone(c) \/ ChangeResourceRecordSets(c)
    \/ ChangeTagsForResource(c) \/ RecordChange(c)

Next == \E c \in Clients : Handle(c) \/ \E r \in Requests : Send(c, r)

Spec == Init /\ [][Next]_vars

-----------------------------------------------------------------------------
\* Properties.

TypeOK ==
    /\ zone \in [Zones -> ZoneNames \cup {None}]
    /\ sets \subseteq Zones \X Keys
    /\ changes \subseteq Zones /\ tagged \subseteq Zones
    /\ pc \in [Clients -> Places]
    /\ req \in [Clients -> Requests \cup {None}]
    /\ on \in [Clients -> Zones \cup {None}]
    /\ name \in [Clients -> ZoneNames \cup {None}]
    /\ i \in [Clients -> Nat \ {0}]
    /\ \A c \in Clients : DOMAIN seen[c] \subseteq Keys
    /\ quiet \in [Clients -> BOOLEAN]
    /\ ans \in [Clients -> Answers]

\* ON DELETE CASCADE, the foreign key and the tags' trigger: whatever runs
\* beside a zone's delete, no record set and no tag is left of the zone, so a
\* zone that draws its id again starts with neither.
NothingOutlivesItsZone ==
    /\ \A s \in sets : Exists(s[1])
    /\ \A z \in tagged : Exists(z)

\* r53FQDN normalises what requests name, so a record set a request can reach is
\* stored once: only a zone's NS and SOA, put by its create, may lack the dot.
StoredOncePerName ==
    \A s \in sets : s[2].name.dot \/ (s[2].type \in {"NS", "SOA"} /\ s[2].name.label = "apex")

\* What holds of the stored zones whatever overlaps: both of the above.
ZonesAreSound == TypeOK /\ NothingOutlivesItsZone /\ StoredOncePerName

\* "Validate ALL changes before applying any": a batch that passed validation,
\* with nobody else writing to its zone, applies to its last change, and no
\* CREATE of it lands on a record set that exists.
QuietBatchApplies ==
    [][\A c \in Clients :
          pc[c] \in {"apply", "put"} /\ quiet[c] =>
             /\ pc'[c] # "idle"
             /\ pc[c] = "put" /\ pc'[c] # "put" /\ Current(c).action = "CREATE" =>
                   <<on[c], Key(Current(c))>> \notin sets]_vars

\* DeleteHostedZone "refuses if the zone has any records other than the default
\* NS + SOA": with nobody else writing to the zone, the cascade takes no other.
QuietDeleteSparesRecords ==
    [][\A c \in Clients :
          pc[c] = "drop" /\ pc'[c] = "change" /\ quiet[c] =>
             \A s \in sets : s[1] = on[c] => IsDefault(s[2], zone[on[c]])]_vars

\* "Multi-step writes must be atomic": a batch that is refused while it is being
\* applied has applied none of its changes.
RefusedBatchAppliesNothing ==
    [][\A c \in Clients : pc[c] \in {"apply", "put"} /\ pc'[c] = "idle" => i[c] = 1]_vars
=============================================================================

--------------------------- MODULE SecretsManager ---------------------------
(***************************************************************************)
(* Secrets Manager in one account and region: secrets with their lifecycle *)
(* state and tags, versions with their stage labels, and the requests that *)
(* change them, each taken one SQL statement at a time.  No request deletes *)
(* a secret's row: a destroyed secret keeps it, and its name, for good.    *)
(***************************************************************************)
EXTENDS Naturals, FiniteSets

CONSTANTS
    Clients,  \* the requests that may be in flight at once
    Names,    \* secret names
    Versions, \* version ids, each drawn once
    Tags,     \* tag keys
    Labels,   \* the VersionStages PutSecretValue is sent, none being the default
    Ops,      \* the operations clients send
    None      \* no row

Stages == {"AWSCURRENT", "AWSPREVIOUS", "AWSPENDING"}
States == {"Active", "PendingDeletion", "Destroyed"}

ASSUME ConstantsAssumption == Labels \subseteq SUBSET Stages

Requests ==
    UNION { [op: {"CreateSecret"} \cap Ops, n: Names, value: BOOLEAN, tags: SUBSET Tags],
            [op: {"DeleteSecret"} \cap Ops, n: Names, force: BOOLEAN],
            [op: {"RestoreSecret"} \cap Ops, n: Names],
            [op: {"PutSecretValue"} \cap Ops, n: Names, stages: Labels],
            [op: {"TagResource"} \cap Ops, n: Names, tag: Tags, add: BOOLEAN] }

VARIABLES
    secret,  \* secretsmanager_secrets: name -> its state and tags, or None
    version, \* secretsmanager_versions: id -> its secret and stages, or None
    pc, req, \* each client's place and request
    got,     \* the secret's row as it read it
    read,    \* the versions its SELECT returned, with their stages
    todo,    \* those of them it has not updated yet
    quiet,   \* no other request has written to its secret since it began
    ans      \* its answer

db   == <<secret, version>>
vars == <<secret, version, pc, req, got, read, todo, quiet, ans>>

SecretRows  == [state: States, tags: SUBSET Tags]
VersionRows == [n: Names, stages: SUBSET Stages]

ASSUME NoneAssumption == None \notin SecretRows \cup VersionRows

Places  == {"idle", "start", "value", "versions", "demote", "mark", "restore", "tags"}
Answers == {"none", "ok", "NotFound", "Conflict", "TerminalState"}

Init ==
    /\ secret = [n \in Names |-> None]
    /\ version = [v \in Versions |-> None]
    /\ pc = [c \in Clients |-> "idle"]
    /\ req = [c \in Clients |-> None]
    /\ got = [c \in Clients |-> None]
    /\ read = [c \in Clients |-> << >>]
    /\ todo = [c \in Clients |-> {}]
    /\ quiet = [c \in Clients |-> TRUE]
    /\ ans = [c \in Clients |-> "none"]

Exists(n)     == secret[n] # None
VersionsOf(n) == {v \in Versions : version[v] # None /\ version[v].n = n}
Labelled(n, stage) == {v \in VersionsOf(n) : stage \in version[v].stages}

-----------------------------------------------------------------------------
\* Versions bounds the values put: one id for each that is stored or being put.
Putting == {d \in Clients : pc[d] # "idle" /\ req[d].op \in {"CreateSecret", "PutSecretValue"}}
VersionsLeft ==
    Cardinality({v \in Versions : version[v] # None}) + Cardinality(Putting) < Cardinality(Versions)

\* A client sends a request.
Send(c, r) ==
    /\ pc[c] = "idle"
    /\ r.op \in {"CreateSecret", "PutSecretValue"} => VersionsLeft
    /\ pc' = [pc EXCEPT ![c] = "start"]
    /\ req' = [req EXCEPT ![c] = r]
    /\ quiet' = [quiet EXCEPT ![c] = TRUE]
    /\ ans' = [ans EXCEPT ![c] = "none"]
    /\ UNCHANGED <<db, got, read, todo>>

At(c, place, o) == pc[c] = place /\ req[c].op = o

Goto(c, place) == pc' = [pc EXCEPT ![c] = place] /\ UNCHANGED <<req, got, read, todo, ans>>

Answer(c, a) ==
    /\ pc' = [pc EXCEPT ![c] = "idle"]
    /\ req' = [req EXCEPT ![c] = None]
    /\ got' = [got EXCEPT ![c] = None]
    /\ read' = [read EXCEPT ![c] = << >>]
    /\ todo' = [todo EXCEPT ![c] = {}]
    /\ ans' = [ans EXCEPT ![c] = a]

\* A statement that only reads, and one that writes what is c's secret's.
Reads == UNCHANGED <<db, quiet>>
Writes(c) ==
    quiet' = [d \in Clients |->
                 quiet[d] /\ (d = c \/ pc[d] = "idle" \/ req[d].n # req[c].n)]

\* GetSecret, keeping the row.
Keep(c, next) ==
    /\ pc' = [pc EXCEPT ![c] = next]
    /\ got' = [got EXCEPT ![c] = secret[req[c].n]]
    /\ UNCHANGED <<req, read, todo, ans>>

\* GetSecretActiveOrPending: a destroyed secret is not found.
Gone(n) == Exists(n) => secret[n].state = "Destroyed"

-----------------------------------------------------------------------------
\* PutSecretValue: the parent, the versions, an UPDATE of each version's
\* stages, the INSERT.

\* Variants for the runs' mutants: the old AWSPREVIOUS relabelled, and kept.
DemotedFurther(stages) ==
    { IF s = "AWSCURRENT" THEN "AWSPREVIOUS"
      ELSE IF s = "AWSPREVIOUS" THEN "AWSDEPRECATED" ELSE s : s \in stages }

DemotedKeeping(stages) ==
    { IF s = "AWSCURRENT" THEN "AWSPREVIOUS" ELSE s : s \in stages }

Demoted(stages) ==
    { IF s = "AWSCURRENT" THEN "AWSPREVIOUS" ELSE s : s \in stages \ {"AWSPREVIOUS"} }

ReadVersions(c, o) ==
    /\ At(c, "versions", o)
    /\ read' = [read EXCEPT ![c] = [v \in VersionsOf(req[c].n) |-> version[v].stages]]
    /\ todo' = [todo EXCEPT ![c] = VersionsOf(req[c].n)]
    /\ pc' = [pc EXCEPT ![c] = "demote"]
    /\ UNCHANGED <<req, got, ans>>
    /\ Reads

DemoteOne(c, o) ==
    /\ At(c, "demote", o)
    /\ \E v \in todo[c] :
          /\ version' = [version EXCEPT ![v].stages = Demoted(read[c][v])]
          /\ todo' = [todo EXCEPT ![c] = @ \ {v}]
    /\ Writes(c)
    /\ UNCHANGED <<secret, pc, req, got, read, ans>>

InsertVersion(c, o, stages) ==
    /\ At(c, "demote", o) /\ todo[c] = {}
    /\ \E v \in Versions :
          /\ version[v] = None
          /\ version' = [version EXCEPT ![v] = [n |-> req[c].n, stages |-> stages]]
    /\ Answer(c, "ok")
    /\ Writes(c)
    /\ UNCHANGED secret

PutValue(c, o, stages) == ReadVersions(c, o) \/ DemoteOne(c, o) \/ InsertVersion(c, o, stages)

\* No VersionStages means AWSCURRENT.
PutSecretValue(c) ==
    LET o == "PutSecretValue" IN
    \/ At(c, "start", o) /\ Gone(req[c].n) /\ Answer(c, "NotFound") /\ Reads
    \/ At(c, "start", o) /\ ~Gone(req[c].n) /\ Keep(c, "versions") /\ Reads
    \/ PutValue(c, o, IF req[c].stages = {} THEN {"AWSCURRENT"} ELSE req[c].stages)

\* CreateSecret: INSERT, then the value, whose error is dropped.
CreateSecret(c) ==
    LET o == "CreateSecret"  n == req[c].n IN
    \/ At(c, "start", o) /\ Exists(n) /\ Answer(c, "Conflict") /\ Reads
    \/ /\ At(c, "start", o) /\ ~Exists(n)
       /\ secret' = [secret EXCEPT ![n] = [state |-> "Active", tags |-> req[c].tags]]
       /\ IF req[c].value THEN Goto(c, "value") ELSE Answer(c, "ok")
       /\ Writes(c)
       /\ UNCHANGED version
    \/ At(c, "value", o) /\ Gone(n) /\ Answer(c, "ok") /\ Reads
    \/ At(c, "value", o) /\ ~Gone(n) /\ Keep(c, "versions") /\ Reads
    \/ PutValue(c, o, {"AWSCURRENT"})

-----------------------------------------------------------------------------
\* Deletion and restore: the state is read, then written whatever it is by then.

\* A variant for the runs' mutants: no terminal state.
NotTerminal(n) == FALSE

Terminal(n) == secret[n].state = "Destroyed"

SetState(c, o, place, state) ==
    LET n == req[c].n IN
    /\ At(c, place, o)
    /\ secret' = [secret EXCEPT ![n].state = state]
    /\ Answer(c, "ok")
    /\ Writes(c)
    /\ UNCHANGED version

\* ScheduleSecretDeletion: Destroyed at once when forced.
DeleteSecret(c) ==
    LET o == "DeleteSecret"  n == req[c].n IN
    \/ At(c, "start", o) /\ ~Exists(n) /\ Answer(c, "NotFound") /\ Reads
    \/ At(c, "start", o) /\ Exists(n) /\ Terminal(n) /\ Answer(c, "TerminalState") /\ Reads
    \/ At(c, "start", o) /\ Exists(n) /\ ~Terminal(n) /\ Keep(c, "mark") /\ Reads
    \/ SetState(c, o, "mark", IF req[c].force THEN "Destroyed" ELSE "PendingDeletion")

RestoreSecret(c) ==
    LET o == "RestoreSecret"  n == req[c].n IN
    \/ At(c, "start", o) /\ ~Exists(n) /\ Answer(c, "NotFound") /\ Reads
    \/ At(c, "start", o) /\ Exists(n) /\ Terminal(n) /\ Answer(c, "TerminalState") /\ Reads
    \/ /\ At(c, "start", o) /\ Exists(n) /\ secret[n].state = "Active"
       /\ Answer(c, "ok") /\ Reads
    \/ /\ At(c, "start", o) /\ Exists(n) /\ ~Terminal(n) /\ secret[n].state # "Active"
       /\ Keep(c, "restore") /\ Reads
    \/ SetState(c, o, "restore", "Active")

-----------------------------------------------------------------------------
\* TagResource and UntagResource: the tags are read, changed and written whole.

ChangedTags(c) ==
    IF req[c].add THEN got[c].tags \cup {req[c].tag} ELSE got[c].tags \ {req[c].tag}

TagResource(c) ==
    LET o == "TagResource"  n == req[c].n IN
    \/ At(c, "start", o) /\ Gone(n) /\ Answer(c, "NotFound") /\ Reads
    \/ At(c, "start", o) /\ ~Gone(n) /\ Keep(c, "tags") /\ Reads
    \/ /\ At(c, "tags", o)
       /\ secret' = [secret EXCEPT ![n].tags = ChangedTags(c)]
       /\ Answer(c, "ok")
       /\ Writes(c)
       /\ UNCHANGED version

-----------------------------------------------------------------------------
Handle(c) ==
    \/ CreateSecret(c) \/ PutSecretValue(c) \/ DeleteSecret(c) \/ RestoreSecret(c) \/ TagResource(c)

Next == \E c \in Clients : Handle(c) \/ \E r \in Requests : Send(c, r)

Spec == Init /\ [][Next]_vars

-----------------------------------------------------------------------------
\* Properties.

TypeOK ==
    /\ secret \in [Names -> SecretRows \cup {None}]
    /\ version \in [Versions -> VersionRows \cup {None}]
    /\ pc \in [Clients -> Places]
    /\ req \in [Clients -> Requests \cup {None}]
    /\ got \in [Clients -> SecretRows \cup {None}]
    /\ todo \in [Clients -> SUBSET Versions]
    /\ \A c \in Clients : todo[c] \subseteq DOMAIN read[c]
    /\ quiet \in [Clients -> BOOLEAN]
    /\ ans \in [Clients -> Answers]

Inserts(c) == pc[c] = "demote" /\ pc'[c] = "idle"

\* "AWSCURRENT moves to the new version, the prior version becomes AWSPREVIOUS":
\* a put that no other write overlaps leaves the one version it inserted as
\* AWSCURRENT, and as AWSPREVIOUS the versions that were AWSCURRENT before it.
QuietPutMovesCurrent ==
    [][\A c \in Clients, n \in Names :
          /\ Inserts(c) /\ req[c].n = n /\ quiet[c]
          /\ req[c].op = "CreateSecret" \/ req[c].stages = {}
          => /\ Labelled(n, "AWSCURRENT")' = {v \in Versions : version[v] # version'[v]}
             /\ Labelled(n, "AWSPREVIOUS")' =
                   {v \in DOMAIN read[c] : "AWSCURRENT" \in read[c][v]}]_vars

\* "RestoreSecret on a Destroyed secret returns 409", and so does a delete: no
\* request that no other write overlaps brings a destroyed secret back.
QuietDestroyedStays ==
    [][\A c \in Clients, n \in Names :
          /\ pc[c] \in {"mark", "restore"} /\ pc'[c] = "idle" /\ req[c].n = n
          /\ quiet[c] /\ secret[n].state = "Destroyed"
          => secret'[n].state = "Destroyed"]_vars
=============================================================================

------------------------ MODULE SecretsManagerProofs ------------------------
(***************************************************************************)
(* For any clients, names, versions and tags: the rows keep their types, a *)
(* put that no other write overlaps moves AWSCURRENT and AWSPREVIOUS as    *)
(* the service promises, and none brings a destroyed secret back.          *)
(***************************************************************************)
EXTENDS SecretsManager, TLAPS

\* What a request carries.
LEMMA RequestShape ==
    ASSUME NEW r \in Requests
    PROVE  /\ r.n \in Names
           /\ r.op = "CreateSecret" => r.tags \subseteq Tags
           /\ r.op = "PutSecretValue" => r.stages \subseteq Stages
           /\ r.op = "TagResource" => r.tag \in Tags
<1>1. \/ r \in [op: {"CreateSecret"} \cap Ops, n: Names, value: BOOLEAN, tags: SUBSET Tags]
      \/ r \in [op: {"DeleteSecret"} \cap Ops, n: Names, force: BOOLEAN]
      \/ r \in [op: {"RestoreSecret"} \cap Ops, n: Names]
      \/ r \in [op: {"PutSecretValue"} \cap Ops, n: Names, stages: Labels]
      \/ r \in [op: {"TagResource"} \cap Ops, n: Names, tag: Tags, add: BOOLEAN]
  BY DEF Requests
<1> QED
  BY <1>1, ConstantsAssumption

\* A version demoted once is not current, and is previous when it was current.
LEMMA DemotedStages ==
    ASSUME NEW stages \in SUBSET Stages
    PROVE  /\ Demoted(stages) \subseteq Stages
           /\ "AWSCURRENT" \notin Demoted(stages)
           /\ "AWSPREVIOUS" \in Demoted(stages) <=> "AWSCURRENT" \in stages
BY DEF Demoted, Stages
-----------------------------------------------------------------------------
(* The inductive invariant. *)

RowTypes ==
    /\ secret \in [Names -> SecretRows \cup {None}]
    /\ version \in [Versions -> VersionRows \cup {None}]

ClientTypes ==
    /\ pc \in [Clients -> Places]
    /\ req \in [Clients -> Requests \cup {None}]
    /\ got \in [Clients -> SecretRows \cup {None}]
    /\ todo \in [Clients -> SUBSET Versions]
    /\ DOMAIN read = Clients
    /\ quiet \in [Clients -> BOOLEAN]
    /\ ans \in [Clients -> Answers]

\* What a request that no other has written beside knows: its secret is not destroyed,
\* and the versions it read are the secret's, demoted as far as it has come.
QuietOK(c) ==
    /\ pc[c] \in {"mark", "restore"} => secret[req[c].n].state # "Destroyed"
    /\ pc[c] = "demote" =>
          /\ DOMAIN read[c] = VersionsOf(req[c].n)
          /\ \A v \in DOMAIN read[c] :
                version[v].stages = IF v \in todo[c] THEN read[c][v] ELSE Demoted(read[c][v])

ClientOK(c) ==
    /\ todo[c] \subseteq DOMAIN read[c]
    /\ \A v \in DOMAIN read[c] : read[c][v] \subseteq Stages
    /\ pc[c] # "idle" => req[c] \in Requests
    /\ pc[c] = "demote" => DOMAIN read[c] \subseteq VersionsOf(req[c].n)
    /\ pc[c] \in {"mark", "restore", "tags"} => Exists(req[c].n)
    /\ pc[c] = "tags" => got[c] \in SecretRows
    /\ quiet[c] => QuietOK(c)

Inv == RowTypes /\ ClientTypes /\ \A c \in Clients : ClientOK(c)
-----------------------------------------------------------------------------
(* What a step of one request leaves the others, and what is promised of it. *)

\* No row goes, and a version stays its secret's.
RowsStay ==
    /\ \A n \in Names : Exists(n) => Exists(n)'
    /\ \A n \in Names : VersionsOf(n) \subseteq VersionsOf(n)'

Of(row, n) == row # None /\ row.n = n

Untouched(n) ==
    /\ secret'[n] = secret[n]
    /\ \A v \in Versions : Of(version[v], n) \/ Of(version'[v], n) => version'[v] = version[v]

QuietAfter(c) ==
    /\ quiet' \in [Clients -> BOOLEAN] /\ quiet'[c] = quiet[c]
    /\ \A d \in Clients \ {c} : quiet'[d] => quiet[d] /\ (pc[d] # "idle" => Untouched(req[d].n))

Leaves(c) ==
    \A d \in Clients \ {c} :
        /\ pc'[d] = pc[d] /\ req'[d] = req[d] /\ got'[d] = got[d] /\ read'[d] = read[d] /\ todo'[d] = todo[d]
        /\ quiet'[d] => quiet[d] /\ (pc[d] # "idle" => Untouched(req[d].n))

PutMovesCurrent(c) ==
    \A n \in Names :
        /\ Inserts(c) /\ req[c].n = n /\ quiet[c]
        /\ req[c].op = "CreateSecret" \/ req[c].stages = {}
        => /\ Labelled(n, "AWSCURRENT")' = {v \in Versions : version[v] # version'[v]}
           /\ Labelled(n, "AWSPREVIOUS")' = {v \in DOMAIN read[c] : "AWSCURRENT" \in read[c][v]}

DestroyedStays(c) ==
    /\ pc[c] \in {"mark", "restore"} /\ pc'[c] = "idle" /\ quiet[c] /\ secret[req[c].n].state = "Destroyed"
    => secret'[req[c].n].state = "Destroyed"

GoodStep(c) == Inv' /\ \A d \in Clients : PutMovesCurrent(d) /\ DestroyedStays(d)

LEMMA OthersAreOK ==
    ASSUME Inv, NEW c \in Clients, Leaves(c), RowsStay, NEW d \in Clients \ {c}
    PROVE  ClientOK(d)'
<1>1. /\ pc'[d] = pc[d] /\ req'[d] = req[d] /\ got'[d] = got[d] /\ read'[d] = read[d] /\ todo'[d] = todo[d]
      /\ quiet'[d] => quiet[d] /\ (pc[d] # "idle" => Untouched(req[d].n))
  BY DEF Leaves
<1>2. ClientOK(d) /\ (pc[d] # "idle" => req[d].n \in Names)
  BY RequestShape DEF Inv, ClientOK
<1>3. pc[d] = "demote" => DOMAIN read[d] \subseteq VersionsOf(req[d].n)'
  BY <1>1, <1>2 DEF ClientOK, RowsStay
<1>4. pc[d] \in {"mark", "restore", "tags"} => Exists(req[d].n)'
  BY <1>1, <1>2 DEF ClientOK, RowsStay
<1>5. quiet'[d] => QuietOK(d)'
  <2> SUFFICES ASSUME quiet'[d] PROVE QuietOK(d)'
    OBVIOUS
  <2>1. QuietOK(d)
    BY <1>1, <1>2 DEF ClientOK
  <2>2. CASE pc[d] = "demote"
    <3>1. \A v \in Versions : Of(version[v], req[d].n) \/ Of(version'[v], req[d].n) => version'[v] = version[v]
      BY <1>1, <2>2 DEF Untouched
    <3>2. VersionsOf(req[d].n)' = VersionsOf(req[d].n)
      BY <1>1, <3>1 DEF VersionsOf, Of
    <3>3. \A v \in VersionsOf(req[d].n) : version'[v] = version[v]
      BY <3>1 DEF VersionsOf, Of
    <3> QED
      BY <1>1, <2>1, <2>2, <3>2, <3>3 DEF QuietOK
  <2>3. CASE pc[d] \in {"mark", "restore"}
    BY <1>1, <2>1, <2>3 DEF QuietOK, Untouched
  <2> QED
    BY <1>1, <2>2, <2>3 DEF QuietOK
<1> QED
  BY <1>1, <1>2, <1>3, <1>4, <1>5 DEF ClientOK, Exists, VersionsOf

LEMMA StepIsGood ==
    ASSUME Inv, NEW c \in Clients, Leaves(c), RowsStay, RowTypes', ClientTypes', ClientOK(c)',
           PutMovesCurrent(c), DestroyedStays(c)
    PROVE  GoodStep(c)
<1>1. \A d \in Clients \ {c} : ClientOK(d)'
  BY OthersAreOK
<1>2. \A d \in Clients \ {c} : PutMovesCurrent(d) /\ DestroyedStays(d)
  BY DEF Leaves, PutMovesCurrent, DestroyedStays, Inserts
<1> QED
  BY <1>1, <1>2 DEF GoodStep, Inv
-----------------------------------------------------------------------------
(* The ways a request moves. *)

LEMMA ReadsAreGood ==
    ASSUME Inv, NEW c \in Clients, Reads
    PROVE  RowTypes' /\ RowsStay /\ QuietAfter(c) /\ UNCHANGED <<secret, version>>
<1>1. UNCHANGED <<secret, version, quiet>>
  BY DEF Reads, db
<1>2. \A n : Untouched(n) /\ (Exists(n)' <=> Exists(n)) /\ VersionsOf(n)' = VersionsOf(n)
  BY <1>1 DEF Untouched, Exists, VersionsOf
<1>3. RowTypes'
  BY <1>1 DEF Inv, RowTypes
<1>4. RowsStay
  BY <1>2 DEF RowsStay
<1>5. QuietAfter(c)
  BY <1>1, <1>2 DEF QuietAfter, Inv, ClientTypes
<1> QED
  BY <1>1, <1>3, <1>4, <1>5

LEMMA WritesAreGood ==
    ASSUME Inv, NEW c \in Clients, Writes(c), \A n \in Names \ {req[c].n} : Untouched(n)
    PROVE  QuietAfter(c)
<1>1. \A d \in Clients : pc[d] # "idle" => req[d].n \in Names
  BY RequestShape DEF Inv, ClientOK
<1> QED
  BY <1>1 DEF Writes, QuietAfter, Inv, ClientTypes

LEMMA AnswerIsGood ==
    ASSUME Inv, NEW c \in Clients, NEW a \in Answers, Answer(c, a), RowTypes', RowsStay, QuietAfter(c),
           PutMovesCurrent(c), DestroyedStays(c)
    PROVE  GoodStep(c)
<1>1. /\ pc' = [pc EXCEPT ![c] = "idle"] /\ req' = [req EXCEPT ![c] = None] /\ got' = [got EXCEPT ![c] = None]
      /\ read' = [read EXCEPT ![c] = << >>] /\ todo' = [todo EXCEPT ![c] = {}] /\ ans' = [ans EXCEPT ![c] = a]
  BY DEF Answer
<1>2. Leaves(c)
  BY <1>1 DEF Leaves, QuietAfter, Inv, ClientTypes
<1>3. ClientTypes'
  BY <1>1 DEF Inv, ClientTypes, QuietAfter, Places
<1>4. pc'[c] = "idle" /\ read'[c] = << >> /\ todo'[c] = {}
  BY <1>1 DEF Inv, ClientTypes
<1>5. ClientOK(c)'
  <2>1. DOMAIN << >> = {}
    OBVIOUS
  <2> QED
    BY <1>4, <2>1 DEF ClientOK, QuietOK
<1> QED
  BY <1>2, <1>3, <1>5, StepIsGood

\* A refusal: nothing is written.
LEMMA RefusalIsGood ==
    ASSUME Inv, NEW c \in Clients, NEW a \in Answers, Answer(c, a), Reads, pc[c] \in {"start", "value"}
    PROVE  GoodStep(c)
BY ReadsAreGood, AnswerIsGood DEF PutMovesCurrent, DestroyedStays, Inserts

\* The request goes on with the row it read.
LEMMA KeepIsGood ==
    ASSUME Inv, NEW c \in Clients, NEW next \in Places, Keep(c, next), Reads, pc[c] \in {"start", "value"},
           next \in {"versions", "mark", "restore", "tags"},
           next # "versions" => Exists(req[c].n),
           next \in {"mark", "restore"} => secret[req[c].n].state # "Destroyed"
    PROVE  GoodStep(c)
<1>1. RowTypes' /\ RowsStay /\ QuietAfter(c) /\ UNCHANGED <<secret, version>>
  BY ReadsAreGood
<1>2. ClientOK(c) /\ req[c] \in Requests /\ req[c].n \in Names
  BY RequestShape DEF Inv, ClientOK
<1>3. /\ pc' = [pc EXCEPT ![c] = next] /\ got' = [got EXCEPT ![c] = secret[req[c].n]]
      /\ UNCHANGED <<req, read, todo, ans>>
  BY DEF Keep
<1>4. secret[req[c].n] \in SecretRows \cup {None}
  BY <1>2 DEF Inv, RowTypes
<1>5. Leaves(c)
  BY <1>1, <1>3 DEF Leaves, QuietAfter, Inv, ClientTypes
<1>6. ClientTypes'
  BY <1>1, <1>3, <1>4 DEF Inv, ClientTypes, QuietAfter
<1>7. pc'[c] = next /\ got'[c] = secret[req[c].n] /\ req'[c] = req[c] /\ read'[c] = read[c] /\ todo'[c] = todo[c]
  BY <1>3 DEF Inv, ClientTypes
<1>8. ClientOK(c)'
  BY <1>1, <1>2, <1>4, <1>7 DEF ClientOK, QuietOK, Exists
<1>9. PutMovesCurrent(c) /\ DestroyedStays(c)
  BY DEF PutMovesCurrent, DestroyedStays, Inserts
<1> QED
  BY <1>1, <1>5, <1>6, <1>8, <1>9, StepIsGood

\* The request's secret, and no version, is written.
LEMMA SecretIsWritten ==
    ASSUME Inv, NEW c \in Clients, req[c].n \in Names, NEW row \in SecretRows,
           secret' = [secret EXCEPT ![req[c].n] = row], UNCHANGED version, Writes(c)
    PROVE  RowTypes' /\ RowsStay /\ QuietAfter(c) /\ secret'[req[c].n] = row
<1>1. RowTypes' /\ secret'[req[c].n] = row
  BY DEF Inv, RowTypes
<1>2. RowsStay
  BY NoneAssumption DEF RowsStay, Exists, VersionsOf, Inv, RowTypes
<1>3. \A n \in Names \ {req[c].n} : Untouched(n)
  BY DEF Untouched, Inv, RowTypes
<1> QED
  BY <1>1, <1>2, <1>3, WritesAreGood
-----------------------------------------------------------------------------
(* PutSecretValue's statements. *)

LEMMA ReadVersionsIsGood ==
    ASSUME Inv, NEW c \in Clients, NEW o, ReadVersions(c, o)
    PROVE  GoodStep(c)
<1> DEFINE n == req[c].n
           f == [v \in VersionsOf(n) |-> version[v].stages]
<1>1. RowTypes' /\ RowsStay /\ QuietAfter(c) /\ UNCHANGED <<secret, version>>
  BY ReadsAreGood DEF ReadVersions
<1>2. pc[c] = "versions" /\ req[c] \in Requests /\ n \in Names
  BY RequestShape DEF ReadVersions, At, Inv, ClientOK
<1>3. /\ read' = [read EXCEPT ![c] = f] /\ todo' = [todo EXCEPT ![c] = VersionsOf(n)]
      /\ pc' = [pc EXCEPT ![c] = "demote"] /\ UNCHANGED <<req, got, ans>>
  BY DEF ReadVersions
<1>4. VersionsOf(n) \subseteq Versions /\ \A v \in VersionsOf(n) : version[v].stages \subseteq Stages
  BY DEF VersionsOf, Inv, RowTypes, VersionRows
<1>5. Leaves(c)
  BY <1>1, <1>3 DEF Leaves, QuietAfter, Inv, ClientTypes
<1>6. ClientTypes'
  BY <1>1, <1>3, <1>4 DEF Inv, ClientTypes, QuietAfter, Places
<1>7. pc'[c] = "demote" /\ req'[c] = req[c] /\ read'[c] = f /\ todo'[c] = VersionsOf(n)
  BY <1>3 DEF Inv, ClientTypes
<1>8. VersionsOf(n)' = VersionsOf(n)
  BY <1>1, <1>7 DEF VersionsOf
<1>9. ClientOK(c)'
  BY <1>1, <1>2, <1>4, <1>7, <1>8 DEF ClientOK, QuietOK
<1>10. PutMovesCurrent(c) /\ DestroyedStays(c)
  BY <1>2 DEF PutMovesCurrent, DestroyedStays, Inserts
<1> QED
  BY <1>1, <1>5, <1>6, <1>9, <1>10, StepIsGood

\* Every version is some secret's alone.
LEMMA VersionsOfOne ==
    ASSUME NEW n, NEW m, n # m
    PROVE  VersionsOf(n) \cap VersionsOf(m) = {}
BY DEF VersionsOf

LEMMA DemoteOneIsGood ==
    ASSUME Inv, NEW c \in Clients, NEW o, DemoteOne(c, o)
    PROVE  GoodStep(c)
<1> DEFINE n == req[c].n
<1>1. /\ pc[c] = "demote" /\ req[c] \in Requests /\ n \in Names /\ ClientOK(c)
      /\ todo[c] \subseteq DOMAIN read[c] /\ DOMAIN read[c] \subseteq VersionsOf(n)
  BY RequestShape DEF DemoteOne, At, Inv, ClientOK
<1>2. PICK v \in todo[c] :
          /\ version' = [version EXCEPT ![v].stages = Demoted(read[c][v])]
          /\ todo' = [todo EXCEPT ![c] = @ \ {v}]
  BY DEF DemoteOne
<1>3. Writes(c) /\ UNCHANGED <<secret, pc, req, got, read, ans>>
  BY DEF DemoteOne
<1>4. v \in VersionsOf(n) /\ v \in Versions /\ version[v] \in VersionRows /\ version[v].n = n
  BY <1>1, <1>2 DEF VersionsOf, Inv, RowTypes
<1>5. Demoted(read[c][v]) \subseteq Stages
  BY <1>1, <1>2, DemotedStages DEF ClientOK
<1> DEFINE row == [version[v] EXCEPT !.stages = Demoted(read[c][v])]
<1>6. row \in VersionRows /\ row # None /\ row.n = n /\ row.stages = Demoted(read[c][v])
  BY <1>4, <1>5, NoneAssumption DEF VersionRows
<1>7. \A u \in Versions : version'[u] = IF u = v THEN row ELSE version[u]
  BY <1>2 DEF Inv, RowTypes
<1>8. version' \in [Versions -> VersionRows \cup {None}]
  BY <1>2, <1>4, <1>6 DEF Inv, RowTypes
<1> HIDE DEF row
<1>9. RowTypes'
  BY <1>3, <1>8 DEF Inv, RowTypes
<1>10. \A m : VersionsOf(m)' = VersionsOf(m)
  BY <1>4, <1>6, <1>7 DEF VersionsOf
<1>11. RowsStay
  BY <1>3, <1>10 DEF RowsStay, Exists
<1>12. QuietAfter(c)
  <2>1. ASSUME NEW m \in Names \ {n} PROVE Untouched(m)
    BY <1>3, <1>4, <1>6, <1>7, <2>1 DEF Untouched, Of
  <2> QED
    BY <1>3, <2>1, WritesAreGood
<1>13. todo'[c] = todo[c] \ {v} /\ \A d \in Clients \ {c} : todo'[d] = todo[d]
  BY <1>2 DEF Inv, ClientTypes
<1>14. Leaves(c)
  BY <1>3, <1>12, <1>13 DEF Leaves, QuietAfter
<1>15. ClientTypes'
  <2>1. todo[c] \ {v} \in SUBSET Versions
    BY DEF Inv, ClientTypes
  <2> QED
    BY <1>2, <1>3, <1>12, <2>1 DEF Inv, ClientTypes, QuietAfter
<1>16. ClientOK(c)'
  <2>1. quiet[c] => QuietOK(c)'
    <3> SUFFICES ASSUME quiet[c] PROVE QuietOK(c)'
      OBVIOUS
    <3>1. /\ DOMAIN read[c] = VersionsOf(n)
          /\ \A u \in DOMAIN read[c] :
                version[u].stages = IF u \in todo[c] THEN read[c][u] ELSE Demoted(read[c][u])
      BY <1>1 DEF ClientOK, QuietOK
    <3>2. DOMAIN read[c] \subseteq Versions
      BY <3>1 DEF VersionsOf
    <3>3. \A u \in DOMAIN read[c] :
              version'[u].stages = IF u \in todo'[c] THEN read[c][u] ELSE Demoted(read[c][u])
      BY <1>6, <1>7, <1>13, <3>1, <3>2
    <3> QED
      BY <1>1, <1>3, <1>10, <3>1, <3>3 DEF QuietOK
  <2> QED
    BY <1>1, <1>3, <1>10, <1>12, <1>13, <2>1 DEF ClientOK, QuietAfter
<1>17. PutMovesCurrent(c) /\ DestroyedStays(c)
  BY <1>1, <1>3 DEF PutMovesCurrent, DestroyedStays, Inserts
<1> QED
  BY <1>9, <1>11, <1>14, <1>15, <1>16, <1>17, StepIsGood

LEMMA InsertVersionIsGood ==
    ASSUME Inv, NEW c \in Clients, NEW o, NEW stages \in SUBSET Stages, InsertVersion(c, o, stages),
           req[c].op = "CreateSecret" \/ req[c].stages = {} => stages = {"AWSCURRENT"}
    PROVE  GoodStep(c)
<1> DEFINE n == req[c].n
           row == [n |-> n, stages |-> stages]
<1>1. /\ pc[c] = "demote" /\ req[c] \in Requests /\ n \in Names /\ ClientOK(c) /\ todo[c] = {}
      /\ DOMAIN read[c] \subseteq VersionsOf(n)
  BY RequestShape DEF InsertVersion, At, Inv, ClientOK
<1>2. PICK v \in Versions : version[v] = None /\ version' = [version EXCEPT ![v] = row]
  BY DEF InsertVersion
<1>3. Answer(c, "ok") /\ Writes(c) /\ UNCHANGED secret
  BY DEF InsertVersion
<1>4. row \in VersionRows /\ row # None /\ row.n = n /\ row.stages = stages
  BY <1>1, NoneAssumption DEF VersionRows
<1>5. version' \in [Versions -> VersionRows \cup {None}]
  BY <1>2, <1>4 DEF Inv, RowTypes
<1>6. \A u \in Versions : version'[u] = IF u = v THEN row ELSE version[u]
  BY <1>2 DEF Inv, RowTypes
<1> HIDE DEF row
<1>7. RowTypes'
  BY <1>3, <1>5 DEF Inv, RowTypes
<1>8. \A m \in Names : VersionsOf(m)' = VersionsOf(m) \cup (IF m = n THEN {v} ELSE {}) /\ v \notin VersionsOf(m)
  BY <1>2, <1>4, <1>6 DEF VersionsOf
<1>9. RowsStay
  BY <1>3, <1>8 DEF RowsStay, Exists
<1>10. QuietAfter(c)
  <2>1. ASSUME NEW m \in Names \ {n} PROVE Untouched(m)
    BY <1>2, <1>3, <1>4, <1>6, <2>1 DEF Untouched, Of
  <2> QED
    BY <1>3, <2>1, WritesAreGood
<1>11. PutMovesCurrent(c)
  <2> SUFFICES ASSUME NEW m \in Names, m = n, quiet[c], req[c].op = "CreateSecret" \/ req[c].stages = {}
               PROVE  /\ Labelled(m, "AWSCURRENT")' = {u \in Versions : version[u] # version'[u]}
                      /\ Labelled(m, "AWSPREVIOUS")' = {u \in DOMAIN read[c] : "AWSCURRENT" \in read[c][u]}
    BY DEF PutMovesCurrent
  <2>1. /\ DOMAIN read[c] = VersionsOf(m)
        /\ \A u \in DOMAIN read[c] :
              version[u].stages = IF u \in todo[c] THEN read[c][u] ELSE Demoted(read[c][u])
    BY <1>1 DEF ClientOK, QuietOK
  <2>2. \A u \in VersionsOf(m) :
            /\ "AWSCURRENT" \notin version[u].stages
            /\ "AWSPREVIOUS" \in version[u].stages <=> "AWSCURRENT" \in read[c][u]
    BY <1>1, <2>1, DemotedStages DEF ClientOK
  <2>3. stages = {"AWSCURRENT"}
    OBVIOUS
  <2>4. VersionsOf(m) \subseteq Versions
    BY DEF VersionsOf
  <2> DEFINE vs == VersionsOf(m)'
  <2>5. vs = VersionsOf(m) \cup {v}
    BY <1>1, <1>8
  <2>6. \A u \in VersionsOf(m) : version'[u] = version[u]
    BY <1>1, <1>6, <1>8, <2>4
  <2>7. version'[v].stages = {"AWSCURRENT"}
    BY <1>4, <1>6, <2>3
  <2> HIDE DEF vs
  <2>8. {u \in vs : "AWSCURRENT" \in version'[u].stages} = {v}
    BY <2>2, <2>5, <2>6, <2>7
  <2>9. {u \in vs : "AWSPREVIOUS" \in version'[u].stages} = {u \in DOMAIN read[c] : "AWSCURRENT" \in read[c][u]}
    BY <2>1, <2>2, <2>5, <2>6, <2>7
  <2>10. {u \in Versions : version[u] # version'[u]} = {v}
    BY <1>2, <1>4, <1>6
  <2>11. /\ {u \in vs : "AWSCURRENT" \in version'[u].stages} = {u \in VersionsOf(m)' : "AWSCURRENT" \in version'[u].stages}
         /\ {u \in vs : "AWSPREVIOUS" \in version'[u].stages} = {u \in VersionsOf(m)' : "AWSPREVIOUS" \in version'[u].stages}
    BY DEF vs
  <2> QED
    BY <2>8, <2>9, <2>10, <2>11 DEF Labelled
<1>12. DestroyedStays(c)
  BY <1>1 DEF DestroyedStays
<1> QED
  BY <1>3, <1>7, <1>9, <1>10, <1>11, <1>12, AnswerIsGood DEF Answers

LEMMA PutValueIsGood ==
    ASSUME Inv, NEW c \in Clients, NEW o, NEW stages \in SUBSET Stages, PutValue(c, o, stages),
           req[c].op = "CreateSecret" \/ req[c].stages = {} => stages = {"AWSCURRENT"}
    PROVE  GoodStep(c)
BY ReadVersionsIsGood, DemoteOneIsGood, InsertVersionIsGood DEF PutValue

LEMMA PutSecretValueIsGood ==
    ASSUME Inv, NEW c \in Clients, PutSecretValue(c)
    PROVE  GoodStep(c)
<1> DEFINE o == "PutSecretValue"
           stages == IF req[c].stages = {} THEN {"AWSCURRENT"} ELSE req[c].stages
<1>1. CASE At(c, "start", o) /\ Gone(req[c].n) /\ Answer(c, "NotFound") /\ Reads
  BY <1>1, RefusalIsGood DEF At, Answers
<1>2. CASE At(c, "start", o) /\ ~Gone(req[c].n) /\ Keep(c, "versions") /\ Reads
  BY <1>2, KeepIsGood DEF At, Places
<1>3. CASE PutValue(c, o, stages)
  <2>1. pc[c] # "idle" /\ req[c].op = o
    BY <1>3 DEF PutValue, ReadVersions, DemoteOne, InsertVersion, At
  <2>2. req[c].stages \subseteq Stages
    BY <2>1, RequestShape DEF Inv, ClientOK
  <2>3. stages \in SUBSET Stages
    BY <2>2 DEF Stages
  <2>4. req[c].op = "CreateSecret" \/ req[c].stages = {} => stages = {"AWSCURRENT"}
    BY <2>1
  <2> HIDE DEF stages
  <2> QED
    BY <1>3, <2>3, <2>4, PutValueIsGood
<1> QED
  BY <1>1, <1>2, <1>3 DEF PutSecretValue

LEMMA CreateSecretIsGood ==
    ASSUME Inv, NEW c \in Clients, CreateSecret(c)
    PROVE  GoodStep(c)
<1> DEFINE o == "CreateSecret"
           n == req[c].n
<1>1. CASE At(c, "start", o) /\ Exists(n) /\ Answer(c, "Conflict") /\ Reads
  BY <1>1, RefusalIsGood DEF At, Answers
<1>2. CASE /\ At(c, "start", o) /\ ~Exists(n)
           /\ secret' = [secret EXCEPT ![n] = [state |-> "Active", tags |-> req[c].tags]]
           /\ IF req[c].value THEN Goto(c, "value") ELSE Answer(c, "ok")
           /\ Writes(c)
           /\ UNCHANGED version
  <2> DEFINE row == [state |-> "Active", tags |-> req[c].tags]
  <2>1. pc[c] = "start" /\ ClientOK(c) /\ req[c] \in Requests /\ n \in Names /\ req[c].tags \subseteq Tags
    BY <1>2, RequestShape DEF At, Inv, ClientOK
  <2>2. row \in SecretRows
    BY <2>1 DEF SecretRows, States
  <2> HIDE DEF row
  <2>3. secret' = [secret EXCEPT ![n] = row] /\ Writes(c) /\ UNCHANGED version
    BY <1>2 DEF row
  <2>4. RowTypes' /\ RowsStay /\ QuietAfter(c)
    BY <2>1, <2>2, <2>3, SecretIsWritten
  <2>5. PutMovesCurrent(c) /\ DestroyedStays(c)
    BY <2>1 DEF PutMovesCurrent, DestroyedStays, Inserts
  <2>6. CASE Answer(c, "ok")
    BY <2>4, <2>5, <2>6, AnswerIsGood DEF Answers
  <2>7. CASE Goto(c, "value")
    <3>1. pc' = [pc EXCEPT ![c] = "value"] /\ UNCHANGED <<req, got, read, todo, ans>>
      BY <2>7 DEF Goto
    <3>2. Leaves(c)
      BY <2>4, <3>1 DEF Leaves, QuietAfter, Inv, ClientTypes
    <3>3. ClientTypes'
      BY <2>4, <3>1 DEF Inv, ClientTypes, QuietAfter, Places
    <3>4. pc'[c] = "value" /\ req'[c] = req[c] /\ read'[c] = read[c] /\ todo'[c] = todo[c]
      BY <3>1 DEF Inv, ClientTypes
    <3>5. ClientOK(c)'
      BY <2>1, <3>4 DEF ClientOK, QuietOK
    <3> QED
      BY <2>4, <2>5, <3>2, <3>3, <3>5, StepIsGood
  <2> QED
    BY <1>2, <2>6, <2>7
<1>3. CASE At(c, "value", o) /\ Gone(n) /\ Answer(c, "ok") /\ Reads
  BY <1>3, RefusalIsGood DEF At, Answers
<1>4. CASE At(c, "value", o) /\ ~Gone(n) /\ Keep(c, "versions") /\ Reads
  BY <1>4, KeepIsGood DEF At, Places
<1>5. CASE PutValue(c, o, {"AWSCURRENT"})
  BY <1>5, PutValueIsGood DEF Stages
<1> QED
  BY <1>1, <1>2, <1>3, <1>4, <1>5 DEF CreateSecret
-----------------------------------------------------------------------------
(* Deletion, restore and tags. *)

LEMMA SetStateIsGood ==
    ASSUME Inv, NEW c \in Clients, NEW o, NEW place \in {"mark", "restore"}, NEW state \in States,
           SetState(c, o, place, state)
    PROVE  GoodStep(c)
<1> DEFINE n == req[c].n
           row == [secret[n] EXCEPT !.state = state]
<1>1. pc[c] = place /\ ClientOK(c) /\ req[c] \in Requests /\ n \in Names /\ Exists(n)
  BY RequestShape DEF SetState, At, Inv, ClientOK
<1>2. /\ secret' = [secret EXCEPT ![n].state = state] /\ Answer(c, "ok") /\ Writes(c)
      /\ UNCHANGED version
  BY DEF SetState
<1>3. secret[n] \in SecretRows
  BY <1>1 DEF Inv, RowTypes, Exists
<1>4. row \in SecretRows
  BY <1>3 DEF SecretRows
<1>5. secret' = [secret EXCEPT ![n] = row]
  BY <1>2
<1> HIDE DEF row
<1>6. RowTypes' /\ RowsStay /\ QuietAfter(c)
  BY <1>1, <1>2, <1>4, <1>5, SecretIsWritten
<1>7. PutMovesCurrent(c)
  BY <1>1 DEF PutMovesCurrent, Inserts
<1>8. DestroyedStays(c)
  BY <1>1 DEF DestroyedStays, ClientOK, QuietOK
<1> QED
  BY <1>2, <1>6, <1>7, <1>8, AnswerIsGood DEF Answers

LEMMA DeleteSecretIsGood ==
    ASSUME Inv, NEW c \in Clients, DeleteSecret(c)
    PROVE  GoodStep(c)
<1> DEFINE o == "DeleteSecret"
           n == req[c].n
           state == IF req[c].force THEN "Destroyed" ELSE "PendingDeletion"
<1>1. CASE At(c, "start", o) /\ ~Exists(n) /\ Answer(c, "NotFound") /\ Reads
  BY <1>1, RefusalIsGood DEF At, Answers
<1>2. CASE At(c, "start", o) /\ Exists(n) /\ Terminal(n) /\ Answer(c, "TerminalState") /\ Reads
  BY <1>2, RefusalIsGood DEF At, Answers
<1>3. CASE At(c, "start", o) /\ Exists(n) /\ ~Terminal(n) /\ Keep(c, "mark") /\ Reads
  BY <1>3, KeepIsGood DEF At, Places, Terminal
<1>4. CASE SetState(c, o, "mark", state)
  <2>1. state \in States
    BY DEF States
  <2> QED
    BY <1>4, <2>1, SetStateIsGood
<1> QED
  BY <1>1, <1>2, <1>3, <1>4 DEF DeleteSecret

LEMMA RestoreSecretIsGood ==
    ASSUME Inv, NEW c \in Clients, RestoreSecret(c)
    PROVE  GoodStep(c)
<1> DEFINE o == "RestoreSecret"
           n == req[c].n
<1>1. CASE At(c, "start", o) /\ ~Exists(n) /\ Answer(c, "NotFound") /\ Reads
  BY <1>1, RefusalIsGood DEF At, Answers
<1>2. CASE At(c, "start", o) /\ Exists(n) /\ Terminal(n) /\ Answer(c, "TerminalState") /\ Reads
  BY <1>2, RefusalIsGood DEF At, Answers
<1>3. CASE At(c, "start", o) /\ Exists(n) /\ secret[n].state = "Active" /\ Answer(c, "ok") /\ Reads
  BY <1>3, RefusalIsGood DEF At, Answers
<1>4. CASE /\ At(c, "start", o) /\ Exists(n) /\ ~Terminal(n) /\ secret[n].state # "Active"
           /\ Keep(c, "restore") /\ Reads
  BY <1>4, KeepIsGood DEF At, Places, Terminal
<1>5. CASE SetState(c, o, "restore", "Active")
  BY <1>5, SetStateIsGood DEF States
<1> QED
  BY <1>1, <1>2, <1>3, <1>4, <1>5 DEF RestoreSecret

LEMMA TagResourceIsGood ==
    ASSUME Inv, NEW c \in Clients, TagResource(c)
    PROVE  GoodStep(c)
<1> DEFINE o == "TagResource"
           n == req[c].n
<1>1. CASE At(c, "start", o) /\ Gone(n) /\ Answer(c, "NotFound") /\ Reads
  BY <1>1, RefusalIsGood DEF At, Answers
<1>2. CASE At(c, "start", o) /\ ~Gone(n) /\ Keep(c, "tags") /\ Reads
  BY <1>2, KeepIsGood DEF At, Places, Gone
<1>3. CASE /\ At(c, "tags", o)
           /\ secret' = [secret EXCEPT ![n].tags = ChangedTags(c)]
           /\ Answer(c, "ok")
           /\ Writes(c)
           /\ UNCHANGED version
  <2> DEFINE row == [secret[n] EXCEPT !.tags = ChangedTags(c)]
  <2>1. /\ pc[c] = "tags" /\ req[c] \in Requests /\ n \in Names /\ Exists(n) /\ got[c] \in SecretRows
        /\ req[c].tag \in Tags
    BY <1>3, RequestShape DEF At, Inv, ClientOK
  <2>2. ChangedTags(c) \in SUBSET Tags
    BY <2>1 DEF ChangedTags, SecretRows
  <2>3. row \in SecretRows
    BY <2>1, <2>2 DEF Inv, RowTypes, Exists, SecretRows
  <2>4. secret' = [secret EXCEPT ![n] = row] /\ Writes(c) /\ UNCHANGED version
    BY <1>3
  <2> HIDE DEF row
  <2>5. RowTypes' /\ RowsStay /\ QuietAfter(c)
    BY <2>1, <2>3, <2>4, SecretIsWritten
  <2>6. PutMovesCurrent(c) /\ DestroyedStays(c)
    BY <2>1 DEF PutMovesCurrent, DestroyedStays, Inserts
  <2> QED
    BY <1>3, <2>5, <2>6, AnswerIsGood DEF Answers
<1> QED
  BY <1>1, <1>2, <1>3 DEF TagResource

LEMMA SendIsGood ==
    ASSUME Inv, NEW c \in Clients, NEW r \in Requests, Send(c, r)
    PROVE  GoodStep(c)
<1>1. /\ pc[c] = "idle" /\ ClientOK(c)
      /\ pc' = [pc EXCEPT ![c] = "start"] /\ req' = [req EXCEPT ![c] = r]
      /\ quiet' = [quiet EXCEPT ![c] = TRUE] /\ ans' = [ans EXCEPT ![c] = "none"]
      /\ UNCHANGED <<secret, version, got, read, todo>>
  BY DEF Send, db, Inv
<1>2. \A n : Untouched(n) /\ (Exists(n)' <=> Exists(n)) /\ VersionsOf(n)' = VersionsOf(n)
  BY <1>1 DEF Untouched, Exists, VersionsOf
<1>3. RowTypes' /\ RowsStay
  BY <1>1, <1>2 DEF RowsStay, Inv, RowTypes
<1>4. Leaves(c)
  BY <1>1, <1>2 DEF Leaves, Inv, ClientTypes
<1>5. ClientTypes'
  BY <1>1 DEF Inv, ClientTypes, Places, Answers
<1>6. pc'[c] = "start" /\ req'[c] = r
  BY <1>1 DEF Inv, ClientTypes
<1>7. ClientOK(c)'
  BY <1>1, <1>6 DEF ClientOK, QuietOK
<1> QED
  BY <1>1, <1>3, <1>4, <1>5, <1>7, StepIsGood DEF PutMovesCurrent, DestroyedStays, Inserts
-----------------------------------------------------------------------------
(* The invariant and what the steps promise. *)

LEMMA InitInv == Init => Inv
<1> SUFFICES ASSUME Init PROVE Inv
  OBVIOUS
<1>1. RowTypes
  BY DEF Init, RowTypes
<1>2. ClientTypes
  BY DEF Init, ClientTypes, Places, Answers
<1>3. ASSUME NEW c \in Clients PROVE ClientOK(c)
  <2>1. DOMAIN << >> = {}
    OBVIOUS
  <2>2. read[c] = << >> /\ todo[c] = {} /\ pc[c] = "idle"
    BY DEF Init
  <2> QED
    BY <2>1, <2>2 DEF ClientOK, QuietOK
<1> QED
  BY <1>1, <1>2, <1>3 DEF Inv

Promised == \A c \in Clients : PutMovesCurrent(c) /\ DestroyedStays(c)

LEMMA NextInv == Inv /\ [Next]_vars => Inv' /\ Promised
<1> SUFFICES ASSUME Inv, [Next]_vars PROVE Inv' /\ Promised
  OBVIOUS
<1>1. CASE Next
  <2>1. ASSUME NEW c \in Clients, Handle(c) PROVE GoodStep(c)
    BY <2>1, CreateSecretIsGood, PutSecretValueIsGood, DeleteSecretIsGood, RestoreSecretIsGood,
       TagResourceIsGood DEF Handle
  <2> QED
    BY <1>1, <2>1, SendIsGood DEF Next, GoodStep, Promised
<1>2. CASE UNCHANGED vars
  <2>1. RowTypes' /\ ClientTypes'
    BY <1>2 DEF vars, Inv, RowTypes, ClientTypes
  <2>2. ASSUME NEW c \in Clients PROVE ClientOK(c)'
    <3>1. ClientOK(c)
      BY DEF Inv
    <3>2. VersionsOf(req[c].n)' = VersionsOf(req[c].n) /\ (Exists(req[c].n)' <=> Exists(req[c].n))
      BY <1>2 DEF vars, VersionsOf, Exists
    <3> QED
      BY <1>2, <3>1, <3>2 DEF vars, ClientOK, QuietOK
  <2>3. Promised
    BY <1>2 DEF vars, Promised, PutMovesCurrent, DestroyedStays, Inserts
  <2> QED
    BY <2>1, <2>2, <2>3 DEF Inv
<1> QED
  BY <1>1, <1>2

LEMMA Invariance == Spec => []Inv
BY InitInv, NextInv, PTL DEF Spec

\* Whatever requests overlap, the secrets and their versions keep their types: no write
\* of a state or of tags falls on a row that is not there.
THEOREM SpecTypeOK == Spec => []TypeOK
<1>1. Inv => TypeOK
  BY DEF Inv, RowTypes, ClientTypes, ClientOK, TypeOK
<1> QED
  BY <1>1, Invariance, PTL

\* A put of a value that no other write of its secret overlaps leaves its own version as
\* AWSCURRENT, alone, and the one before as AWSPREVIOUS, however many versions there are.
THEOREM SpecQuietPutMovesCurrent == Spec => QuietPutMovesCurrent
<1>1. Inv /\ [Next]_vars => \A c \in Clients : PutMovesCurrent(c)
  BY NextInv DEF Promised
<1>2. (\A c \in Clients : PutMovesCurrent(c)) =>
          \A c \in Clients, n \in Names :
              /\ Inserts(c) /\ req[c].n = n /\ quiet[c]
              /\ req[c].op = "CreateSecret" \/ req[c].stages = {}
              => /\ Labelled(n, "AWSCURRENT")' = {v \in Versions : version[v] # version'[v]}
                 /\ Labelled(n, "AWSPREVIOUS")' = {v \in DOMAIN read[c] : "AWSCURRENT" \in read[c][v]}
  BY DEF PutMovesCurrent
<1> QED
  BY <1>1, <1>2, Invariance, PTL DEF Spec, QuietPutMovesCurrent

\* No request that no other write of its secret overlaps, delete or restore, brings a
\* destroyed secret back.
THEOREM SpecQuietDestroyedStays == Spec => QuietDestroyedStays
<1>1. Inv /\ [Next]_vars =>
          \A c \in Clients, n \in Names :
              /\ pc[c] \in {"mark", "restore"} /\ pc'[c] = "idle" /\ req[c].n = n
              /\ quiet[c] /\ secret[n].state = "Destroyed"
              => secret'[n].state = "Destroyed"
  BY NextInv DEF Promised, DestroyedStays
<1> QED
  BY <1>1, Invariance, PTL DEF Spec, QuietDestroyedStays
=============================================================================

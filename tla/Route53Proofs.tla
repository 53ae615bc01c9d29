---------------------------- MODULE Route53Proofs ----------------------------
(***************************************************************************)
(* For any clients, zones and batches: no record set or tag outlives its   *)
(* zone, a batch that passed validation applies to its last change, and a  *)
(* zone's delete takes its default record sets alone, as long as no other  *)
(* request writes to the zone.                                             *)
(***************************************************************************)
EXTENDS Route53, SequenceTheorems, TLAPS

\* What a request carries.
LEMMA RequestShape ==
    ASSUME NEW r \in Requests
    PROVE  /\ r.op \in Ops
           /\ r.op = "CreateHostedZone" => r.name \in ZoneNames
           /\ r.op # "CreateHostedZone" => r.zone \in Zones
           /\ r.op = "ChangeResourceRecordSets" => r.batch \in Seq(Changes)
<1>1. \/ r \in [op: {"CreateHostedZone"} \cap Ops, name: ZoneNames]
      \/ r \in [op: {"DeleteHostedZone"} \cap Ops, zone: Zones]
      \/ r \in [op: {"ChangeResourceRecordSets"} \cap Ops, zone: Zones, batch: Batches]
      \/ r \in [op: {"ChangeTagsForResource"} \cap Ops, zone: Zones, add: BOOLEAN]
  BY DEF Requests
<1> QED
  BY <1>1, ConstantsAssumption

LEMMA NoneBelieved == DOMAIN << >> = {}
<1>1. << >> \in Seq({}) /\ Len(<< >>) = 0
  BY EmptySeq
<1>2. DOMAIN << >> = 1..Len(<< >>)
  BY <1>1, LenProperties
<1> QED
  BY <1>1, <1>2

LEMMA KeysAreDotted ==
    ASSUME NEW ch \in Changes
    PROVE  Key(ch) \in Keys /\ Key(ch).name.dot /\ Key(ch).type = ch.type
BY DEF Changes, Key, FQDN, Keys, Names
-----------------------------------------------------------------------------
(* What a batch leaves of a key. *)

\* Whether k is stored before change `to` of batch b, when `held` are the keys stored
\* before change `from`: the last change of k between them decides.
WillBe(b, from, to, k, held) ==
    \/ \E y \in from..(to - 1) :
          /\ Key(b[y]) = k /\ b[y].action # "DELETE"
          /\ \A z \in (y + 1)..(to - 1) : Key(b[z]) # k
    \/ k \in held /\ \A y \in from..(to - 1) : Key(b[y]) # k

\* Change x does what validation believes of it.
Fits(b, from, x, held) ==
    /\ b[x].action = "CREATE" => ~WillBe(b, from, x, Key(b[x]), held)
    /\ b[x].action = "DELETE" => WillBe(b, from, x, Key(b[x]), held)

LEMMA WillBeNow ==
    ASSUME NEW b, NEW from \in Nat, NEW k, NEW held
    PROVE  WillBe(b, from, from, k, held) <=> k \in held
<1>1. from..(from - 1) = {}
  OBVIOUS
<1> QED
  BY <1>1 DEF WillBe

\* Validation goes one change on.
LEMMA WillBeBehind ==
    ASSUME NEW b, NEW from \in Nat, NEW m \in Nat, from <= m, NEW k, NEW held
    PROVE  WillBe(b, from, m + 1, k, held) <=>
               IF Key(b[m]) = k THEN b[m].action # "DELETE" ELSE WillBe(b, from, m, k, held)
<1>1. (m + 1) - 1 = m /\ m \in from..m /\ \A y \in from..m : y = m \/ y \in from..(m - 1)
  OBVIOUS
<1>2. \A y \in from..(m - 1) : m \in (y + 1)..m /\ y \in from..m
  OBVIOUS
<1>3. CASE Key(b[m]) = k
  BY <1>1, <1>2, <1>3 DEF WillBe
<1>4. CASE Key(b[m]) # k
  <2>1. \A y \in from..(m - 1) : \A z \in (y + 1)..m : z = m \/ z \in (y + 1)..(m - 1)
    OBVIOUS
  <2>2. \A y \in from..(m - 1) :
            (\A z \in (y + 1)..m : Key(b[z]) # k) <=> (\A z \in (y + 1)..(m - 1) : Key(b[z]) # k)
    BY <2>1, <1>4
  <2> QED
    BY <1>1, <1>2, <1>4, <2>2 DEF WillBe
<1> QED
  BY <1>3, <1>4

\* The batch's application goes one change on.
LEMMA WillBeAhead ==
    ASSUME NEW b, NEW from \in Nat, NEW to \in Nat, from < to, NEW k, NEW held, NEW then,
           k \in then <=> IF Key(b[from]) = k THEN b[from].action # "DELETE" ELSE k \in held
    PROVE  WillBe(b, from, to, k, held) <=> WillBe(b, from + 1, to, k, then)
<1>1. /\ from \in from..(to - 1)
      /\ \A y \in from..(to - 1) : y = from \/ y \in (from + 1)..(to - 1)
      /\ \A y \in (from + 1)..(to - 1) : y \in from..(to - 1)
  OBVIOUS
<1>2. CASE Key(b[from]) = k
  BY <1>1, <1>2 DEF WillBe
<1>3. CASE Key(b[from]) # k
  BY <1>1, <1>3 DEF WillBe
<1> QED
  BY <1>2, <1>3
-----------------------------------------------------------------------------
(* The inductive invariant. *)

RowTypes ==
    /\ zone \in [Zones -> ZoneNames \cup {None}]
    /\ sets \subseteq Zones \X Keys
    /\ changes \subseteq Zones /\ tagged \subseteq Zones

DbInv == RowTypes /\ NothingOutlivesItsZone /\ StoredOncePerName

ClientTypes ==
    /\ pc \in [Clients -> Places]
    /\ req \in [Clients -> Requests \cup {None}]
    /\ on \in [Clients -> Zones \cup {None}]
    /\ name \in [Clients -> ZoneNames \cup {None}]
    /\ i \in [Clients -> Nat \ {0}]
    /\ DOMAIN seen = Clients /\ \A c \in Clients : DOMAIN seen[c] \subseteq Keys
    /\ quiet \in [Clients -> BOOLEAN]
    /\ ans \in [Clients -> Answers]

Held(c) == {k \in Keys : <<on[c], k>> \in sets}

\* The changes before the current one fit the record sets, and what validation
\* believes is what they leave.
ValidatedOK(c) ==
    LET b == req[c].batch IN
    /\ \A x \in 1..(i[c] - 1) : Fits(b, 1, x, Held(c))
    /\ \A k \in Keys : Believed(c, k) <=> WillBe(b, 1, i[c], k, Held(c))

\* The current change and those after it fit the record sets as they are.
RestFits(c) ==
    LET b == req[c].batch IN
    \A x \in i[c]..Len(b) : Fits(b, i[c], x, Held(c))

\* What a request that no other has written beside knows of its zone.
QuietOK(c) ==
    /\ pc[c] \in {"count", "validate", "apply", "put"} => Exists(on[c])
    /\ pc[c] = "count" => name[c] = zone[on[c]]
    /\ pc[c] = "drop" => \A s \in sets : s[1] = on[c] => IsDefault(s[2], zone[on[c]])
    /\ pc[c] = "validate" => ValidatedOK(c)
    /\ pc[c] \in {"apply", "put"} => RestFits(c)

ClientOK(c) ==
    /\ pc[c] \in {"idle", "start"} => i[c] = 1 /\ seen[c] = << >>
    /\ pc[c] # "idle" => req[c] \in Requests
    /\ pc[c] = "start" /\ req[c].op # "CreateHostedZone" => on[c] \in Zones
    /\ pc[c] \notin {"idle", "start"} => on[c] \in Zones
    /\ pc[c] \in {"validate", "apply", "put"} =>
          req[c].op = "ChangeResourceRecordSets" /\ i[c] \in 1..Len(req[c].batch)
    /\ pc[c] = "put" => Current(c).action # "DELETE"
    /\ quiet[c] => QuietOK(c)

Inv == DbInv /\ ClientTypes /\ \A c \in Clients : ClientOK(c)
-----------------------------------------------------------------------------
(* What a step of one request leaves the others, and what is promised of it. *)

Untouched(z) ==
    /\ zone'[z] = zone[z]
    /\ \A s \in sets \cup sets' : s[1] = z => (s \in sets <=> s \in sets')

\* Only a request of another zone leaves one quiet.
Leaves(c) ==
    \A d \in Clients \ {c} :
        /\ pc'[d] = pc[d] /\ req'[d] = req[d] /\ on'[d] = on[d] /\ name'[d] = name[d]
        /\ i'[d] = i[d] /\ seen'[d] = seen[d]
        /\ quiet'[d] => quiet[d] /\ (on[d] \in Zones => Untouched(on[d]))

BatchApplies(c) ==
    pc[c] \in {"apply", "put"} /\ quiet[c] =>
        /\ pc'[c] # "idle"
        /\ pc[c] = "put" /\ pc'[c] # "put" /\ Current(c).action = "CREATE" =>
              <<on[c], Key(Current(c))>> \notin sets

DeleteSparesRecords(c) ==
    pc[c] = "drop" /\ pc'[c] = "change" /\ quiet[c] =>
        \A s \in sets : s[1] = on[c] => IsDefault(s[2], zone[on[c]])

GoodStep(c) == Inv' /\ \A d \in Clients : BatchApplies(d) /\ DeleteSparesRecords(d)

\* The changes of a batch under way.
LEMMA BatchShape ==
    ASSUME Inv, NEW c \in Clients, pc[c] \in {"validate", "apply", "put"}
    PROVE  /\ req[c].batch \in Seq(Changes) /\ i[c] \in 1..Len(req[c].batch) /\ on[c] \in Zones
           /\ \A x \in 1..Len(req[c].batch) : req[c].batch[x] \in Changes /\ Key(req[c].batch[x]) \in Keys
<1>1. req[c] \in Requests /\ req[c].op = "ChangeResourceRecordSets" /\ i[c] \in 1..Len(req[c].batch)
      /\ on[c] \in Zones
  BY DEF Inv, ClientOK
<1>2. req[c].batch \in Seq(Changes)
  BY <1>1, RequestShape
<1> QED
  BY <1>1, <1>2, KeysAreDotted

\* What a quiet request knows depends on its own place and its zone alone.
LEMMA QuietStays ==
    ASSUME Inv, NEW d \in Clients, QuietOK(d), Untouched(on[d]),
           pc'[d] = pc[d], req'[d] = req[d], on'[d] = on[d], name'[d] = name[d], i'[d] = i[d], seen'[d] = seen[d]
    PROVE  QuietOK(d)'
<1>1. Held(d)' = Held(d)
  <2> SUFFICES ASSUME NEW k \in Keys PROVE <<on[d], k>> \in sets' <=> <<on[d], k>> \in sets
    BY DEF Held
  <2> DEFINE s == <<on[d], k>>
  <2>1. s[1] = on[d]
    OBVIOUS
  <2> HIDE DEF s
  <2>2. s \in sets' <=> s \in sets
    BY <2>1 DEF Untouched
  <2> QED
    BY <2>2 DEF s
<1>2. pc[d] \in {"count", "validate", "apply", "put"} => Exists(on[d])'
  BY DEF QuietOK, Exists, Untouched
<1>3. pc[d] = "count" => name'[d] = zone'[on[d]]
  BY DEF QuietOK, Untouched
<1>4. pc[d] = "drop" => \A s \in sets' : s[1] = on[d] => IsDefault(s[2], zone'[on[d]])
  BY DEF QuietOK, Untouched
<1>5. ASSUME pc[d] = "validate" PROVE ValidatedOK(d)'
  <2>1. ValidatedOK(d)
    BY <1>5 DEF QuietOK
  <2>2. \A k \in Keys : <<on[d], k>> \in sets' <=> <<on[d], k>> \in sets
    BY <1>1 DEF Held
  <2>3. \A k \in Keys : Believed(d, k)' <=> Believed(d, k)
    BY <2>2 DEF Believed
  <2> QED
    BY <1>1, <2>1, <2>3 DEF ValidatedOK, Fits
<1>6. ASSUME pc[d] \in {"apply", "put"} PROVE RestFits(d)'
  <2>1. RestFits(d)
    BY <1>6 DEF QuietOK
  <2> QED
    BY <1>1, <2>1 DEF RestFits
<1> QED
  BY <1>2, <1>3, <1>4, <1>5, <1>6 DEF QuietOK

LEMMA OthersAreOK ==
    ASSUME Inv, NEW c \in Clients, Leaves(c), NEW d \in Clients \ {c}
    PROVE  ClientOK(d)'
<1>1. /\ pc'[d] = pc[d] /\ req'[d] = req[d] /\ on'[d] = on[d] /\ name'[d] = name[d]
      /\ i'[d] = i[d] /\ seen'[d] = seen[d]
      /\ quiet'[d] => quiet[d] /\ (on[d] \in Zones => Untouched(on[d]))
  BY DEF Leaves
<1>2. ClientOK(d)
  BY DEF Inv
<1>3. quiet'[d] => QuietOK(d)'
  <2>1. CASE pc[d] \in {"idle", "start"}
    BY <1>1, <2>1 DEF QuietOK
  <2>2. CASE pc[d] \notin {"idle", "start"}
    BY <1>1, <1>2, <2>2, QuietStays DEF ClientOK
  <2> QED
    BY <2>1, <2>2
<1> QED
  BY <1>1, <1>2, <1>3 DEF ClientOK, Current

LEMMA StepIsGood ==
    ASSUME Inv, NEW c \in Clients, Leaves(c), DbInv', ClientTypes', ClientOK(c)',
           BatchApplies(c), DeleteSparesRecords(c)
    PROVE  GoodStep(c)
<1>1. \A d \in Clients \ {c} : ClientOK(d)'
  BY OthersAreOK
<1>2. \A d \in Clients \ {c} : BatchApplies(d) /\ DeleteSparesRecords(d)
  BY DEF Leaves, BatchApplies, DeleteSparesRecords
<1> QED
  BY <1>1, <1>2 DEF GoodStep, Inv
-----------------------------------------------------------------------------
(* The ways a request moves. *)

QuietAfter(c) ==
    /\ quiet' \in [Clients -> BOOLEAN] /\ quiet'[c] = quiet[c]
    /\ \A d \in Clients \ {c} : quiet'[d] => quiet[d] /\ (on[d] \in Zones => Untouched(on[d]))

LEMMA ReadsAreGood ==
    ASSUME Inv, NEW c \in Clients, Reads
    PROVE  DbInv' /\ QuietAfter(c)
<1>1. UNCHANGED <<zone, sets, changes, tagged, quiet>>
  BY DEF Reads, db
<1>2. DbInv'
  BY <1>1 DEF Inv, DbInv, RowTypes, NothingOutlivesItsZone, StoredOncePerName, Exists
<1> QED
  BY <1>1, <1>2 DEF QuietAfter, Untouched, Inv, ClientTypes

LEMMA WritesAreGood ==
    ASSUME Inv, NEW c \in Clients, NEW z \in Zones, Writes(c, z), \A y \in Zones \ {z} : Untouched(y)
    PROVE  QuietAfter(c)
BY DEF Writes, QuietAfter, Inv, ClientTypes

LEMMA AnswerIsGood ==
    ASSUME Inv, NEW c \in Clients, NEW a \in Answers, Answer(c, a), DbInv', QuietAfter(c), BatchApplies(c)
    PROVE  GoodStep(c)
<1>1. /\ pc' = [pc EXCEPT ![c] = "idle"] /\ req' = [req EXCEPT ![c] = None] /\ on' = [on EXCEPT ![c] = None]
      /\ name' = [name EXCEPT ![c] = None] /\ i' = [i EXCEPT ![c] = 1] /\ seen' = [seen EXCEPT ![c] = << >>]
      /\ ans' = [ans EXCEPT ![c] = a]
  BY DEF Answer
<1>2. Leaves(c)
  BY <1>1 DEF Leaves, QuietAfter, Inv, ClientTypes
<1>3. ClientTypes'
  <2>1. DOMAIN << >> \subseteq Keys
    BY NoneBelieved
  <2>2. DOMAIN seen' = Clients /\ \A d \in Clients : DOMAIN seen'[d] \subseteq Keys
    BY <1>1, <2>1 DEF Inv, ClientTypes
  <2>3. quiet' \in [Clients -> BOOLEAN]
    BY DEF QuietAfter
  <2>4. "idle" \in Places /\ 1 \in Nat \ {0}
    BY DEF Places
  <2>5. pc' \in [Clients -> Places] /\ i' \in [Clients -> Nat \ {0}] /\ ans' \in [Clients -> Answers]
    BY <1>1, <2>4 DEF Inv, ClientTypes
  <2>6. req' \in [Clients -> Requests \cup {None}] /\ on' \in [Clients -> Zones \cup {None}]
        /\ name' \in [Clients -> ZoneNames \cup {None}]
    BY <1>1 DEF Inv, ClientTypes
  <2> QED
    BY <2>2, <2>3, <2>5, <2>6 DEF ClientTypes
<1>4. pc'[c] = "idle" /\ i'[c] = 1 /\ seen'[c] = << >>
  BY <1>1 DEF Inv, ClientTypes
<1>5. ClientOK(c)' /\ DeleteSparesRecords(c)
  BY <1>4 DEF ClientOK, QuietOK, DeleteSparesRecords
<1> QED
  BY <1>2, <1>3, <1>5, StepIsGood

\* A request goes on at another place, with the zone's name or not, at the same change.
LEMMA GotoMoves ==
    ASSUME Inv, NEW c \in Clients, NEW place \in Places, NEW n \in ZoneNames \cup {None},
           pc' = [pc EXCEPT ![c] = place], name' = [name EXCEPT ![c] = n],
           UNCHANGED <<req, on, i, seen, ans>>, QuietAfter(c)
    PROVE  /\ Leaves(c) /\ ClientTypes'
           /\ pc'[c] = place /\ name'[c] = n /\ req'[c] = req[c] /\ on'[c] = on[c] /\ i'[c] = i[c]
           /\ seen'[c] = seen[c] /\ quiet'[c] = quiet[c]
BY DEF Leaves, QuietAfter, Inv, ClientTypes

LEMMA GetIsGood ==
    ASSUME Inv, NEW c \in Clients, NEW place \in Places,  NEW o, NEW next \in Places,
           next \notin {"idle", "start", "drop", "apply", "put"},
           GetHostedZone(c, place, o, next),
           place \notin {"idle", "apply", "put", "drop"},
           o # "CreateHostedZone" \/ place # "start",
           next = "validate" => o = "ChangeResourceRecordSets" /\ place = "start" /\ Len(req[c].batch) \in Nat \ {0}
    PROVE  GoodStep(c)
<1>1. /\ pc[c] = place /\ req[c].op = o /\ Reads /\ DbInv' /\ QuietAfter(c)
      /\ req[c] \in Requests /\ on[c] \in Zones /\ ClientOK(c)
  BY ReadsAreGood DEF GetHostedZone, At, Inv, ClientOK
<1>2. BatchApplies(c)
  BY <1>1 DEF BatchApplies
<1>3. CASE ~Exists(on[c]) /\ Answer(c, "NotFound")
  BY <1>1, <1>2, <1>3, AnswerIsGood DEF Answers
<1>4. CASE /\ Exists(on[c])
           /\ pc' = [pc EXCEPT ![c] = next]
           /\ name' = [name EXCEPT ![c] = zone[on[c]]]
           /\ UNCHANGED <<req, on, i, seen, ans>>
  <2>1. zone[on[c]] \in ZoneNames /\ next \in Places
    BY <1>1, <1>4 DEF Inv, DbInv, RowTypes, Exists, Places
  <2>2. /\ Leaves(c) /\ ClientTypes'
        /\ pc'[c] = next /\ name'[c] = zone[on[c]] /\ req'[c] = req[c] /\ on'[c] = on[c] /\ i'[c] = i[c]
        /\ seen'[c] = seen[c] /\ quiet'[c] = quiet[c]
    BY <1>1, <1>4, <2>1, GotoMoves
  <2>3. UNCHANGED <<zone, sets>>
    BY <1>1 DEF Reads, db
  <2>4. ASSUME next = "validate" PROVE i[c] = 1 /\ i[c] \in 1..Len(req[c].batch) /\ ValidatedOK(c)'
    <3>1. i'[c] = 1 /\ i[c] = 1
      BY <1>1, <2>2, <2>4 DEF ClientOK
    <3>2. Len(req[c].batch) \in Nat \ {0}
      BY <2>4
    <3>3. DOMAIN seen'[c] = {}
      <4>1. seen[c] = << >>
        BY <1>1, <2>4 DEF ClientOK
      <4> QED
        BY <2>2, <4>1, NoneBelieved
    <3>4. \A k \in Keys : Believed(c, k)' <=> k \in Held(c)'
      BY <3>3 DEF Believed, Held
    <3>5. \A k : WillBe(req'[c].batch, 1, 1, k, Held(c)') <=> k \in Held(c)'
      BY WillBeNow
    <3>6. 1..(1 - 1) = {}
      OBVIOUS
    <3>7. ValidatedOK(c)'
      BY <3>1, <3>4, <3>5, <3>6 DEF ValidatedOK
    <3> QED
      BY <3>1, <3>2, <3>7
  <2>5. QuietOK(c)'
    BY <1>1, <1>4, <2>2, <2>3, <2>4 DEF QuietOK, Exists
  <2>6. ClientOK(c)'
    BY <1>1, <2>2, <2>4, <2>5 DEF ClientOK
  <2> QED
    BY <1>1, <1>2, <2>2, <2>6, StepIsGood DEF DeleteSparesRecords
<1> QED
  BY <1>3, <1>4 DEF GetHostedZone

LEMMA SendIsGood ==
    ASSUME Inv, NEW c \in Clients, NEW r \in Requests, Send(c, r)
    PROVE  GoodStep(c)
<1>1. /\ pc[c] = "idle" /\ i[c] = 1 /\ seen[c] = << >>
      /\ pc' = [pc EXCEPT ![c] = "start"]
      /\ req' = [req EXCEPT ![c] = r]
      /\ on' = [on EXCEPT ![c] = IF r.op = "CreateHostedZone" THEN None ELSE r.zone]
      /\ quiet' = [quiet EXCEPT ![c] = TRUE]
      /\ ans' = [ans EXCEPT ![c] = "none"]
      /\ UNCHANGED <<zone, sets, changes, tagged, name, i, seen>>
  BY DEF Send, db, Inv, ClientOK
<1>2. r.op # "CreateHostedZone" => r.zone \in Zones
  BY RequestShape
<1>3. DbInv'
  BY <1>1 DEF Inv, DbInv, RowTypes, NothingOutlivesItsZone, StoredOncePerName, Exists
<1>4. Leaves(c)
  BY <1>1 DEF Leaves, Untouched, Inv, ClientTypes
<1>5. ClientTypes'
  <2>1. "start" \in Places /\ "none" \in Answers
    BY DEF Places, Answers
  <2> QED
    BY <1>1, <1>2, <2>1 DEF Inv, ClientTypes
<1>6. /\ pc'[c] = "start" /\ req'[c] = r /\ i'[c] = 1 /\ seen'[c] = << >>
      /\ on'[c] = IF r.op = "CreateHostedZone" THEN None ELSE r.zone
  BY <1>1 DEF Inv, ClientTypes
<1>7. ClientOK(c)'
  BY <1>2, <1>6 DEF ClientOK, QuietOK
<1> QED
  BY <1>1, <1>3, <1>4, <1>5, <1>7, StepIsGood DEF BatchApplies, DeleteSparesRecords

LEMMA RecordChangeIsGood ==
    ASSUME Inv, NEW c \in Clients, RecordChange(c)
    PROVE  GoodStep(c)
<1>1. /\ pc[c] = "change" /\ on[c] \in Zones /\ Answer(c, "ok") /\ changes' = changes \cup {on[c]}
      /\ UNCHANGED <<zone, sets, tagged, quiet>>
  BY DEF RecordChange, Inv, ClientOK
<1>2. DbInv'
  BY <1>1 DEF Inv, DbInv, RowTypes, NothingOutlivesItsZone, StoredOncePerName, Exists
<1>3. QuietAfter(c)
  BY <1>1 DEF QuietAfter, Untouched, Inv, ClientTypes
<1> QED
  BY <1>1, <1>2, <1>3, AnswerIsGood DEF Answers, BatchApplies

LEMMA ChangeTagsIsGood ==
    ASSUME Inv, NEW c \in Clients, ChangeTagsForResource(c)
    PROVE  GoodStep(c)
<1>1. /\ pc[c] = "start" /\ on[c] \in Zones /\ UNCHANGED <<zone, sets, changes, quiet>>
      /\ \/ Answer(c, "ok") /\ Exists(on[c]) /\ tagged' \in {tagged \cup {on[c]}, tagged \ {on[c]}}
         \/ Answer(c, "NotFound") /\ UNCHANGED tagged
  BY DEF ChangeTagsForResource, At, Inv, ClientOK
<1>2. DbInv'
  BY <1>1 DEF Inv, DbInv, RowTypes, NothingOutlivesItsZone, StoredOncePerName, Exists
<1>3. QuietAfter(c)
  BY <1>1 DEF QuietAfter, Untouched, Inv, ClientTypes
<1> QED
  BY <1>1, <1>2, <1>3, AnswerIsGood DEF Answers, BatchApplies
-----------------------------------------------------------------------------
(* CreateHostedZone and DeleteHostedZone. *)

LEMMA InsertZoneIsGood ==
    ASSUME Inv, NEW c \in Clients, InsertZone(c)
    PROVE  GoodStep(c)
<1>1. PICK z \in Zones :
          IF Exists(z)
          THEN Answer(c, "Exists") /\ Reads
          ELSE /\ zone' = [zone EXCEPT ![z] = req[c].name]
               /\ on' = [on EXCEPT ![c] = z]
               /\ pc' = [pc EXCEPT ![c] = "ns"]
               /\ Writes(c, z)
               /\ UNCHANGED <<sets, changes, tagged, req, name, i, seen, ans>>
  BY DEF InsertZone
<1>2. pc[c] = "start" /\ req[c] \in Requests /\ req[c].op = "CreateHostedZone" /\ req[c].name \in ZoneNames
  BY RequestShape DEF InsertZone, At, Inv, ClientOK
<1>3. BatchApplies(c)
  BY <1>2 DEF BatchApplies
<1>4. CASE Exists(z)
  BY <1>1, <1>3, <1>4, AnswerIsGood, ReadsAreGood DEF Answers
<1>5. CASE ~Exists(z)
  <2>1. /\ zone' = [zone EXCEPT ![z] = req[c].name]
        /\ on' = [on EXCEPT ![c] = z]
        /\ pc' = [pc EXCEPT ![c] = "ns"]
        /\ Writes(c, z)
        /\ UNCHANGED <<sets, changes, tagged, req, name, i, seen, ans>>
    BY <1>1, <1>5
  <2>2. req[c].name # None /\ req[c].name \in ZoneNames
    BY <1>2, ConstantsAssumption
  <2>3. zone' \in [Zones -> ZoneNames \cup {None}] /\ \A y \in Zones : Exists(y) => Exists(y)'
    BY <2>1, <2>2 DEF Inv, DbInv, RowTypes, Exists
  <2>4. DbInv'
    <3>1. RowTypes'
      BY <2>1, <2>3 DEF Inv, DbInv, RowTypes
    <3>2. NothingOutlivesItsZone'
      <4>1. \A s \in sets : s[1] \in Zones /\ Exists(s[1])
        BY DEF Inv, DbInv, RowTypes, NothingOutlivesItsZone
      <4>2. \A y \in tagged : y \in Zones /\ Exists(y)
        BY DEF Inv, DbInv, RowTypes, NothingOutlivesItsZone
      <4> QED
        BY <4>1, <4>2, <2>1, <2>3 DEF NothingOutlivesItsZone
    <3> QED
      BY <2>1, <3>1, <3>2 DEF Inv, DbInv, StoredOncePerName
  <2>5. \A y \in Zones \ {z} : Untouched(y)
    BY <2>1 DEF Untouched, Inv, DbInv, RowTypes
  <2>6. QuietAfter(c)
    BY <2>1, <2>5, WritesAreGood
  <2>7. Leaves(c)
    BY <2>1, <2>6 DEF Leaves, QuietAfter, Inv, ClientTypes
  <2>8. ClientTypes'
    <3>1. "ns" \in Places /\ quiet' \in [Clients -> BOOLEAN]
      BY <2>6 DEF Places, QuietAfter
    <3> QED
      BY <2>1, <3>1 DEF Inv, ClientTypes
  <2>9. pc'[c] = "ns" /\ on'[c] = z /\ req'[c] = req[c]
    BY <2>1 DEF Inv, ClientTypes
  <2>10. ClientOK(c)'
    BY <1>2, <2>9 DEF ClientOK, QuietOK
  <2> QED
    BY <1>2, <1>3, <2>4, <2>7, <2>8, <2>10, StepIsGood DEF DeleteSparesRecords
<1> QED
  BY <1>4, <1>5

LEMMA PutDefaultIsGood ==
    ASSUME Inv, NEW c \in Clients, NEW place \in Places, NEW type \in {"NS", "SOA"}, NEW next \in Places,
           place \notin {"idle", "start", "drop", "apply", "put"},
           next \notin {"idle", "start", "count", "drop", "validate", "apply", "put"},
           PutDefault(c, place, type, next)
    PROVE  GoodStep(c)
<1>1. /\ pc[c] = place /\ on[c] \in Zones /\ req[c] \in Requests /\ req[c].name \in ZoneNames
      /\ i[c] \in Nat /\ ClientOK(c)
  BY RequestShape DEF PutDefault, At, Inv, ClientOK, ClientTypes
<1>2. BatchApplies(c) /\ DeleteSparesRecords(c)
  BY <1>1 DEF BatchApplies, DeleteSparesRecords
<1>3. CASE ~Exists(on[c])
  BY <1>2, <1>3, AnswerIsGood, ReadsAreGood DEF PutDefault, Answers
<1>4. CASE Exists(on[c])
  <2> DEFINE k == [name |-> req[c].name, type |-> type]
             s == <<on[c], k>>
  <2>1. sets' = sets \cup {s} /\ Goto(c, next) /\ Writes(c, on[c]) /\ UNCHANGED <<zone, changes, tagged>>
    BY <1>4 DEF PutDefault
  <2>2. k \in Keys /\ k.name.label = "apex" /\ k.type \in {"NS", "SOA"}
    BY <1>1, ConstantsAssumption DEF Keys, Types
  <2> HIDE DEF k
  <2>3. s \in Zones \X Keys /\ s[1] = on[c] /\ s[2] = k
    BY <1>1, <2>2
  <2> HIDE DEF s
  <2>4. DbInv'
    BY <1>4, <2>1, <2>2, <2>3 DEF Inv, DbInv, RowTypes, NothingOutlivesItsZone, StoredOncePerName, Exists
  <2>5. QuietAfter(c)
    <3>1. \A y \in Zones \ {on[c]} : Untouched(y)
      BY <2>1, <2>3 DEF Untouched
    <3> QED
      BY <1>1, <2>1, <3>1, WritesAreGood
  <2>6. name' = [name EXCEPT ![c] = name[c]] /\ name[c] \in ZoneNames \cup {None}
    BY <2>1 DEF Goto, Inv, ClientTypes
  <2>7. /\ Leaves(c) /\ ClientTypes'
        /\ pc'[c] = next /\ req'[c] = req[c] /\ on'[c] = on[c]
    BY <2>1, <2>5, <2>6, GotoMoves DEF Goto
  <2>8. ClientOK(c)'
    BY <1>1, <2>7 DEF ClientOK, QuietOK
  <2> QED
    BY <1>2, <2>4, <2>7, <2>8, StepIsGood
<1> QED
  BY <1>3, <1>4

LEMMA CountRecordsIsGood ==
    ASSUME Inv, NEW c \in Clients, CountRecords(c)
    PROVE  GoodStep(c)
<1>1. /\ pc[c] = "count" /\ on[c] \in Zones /\ req[c] \in Requests /\ ClientOK(c)
      /\ Reads /\ DbInv' /\ QuietAfter(c)
  BY ReadsAreGood DEF CountRecords, At, Inv, ClientOK
<1>2. BatchApplies(c)
  BY <1>1 DEF BatchApplies
<1>3. CASE Answer(c, "NotEmpty")
  BY <1>1, <1>2, <1>3, AnswerIsGood DEF Answers
<1>4. CASE Goto(c, "drop") /\ \A s \in sets : s[1] = on[c] => IsDefault(s[2], name[c])
  <2>1. name' = [name EXCEPT ![c] = name[c]] /\ name[c] \in ZoneNames \cup {None} /\ "drop" \in Places
    BY <1>4 DEF Goto, Inv, ClientTypes, Places
  <2>2. /\ Leaves(c) /\ ClientTypes'
        /\ pc'[c] = "drop" /\ req'[c] = req[c] /\ on'[c] = on[c] /\ quiet'[c] = quiet[c]
    BY <1>1, <1>4, <2>1, GotoMoves DEF Goto
  <2>3. quiet[c] => name[c] = zone[on[c]]
    BY <1>1 DEF ClientOK, QuietOK
  <2>4. UNCHANGED <<zone, sets>>
    BY <1>1 DEF Reads, db
  <2>5. ClientOK(c)'
    BY <1>1, <1>4, <2>2, <2>3, <2>4 DEF ClientOK, QuietOK
  <2> QED
    BY <1>1, <1>2, <2>2, <2>5, StepIsGood DEF DeleteSparesRecords
<1> QED
  BY <1>3, <1>4 DEF CountRecords

LEMMA DropZoneIsGood ==
    ASSUME Inv, NEW c \in Clients, DropZone(c)
    PROVE  GoodStep(c)
<1>1. pc[c] = "drop" /\ on[c] \in Zones /\ req[c] \in Requests /\ ClientOK(c)
  BY DEF DropZone, At, Inv, ClientOK
<1>2. BatchApplies(c) /\ DeleteSparesRecords(c)
  BY <1>1 DEF BatchApplies, DeleteSparesRecords, ClientOK, QuietOK
<1>3. CASE ~Exists(on[c])
  BY <1>2, <1>3, AnswerIsGood, ReadsAreGood DEF DropZone, Answers
<1>4. CASE Exists(on[c])
  <2>1. /\ zone' = [zone EXCEPT ![on[c]] = None]
        /\ sets' = {s \in sets : s[1] # on[c]}
        /\ tagged' = tagged \ {on[c]}
        /\ Goto(c, "change") /\ Writes(c, on[c]) /\ UNCHANGED changes
    BY <1>4 DEF DropZone
  <2>2. \A y \in Zones : zone'[y] = IF y = on[c] THEN None ELSE zone[y]
    BY <2>1 DEF Inv, DbInv, RowTypes
  <2>3. RowTypes'
    BY <2>1 DEF Inv, DbInv, RowTypes
  <2>4. NothingOutlivesItsZone'
    <3>1. \A s \in sets' : s[1] \in Zones \ {on[c]} /\ Exists(s[1])
      BY <2>1 DEF Inv, DbInv, RowTypes, NothingOutlivesItsZone
    <3>2. \A y \in tagged' : y \in Zones \ {on[c]} /\ Exists(y)
      BY <2>1 DEF Inv, DbInv, RowTypes, NothingOutlivesItsZone
    <3> QED
      BY <2>2, <3>1, <3>2 DEF NothingOutlivesItsZone, Exists
  <2>5. StoredOncePerName'
    BY <2>1 DEF Inv, DbInv, StoredOncePerName
  <2>6. QuietAfter(c)
    <3>1. \A y \in Zones \ {on[c]} : Untouched(y)
      BY <2>1, <2>2 DEF Untouched
    <3> QED
      BY <1>1, <2>1, <3>1, WritesAreGood
  <2>7. name' = [name EXCEPT ![c] = name[c]] /\ name[c] \in ZoneNames \cup {None} /\ "change" \in Places
    BY <2>1 DEF Goto, Inv, ClientTypes, Places
  <2>8. Leaves(c) /\ ClientTypes' /\ pc'[c] = "change" /\ req'[c] = req[c] /\ on'[c] = on[c]
    BY <2>1, <2>6, <2>7, GotoMoves DEF Goto
  <2>9. ClientOK(c)'
    BY <1>1, <2>8 DEF ClientOK, QuietOK
  <2> QED
    BY <1>2, <2>3, <2>4, <2>5, <2>8, <2>9, StepIsGood DEF DbInv
<1> QED
  BY <1>3, <1>4
-----------------------------------------------------------------------------
(* ChangeResourceRecordSets. *)

\* A batch goes on to its next change, or from its last to the next phase.
LEMMA AdvanceMoves ==
    ASSUME Inv, NEW c \in Clients, pc[c] \in {"validate", "apply", "put"},
           NEW place \in Places, NEW next \in Places, Advance(c, place, next),
           NEW f, DOMAIN f \subseteq Keys, QuietAfter(c),
           DOMAIN seen' = Clients, seen'[c] = f, \A d \in Clients \ {c} : seen'[d] = seen[d]
    PROVE  /\ Leaves(c) /\ ClientTypes'
           /\ req'[c] = req[c] /\ on'[c] = on[c] /\ name'[c] = name[c] /\ quiet'[c] = quiet[c] /\ seen'[c] = f
           /\ \/ i[c] < Len(req[c].batch) /\ i'[c] = i[c] + 1 /\ pc'[c] = place
              \/ i[c] = Len(req[c].batch) /\ i'[c] = 1 /\ pc'[c] = next
<1>1. i[c] \in 1..Len(req[c].batch) /\ Len(req[c].batch) \in Nat
  BY BatchShape, LenProperties
<1>2. /\ UNCHANGED <<req, on, name, ans>>
      /\ \/ i[c] < Len(req[c].batch) /\ i' = [i EXCEPT ![c] = i[c] + 1] /\ pc' = [pc EXCEPT ![c] = place]
         \/ i[c] = Len(req[c].batch) /\ i' = [i EXCEPT ![c] = 1] /\ pc' = [pc EXCEPT ![c] = next]
  BY <1>1 DEF Advance
<1>3. Leaves(c)
  BY <1>2 DEF Leaves, QuietAfter, Inv, ClientTypes
<1>4. ClientTypes'
  <2>1. i[c] + 1 \in Nat \ {0} /\ 1 \in Nat \ {0} /\ i[c] \in Nat
    BY <1>1
  <2>2. i' \in [Clients -> Nat \ {0}] /\ pc' \in [Clients -> Places]
    <3>1. i \in [Clients -> Nat \ {0}] /\ pc \in [Clients -> Places]
      BY DEF Inv, ClientTypes
    <3>2. CASE i' = [i EXCEPT ![c] = i[c] + 1] /\ pc' = [pc EXCEPT ![c] = place]
      BY <2>1, <3>1, <3>2
    <3>3. CASE i' = [i EXCEPT ![c] = 1] /\ pc' = [pc EXCEPT ![c] = next]
      BY <2>1, <3>1, <3>3
    <3> QED
      BY <1>2, <3>2, <3>3
  <2>3. DOMAIN seen' = Clients /\ \A d \in Clients : DOMAIN seen'[d] \subseteq Keys
    BY DEF Inv, ClientTypes
  <2> QED
    BY <1>2, <2>2, <2>3 DEF Inv, ClientTypes, QuietAfter
<1> QED
  BY <1>2, <1>3, <1>4 DEF Inv, ClientTypes, QuietAfter

LEMMA ValidateIsGood ==
    ASSUME Inv, NEW c \in Clients, Validate(c)
    PROVE  GoodStep(c)
<1> DEFINE b == req[c].batch
           ch == Current(c)
           k == Key(ch)
<1>1. /\ pc[c] = "validate" /\ ClientOK(c) /\ Reads /\ DbInv' /\ QuietAfter(c)
      /\ req[c] \in Requests /\ req[c].op = "ChangeResourceRecordSets"
  BY ReadsAreGood DEF Validate, At, Inv, ClientOK
<1>2. /\ i[c] \in 1..Len(b) /\ Len(b) \in Nat /\ on[c] \in Zones
      /\ ch = b[i[c]] /\ ch \in Changes /\ k \in Keys
      /\ \A x \in 1..Len(b) : b[x] \in Changes /\ Key(b[x]) \in Keys
  BY <1>1, BatchShape, LenProperties DEF Current
<1>3. BatchApplies(c)
  BY <1>1 DEF BatchApplies
<1>4. CASE Answer(c, "InvalidChangeBatch")
  BY <1>1, <1>3, <1>4, AnswerIsGood DEF Answers
<1>5. CASE /\ ~Refused(c, ch)
           /\ seen' = [seen EXCEPT ![c] =
                 [q \in DOMAIN @ \cup {k} |-> IF q = k THEN ch.action # "DELETE" ELSE @[q]]]
           /\ Advance(c, "validate", "apply")
  <2> DEFINE f == [q \in DOMAIN seen[c] \cup {k} |-> IF q = k THEN ch.action # "DELETE" ELSE seen[c][q]]
  <2>1. DOMAIN seen' = Clients /\ seen'[c] = f /\ \A d \in Clients \ {c} : seen'[d] = seen[d]
    BY <1>5 DEF Inv, ClientTypes
  <2>2. DOMAIN f \subseteq Keys
    BY <1>2 DEF Inv, ClientTypes
  <2>3. /\ "validate" \in Places /\ "apply" \in Places
    BY DEF Places
  <2>4. \A q : IF q \in DOMAIN f THEN f[q] <=> (IF q = k THEN ch.action # "DELETE" ELSE seen[c][q])
               ELSE q # k /\ q \notin DOMAIN seen[c]
    OBVIOUS
  <2>5. DOMAIN f = DOMAIN seen[c] \cup {k}
    OBVIOUS
  <2> HIDE DEF f
  <2>6. /\ Leaves(c) /\ ClientTypes'
        /\ req'[c] = req[c] /\ on'[c] = on[c] /\ quiet'[c] = quiet[c] /\ seen'[c] = f
        /\ \/ i[c] < Len(b) /\ i'[c] = i[c] + 1 /\ pc'[c] = "validate"
           \/ i[c] = Len(b) /\ i'[c] = 1 /\ pc'[c] = "apply"
    <3>1. pc[c] \in {"validate", "apply", "put"} /\ Advance(c, "validate", "apply") /\ QuietAfter(c)
      BY <1>1, <1>5
    <3> HIDE DEF b, ch, k
    <3>2. /\ Leaves(c) /\ ClientTypes'
          /\ req'[c] = req[c] /\ on'[c] = on[c] /\ quiet'[c] = quiet[c] /\ seen'[c] = f
          /\ \/ i[c] < Len(req[c].batch) /\ i'[c] = i[c] + 1 /\ pc'[c] = "validate"
             \/ i[c] = Len(req[c].batch) /\ i'[c] = 1 /\ pc'[c] = "apply"
      BY <2>1, <2>2, <2>3, <3>1, AdvanceMoves
    <3> QED
      BY <3>2 DEF b
  <2>7. Held(c)' = Held(c) /\ Exists(on[c])' = Exists(on[c])
    BY <1>1, <2>6 DEF Reads, db, Held, Exists
  <2>8. ASSUME quiet[c] PROVE /\ \A x \in 1..i[c] : Fits(b, 1, x, Held(c))
                              /\ \A q \in Keys : Believed(c, q)' <=> WillBe(b, 1, i[c] + 1, q, Held(c))
                              /\ Exists(on[c])
    <3>1. ValidatedOK(c) /\ Exists(on[c])
      BY <1>1, <2>8 DEF ClientOK, QuietOK
    <3>2. \A q \in Keys : Believed(c, q) <=> WillBe(b, 1, i[c], q, Held(c))
      BY <3>1 DEF ValidatedOK
    <3>3. Fits(b, 1, i[c], Held(c))
      BY <1>2, <1>5, <3>2 DEF Fits, Refused
    <3>4. \A x \in 1..(i[c] - 1) : Fits(b, 1, x, Held(c))
      BY <3>1 DEF ValidatedOK
    <3>5. \A x \in 1..i[c] : x = i[c] \/ x \in 1..(i[c] - 1)
      BY <1>2
    <3>6. ASSUME NEW q \in Keys PROVE Believed(c, q)' <=> WillBe(b, 1, i[c] + 1, q, Held(c))
      <4> DEFINE m == i[c]
      <4>0. 1 \in Nat /\ m \in Nat /\ 1 <= m
        BY <1>2
      <4> HIDE DEF b, m
      <4>1. WillBe(b, 1, m + 1, q, Held(c)) <=>
                IF Key(b[m]) = q THEN b[m].action # "DELETE" ELSE WillBe(b, 1, m, q, Held(c))
        BY <4>0, WillBeBehind
      <4>2. (<<on[c], q>> \in sets)' <=> <<on[c], q>> \in sets
        BY <1>1, <2>6 DEF Reads, db
      <4>3. Believed(c, q)' <=> IF q = k THEN ch.action # "DELETE" ELSE Believed(c, q)
        BY <2>4, <2>5, <2>6, <4>2 DEF Believed
      <4> QED
        BY <1>2, <3>2, <4>1, <4>3 DEF m
    <3> QED
      BY <3>1, <3>3, <3>4, <3>5, <3>6
  <2>9. CASE i[c] < Len(b) /\ i'[c] = i[c] + 1 /\ pc'[c] = "validate"
    <3>1. (i[c] + 1) - 1 = i[c] /\ i'[c] \in 1..Len(b)
      BY <1>2, <2>9
    <3>2. quiet[c] => ValidatedOK(c)'
      BY <2>6, <2>7, <2>8, <2>9, <3>1 DEF ValidatedOK
    <3>3. ClientOK(c)'
      BY <1>1, <1>2, <2>6, <2>7, <2>8, <2>9, <3>1, <3>2 DEF ClientOK, QuietOK
    <3> QED
      BY <1>1, <1>3, <2>6, <3>3, StepIsGood DEF DeleteSparesRecords
  <2>10. CASE i[c] = Len(b) /\ i'[c] = 1 /\ pc'[c] = "apply"
    <3>1. 1 \in 1..Len(b)
      BY <1>2
    <3>2. quiet[c] => RestFits(c)'
      BY <2>6, <2>7, <2>8, <2>10 DEF RestFits
    <3>3. ClientOK(c)'
      BY <1>1, <1>2, <2>6, <2>7, <2>8, <2>10, <3>1, <3>2 DEF ClientOK, QuietOK
    <3> QED
      BY <1>1, <1>3, <2>6, <3>3, StepIsGood DEF DeleteSparesRecords
  <2> QED
    BY <2>6, <2>9, <2>10
<1> QED
  BY <1>4, <1>5 DEF Validate

\* A quiet batch's current change finds what validation believed it would.
LEMMA CurrentFits ==
    ASSUME Inv, NEW c \in Clients, pc[c] \in {"apply", "put"}, quiet[c]
    PROVE  /\ RestFits(c) /\ Exists(on[c])
           /\ Current(c).action = "CREATE" => <<on[c], Key(Current(c))>> \notin sets
           /\ Current(c).action = "DELETE" => <<on[c], Key(Current(c))>> \in sets
<1> DEFINE b == req[c].batch
           m == i[c]
<1>1. RestFits(c) /\ Exists(on[c])
  BY DEF Inv, ClientOK, QuietOK
<1>2. m \in Nat /\ m \in m..Len(b) /\ Key(b[m]) \in Keys
  BY BatchShape, LenProperties
<1>3. Fits(b, m, m, Held(c))
  BY <1>1, <1>2 DEF RestFits
<1> HIDE DEF m
<1>4. WillBe(b, m, m, Key(b[m]), Held(c)) <=> Key(b[m]) \in Held(c)
  BY <1>2, WillBeNow
<1>5. Key(b[m]) \in Held(c) <=> <<on[c], Key(b[m])>> \in sets
  BY <1>2 DEF Held
<1> QED
  BY <1>1, <1>3, <1>4, <1>5 DEF Fits, Current, m

\* A change of a batch is made, as Apply and Put make it.
LEMMA ChangeIsGood ==
    ASSUME Inv, NEW c \in Clients, pc[c] \in {"apply", "put"}, Exists(on[c]),
           sets' = IF Current(c).action = "DELETE" THEN sets \ {<<on[c], Key(Current(c))>>}
                                                   ELSE sets \cup {<<on[c], Key(Current(c))>>},
           Advance(c, "apply", "change"), Writes(c, on[c]), UNCHANGED <<zone, changes, tagged, seen>>
    PROVE  GoodStep(c)
<1> DEFINE b == req[c].batch
           m == i[c]
           k == Key(Current(c))
           s == <<on[c], k>>
<1>1. /\ m \in 1..Len(b) /\ Len(b) \in Nat /\ on[c] \in Zones /\ Current(c) = b[m]
      /\ Current(c) \in Changes /\ k \in Keys /\ k.name.dot
      /\ \A x \in 1..Len(b) : Key(b[x]) \in Keys
  BY BatchShape, LenProperties, KeysAreDotted DEF Current
<1>2. req[c] \in Requests /\ req[c].op = "ChangeResourceRecordSets"
  BY DEF Inv, ClientOK
<1>3. DbInv'
  <2> HIDE DEF k
  <2>1. s \in Zones \X Keys /\ s[1] = on[c] /\ s[2] = k
    BY <1>1
  <2> HIDE DEF s
  <2>2. sets' \subseteq sets \cup {s}
    BY DEF s, k
  <2> QED
    BY <1>1, <2>1, <2>2 DEF Inv, DbInv, RowTypes, NothingOutlivesItsZone, StoredOncePerName, Exists
<1>4. QuietAfter(c)
  <2>1. \A y \in Zones \ {on[c]} : Untouched(y)
    BY DEF Untouched
  <2> QED
    BY <1>1, <2>1, WritesAreGood
<1>5. /\ Leaves(c) /\ ClientTypes'
      /\ req'[c] = req[c] /\ on'[c] = on[c] /\ quiet'[c] = quiet[c]
      /\ \/ m < Len(b) /\ i'[c] = m + 1 /\ pc'[c] = "apply"
         \/ m = Len(b) /\ i'[c] = 1 /\ pc'[c] = "change"
  <2>1. "apply" \in Places /\ "change" \in Places
    BY DEF Places
  <2> DEFINE f == seen[c]
  <2>2. /\ DOMAIN f \subseteq Keys
        /\ DOMAIN seen' = Clients /\ seen'[c] = f /\ \A d \in Clients \ {c} : seen'[d] = seen[d]
    BY DEF Inv, ClientTypes
  <2> HIDE DEF f, m, b
  <2>3. /\ Leaves(c) /\ ClientTypes'
        /\ req'[c] = req[c] /\ on'[c] = on[c] /\ quiet'[c] = quiet[c]
        /\ \/ i[c] < Len(req[c].batch) /\ i'[c] = i[c] + 1 /\ pc'[c] = "apply"
           \/ i[c] = Len(req[c].batch) /\ i'[c] = 1 /\ pc'[c] = "change"
    BY <1>4, <2>1, <2>2, AdvanceMoves
  <2> QED
    BY <2>3 DEF m, b
<1>6. \A q \in Keys : q \in Held(c)' <=> IF k = q THEN Current(c).action # "DELETE" ELSE q \in Held(c)
  <2> HIDE DEF k
  <2>1. \A q : <<on[c], q>> = s <=> k = q
    OBVIOUS
  <2>2. \A q \in Keys : q \in Held(c) <=> <<on[c], q>> \in sets
    BY DEF Held
  <2>3. \A q \in Keys : q \in Held(c)' <=> <<on[c], q>> \in sets'
    BY <1>5 DEF Held
  <2> HIDE DEF s
  <2>4. sets' = IF Current(c).action = "DELETE" THEN sets \ {s} ELSE sets \cup {s}
    BY DEF s, k
  <2>5. \A q : <<on[c], q>> \in sets' <=> IF k = q THEN Current(c).action # "DELETE" ELSE <<on[c], q>> \in sets
    BY <2>1, <2>4
  <2> QED
    BY <2>2, <2>3, <2>5
<1>7. ASSUME quiet[c], m < Len(b), i'[c] = m + 1 PROVE RestFits(c)'
  <2>1. RestFits(c)
    BY <1>7, CurrentFits
  <2>2. ASSUME NEW x \in (m + 1)..Len(b) PROVE Fits(b, m + 1, x, Held(c)')
    <3>1. m \in Nat /\ x \in Nat /\ m < x /\ x \in m..Len(b) /\ x \in 1..Len(b)
      BY <1>1
    <3>2. Fits(b, m, x, Held(c)) /\ Key(b[x]) \in Keys
      BY <1>1, <2>1, <3>1 DEF RestFits
    <3>3. Key(b[x]) \in Held(c)' <=> IF Key(b[m]) = Key(b[x]) THEN b[m].action # "DELETE" ELSE Key(b[x]) \in Held(c)
      BY <1>1, <1>6, <3>2
    <3> DEFINE q == Key(b[x])
               held == Held(c)
               then == Held(c)'
    <3>4. q \in then <=> IF Key(b[m]) = q THEN b[m].action # "DELETE" ELSE q \in held
      BY <3>3
    <3> HIDE DEF m, b, q, held, then
    <3>5. WillBe(b, m, x, q, held) <=> WillBe(b, m + 1, x, q, then)
      BY <3>1, <3>4, WillBeAhead
    <3> QED
      BY <3>2, <3>5 DEF Fits, q, held, then
  <2> QED
    BY <1>5, <1>7, <2>2 DEF RestFits
<1>8. BatchApplies(c)
  BY <1>5, CurrentFits DEF BatchApplies
<1>9. CASE m < Len(b) /\ i'[c] = m + 1 /\ pc'[c] = "apply"
  <2>1. m + 1 \in 1..Len(b)
    BY <1>1, <1>9
  <2>2. ClientOK(c)'
    BY <1>1, <1>2, <1>5, <1>7, <1>9, <2>1 DEF ClientOK, QuietOK, Exists
  <2> QED
    BY <1>3, <1>5, <1>8, <1>9, <2>2, StepIsGood DEF DeleteSparesRecords
<1>10. CASE m = Len(b) /\ i'[c] = 1 /\ pc'[c] = "change"
  <2>1. ClientOK(c)'
    BY <1>1, <1>2, <1>5, <1>10 DEF ClientOK, QuietOK
  <2> QED
    BY <1>3, <1>5, <1>8, <1>10, <2>1, StepIsGood DEF DeleteSparesRecords
<1> QED
  BY <1>5, <1>9, <1>10

LEMMA ApplyIsGood ==
    ASSUME Inv, NEW c \in Clients, Apply(c)
    PROVE  GoodStep(c)
<1> DEFINE s == <<on[c], Key(Current(c))>>
<1>1. /\ pc[c] = "apply" /\ on[c] \in Zones /\ ClientOK(c) /\ s[1] = on[c]
      /\ req[c] \in Requests /\ req[c].op = "ChangeResourceRecordSets"
      /\ i[c] \in 1..Len(req[c].batch)
  BY DEF Apply, At, Inv, ClientOK
<1>2. DeleteSparesRecords(c)
  BY <1>1 DEF DeleteSparesRecords
<1>3. CASE Current(c).action = "DELETE" /\ s \in sets
  <2>1. Exists(on[c])
    BY <1>1, <1>3 DEF Inv, DbInv, NothingOutlivesItsZone
  <2>2. /\ sets' = sets \ {s} /\ Advance(c, "apply", "change") /\ Writes(c, on[c])
        /\ UNCHANGED <<zone, changes, tagged, seen>>
    BY <1>3 DEF Apply
  <2> QED
    BY <1>1, <1>3, <2>1, <2>2, ChangeIsGood
<1>4. CASE Current(c).action = "DELETE" /\ s \notin sets
  <2>1. Answer(c, "NotFound") /\ Reads
    BY <1>4 DEF Apply
  <2>2. BatchApplies(c)
    BY <1>1, <1>4, CurrentFits DEF BatchApplies
  <2> QED
    BY <2>1, <2>2, ReadsAreGood, AnswerIsGood DEF Answers
<1>5. CASE Current(c).action # "DELETE" /\ ~Exists(on[c])
  <2>1. Answer(c, "NotFound") /\ Reads
    BY <1>5 DEF Apply
  <2>2. BatchApplies(c)
    BY <1>1, <1>5, CurrentFits DEF BatchApplies
  <2> QED
    BY <2>1, <2>2, ReadsAreGood, AnswerIsGood DEF Answers
<1>6. CASE Current(c).action # "DELETE" /\ Exists(on[c])
  <2>1. Goto(c, "put") /\ Reads /\ DbInv' /\ QuietAfter(c)
    BY <1>6, ReadsAreGood DEF Apply
  <2>2. name' = [name EXCEPT ![c] = name[c]] /\ name[c] \in ZoneNames \cup {None} /\ "put" \in Places
    BY <2>1 DEF Goto, Inv, ClientTypes, Places
  <2>3. /\ Leaves(c) /\ ClientTypes'
        /\ pc'[c] = "put" /\ req'[c] = req[c] /\ on'[c] = on[c] /\ i'[c] = i[c] /\ quiet'[c] = quiet[c]
    BY <2>1, <2>2, GotoMoves DEF Goto
  <2>4. Held(c)' = Held(c) /\ Exists(on[c])'
    BY <1>6, <2>1, <2>3 DEF Reads, db, Held, Exists
  <2>5. quiet[c] => RestFits(c)'
    BY <1>1, <2>3, <2>4, CurrentFits DEF RestFits
  <2>6. Current(c)' = Current(c)
    BY <2>3 DEF Current
  <2>7. ClientOK(c)'
    BY <1>1, <1>6, <2>3, <2>4, <2>5, <2>6 DEF ClientOK, QuietOK
  <2>8. BatchApplies(c)
    BY <1>1, <2>3 DEF BatchApplies
  <2> QED
    BY <1>2, <2>1, <2>3, <2>7, <2>8, StepIsGood
<1> QED
  BY <1>3, <1>4, <1>5, <1>6

LEMMA PutIsGood ==
    ASSUME Inv, NEW c \in Clients, Put(c)
    PROVE  GoodStep(c)
<1>1. pc[c] = "put" /\ Current(c).action # "DELETE"
  BY DEF Put, At, Inv, ClientOK
<1>2. CASE Exists(on[c])
  BY <1>1, <1>2, ChangeIsGood DEF Put
<1>3. CASE ~Exists(on[c])
  <2>1. BatchApplies(c)
    BY <1>1, <1>3, CurrentFits DEF BatchApplies
  <2> QED
    BY <1>3, <2>1, ReadsAreGood, AnswerIsGood DEF Put, Answers
<1> QED
  BY <1>2, <1>3

LEMMA BeginBatchIsGood ==
    ASSUME Inv, NEW c \in Clients, BeginBatch(c)
    PROVE  GoodStep(c)
<1> DEFINE o == "ChangeResourceRecordSets"
<1>1. pc[c] = "start" /\ req[c] \in Requests /\ req[c].op = o
  BY DEF BeginBatch, GetHostedZone, At, Inv, ClientOK
<1>2. req[c].batch \in Seq(Changes)
  BY <1>1, RequestShape
<1>3. {"start", "change", "validate"} \subseteq Places
  BY DEF Places
<1>4. CASE req[c].batch = << >>
  <2>1. GetHostedZone(c, "start", o, "change")
    BY <1>4 DEF BeginBatch
  <2> QED
    BY <1>3, <2>1, GetIsGood
<1>5. CASE req[c].batch # << >>
  <2>1. GetHostedZone(c, "start", o, "validate")
    BY <1>5 DEF BeginBatch
  <2>2. Len(req[c].batch) \in Nat \ {0}
    BY <1>2, <1>5, EmptySeq, LenProperties
  <2> QED
    BY <1>3, <2>1, <2>2, GetIsGood
<1> QED
  BY <1>4, <1>5
-----------------------------------------------------------------------------
(* The invariant and what the steps promise. *)

LEMMA InitInv == Init => Inv
<1> SUFFICES ASSUME Init PROVE Inv
  OBVIOUS
<1>1. DbInv
  BY DEF Init, DbInv, RowTypes, NothingOutlivesItsZone, StoredOncePerName
<1>2. ClientTypes
  <2>1. DOMAIN << >> \subseteq Keys
    BY NoneBelieved
  <2>2. "idle" \in Places /\ "none" \in Answers /\ 1 \in Nat \ {0}
    BY DEF Places, Answers
  <2>3. DOMAIN seen = Clients /\ \A c \in Clients : DOMAIN seen[c] \subseteq Keys
    BY <2>1 DEF Init
  <2> QED
    BY <2>2, <2>3 DEF Init, ClientTypes
<1>3. \A c \in Clients : ClientOK(c)
  BY DEF Init, ClientOK, QuietOK
<1> QED
  BY <1>1, <1>2, <1>3 DEF Inv

LEMMA HandleIsGood ==
    ASSUME Inv, NEW c \in Clients, Handle(c)
    PROVE  GoodStep(c)
<1>1. {"start", "ns", "ns put", "soa", "soa put", "count", "change"} \subseteq Places
  BY DEF Places
<1>2. CASE CreateHostedZone(c)
  <2>1. CASE GetHostedZone(c, "ns", "CreateHostedZone", "ns put")
    BY <1>1, <2>1, GetIsGood
  <2>2. CASE GetHostedZone(c, "soa", "CreateHostedZone", "soa put")
    BY <1>1, <2>2, GetIsGood
  <2>3. CASE PutDefault(c, "ns put", "NS", "soa")
    BY <1>1, <2>3, PutDefaultIsGood
  <2>4. CASE PutDefault(c, "soa put", "SOA", "change")
    BY <1>1, <2>4, PutDefaultIsGood
  <2> QED
    BY <1>2, <2>1, <2>2, <2>3, <2>4, InsertZoneIsGood DEF CreateHostedZone
<1>3. CASE DeleteHostedZone(c)
  <2>1. CASE GetHostedZone(c, "start", "DeleteHostedZone", "count")
    BY <1>1, <2>1, GetIsGood
  <2> QED
    BY <1>3, <2>1, CountRecordsIsGood, DropZoneIsGood DEF DeleteHostedZone
<1>4. CASE ChangeResourceRecordSets(c)
  BY <1>4, BeginBatchIsGood, ValidateIsGood, ApplyIsGood, PutIsGood DEF ChangeResourceRecordSets
<1> QED
  BY <1>2, <1>3, <1>4, ChangeTagsIsGood, RecordChangeIsGood DEF Handle

Promised == \A c \in Clients : BatchApplies(c) /\ DeleteSparesRecords(c)

LEMMA NextInv == Inv /\ [Next]_vars => Inv' /\ Promised
<1> SUFFICES ASSUME Inv, [Next]_vars PROVE Inv' /\ Promised
  OBVIOUS
<1>1. CASE Next
  BY <1>1, HandleIsGood, SendIsGood DEF Next, GoodStep, Promised
<1>2. CASE UNCHANGED vars
  <2>1. DbInv' /\ ClientTypes'
    BY <1>2 DEF vars, Inv, DbInv, RowTypes, NothingOutlivesItsZone, StoredOncePerName, Exists, ClientTypes
  <2>2. ASSUME NEW c \in Clients PROVE ClientOK(c)'
    <3>1. ClientOK(c)
      BY DEF Inv
    <3>2. QuietOK(c) => QuietOK(c)'
      BY <1>2, QuietStays DEF vars, Untouched
    <3> QED
      BY <1>2, <3>1, <3>2 DEF vars, ClientOK, Current
  <2>3. Promised
    BY <1>2 DEF vars, Promised, BatchApplies, DeleteSparesRecords
  <2> QED
    BY <2>1, <2>2, <2>3 DEF Inv
<1> QED
  BY <1>1, <1>2

LEMMA Invariance == Spec => []Inv
BY InitInv, NextInv, PTL DEF Spec

\* No record set and no tag outlives its zone, and a record set is stored under the
\* dotted name alone, but for a zone's own NS and SOA: whatever requests overlap.
THEOREM SpecZonesAreSound == Spec => []ZonesAreSound
<1>1. Inv => ZonesAreSound
  BY DEF Inv, DbInv, ZonesAreSound, RowTypes, TypeOK, ClientTypes
<1> QED
  BY <1>1, Invariance, PTL

\* A batch of any length that passed validation applies to its last change, with no
\* CREATE onto a record set that exists, while no other request writes to its zone.
THEOREM SpecQuietBatchApplies == Spec => QuietBatchApplies
<1>1. Inv /\ [Next]_vars => \A c \in Clients : BatchApplies(c)
  BY NextInv DEF Promised
<1> QED
  BY <1>1, Invariance, PTL DEF Spec, QuietBatchApplies, BatchApplies

\* With no other request writing to the zone, what DeleteHostedZone counted is what
\* its cascade takes: the zone's own NS and SOA.
THEOREM SpecQuietDeleteSparesRecords == Spec => QuietDeleteSparesRecords
<1>1. Inv /\ [Next]_vars => \A c \in Clients : DeleteSparesRecords(c)
  BY NextInv DEF Promised
<1> QED
  BY <1>1, Invariance, PTL DEF Spec, QuietDeleteSparesRecords, DeleteSparesRecords
=============================================================================

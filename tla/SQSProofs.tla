------------------------------ MODULE SQSProofs ------------------------------
(***************************************************************************)
(* For any clients, queues, messages, timeouts and clock: tags are of      *)
(* queues that are there, deliveries are counted, what the tombstone keeps *)
(* changes only by a request that names it, and a request that nobody      *)
(* else's writes overlap orphans no message.                               *)
(***************************************************************************)
EXTENDS SQS, TLAPS

\* What a request carries.
LEMMA RequestShape ==
    ASSUME NEW m \in Mixes, NEW r \in RequestsOf[m]
    PROVE  /\ r.q \in Queues
           /\ r.op = "CreateQueue" => r.fifo \in BOOLEAN /\ r.tags \in BOOLEAN
           /\ r.op = "ReceiveMessage" => r.timeout \in Int
           /\ r.op = "DeleteMessage" => r.handle \in Handles
           /\ r.op = "SetQueueAttributes" => r.attr \in AllAttrs /\ r.val \in BOOLEAN
<1>1. \/ r \in [op: {"CreateQueue"} \cap m.ops, q: m.creates, fifo: BOOLEAN, tags: m.tags]
      \/ r \in [op: {"DeleteQueue", "SendMessage", "TagQueue", "UntagQueue"} \cap m.ops, q: Queues]
      \/ r \in [op: {"ReceiveMessage"} \cap m.ops, q: Queues, max: m.limits, timeout: m.timeouts]
      \/ r \in [op: {"DeleteMessage"} \cap m.ops, q: Queues, handle: Handles]
      \/ r \in [op: {"SetQueueAttributes"} \cap m.ops, q: Queues, attr: Settable, val: BOOLEAN]
  BY DEF RequestsOf
<1> QED
  BY <1>1, ConstantsAssumption DEF AllAttrs
-----------------------------------------------------------------------------
(* The inductive invariant. *)

\* A message not drawn yet was never stored; a handle that is not empty was handed out.
MessageOK(m) ==
    /\ m \notin drawn => msg[m] = None /\ handed[m] = 0
    /\ msg[m] # None => msg[m].handle = NoHandle \/ handed[m] > 0

DbInv ==
    /\ queue \in [Queues -> Attributes \cup {None}]
    /\ tagged \subseteq Queues
    /\ msg \in [Ids -> Rows \cup {None}]
    /\ drawn \subseteq Ids /\ handed \in [Ids -> Nat]
    /\ TagsAreOfQueues /\ CountsEveryReceive
    /\ \A m \in Ids : MessageOK(m)

ClientTypes ==
    /\ mix \in Mixes /\ time \in 0..MaxTime
    /\ pc \in [Clients -> Places]
    /\ req \in [Clients -> RequestsOf[mix] \cup {None}]
    /\ now \in [Clients -> 0..MaxTime]
    /\ got \in [Clients -> Attributes \cup {None}]
    /\ picked \in [Clients -> SUBSET Ids]
    /\ quiet \in [Clients -> BOOLEAN]

\* What c's SELECT returned is in its queue or has left it for good.
PickedOK(c) ==
    picked[c] \subseteq drawn
        /\ \A m \in picked[c] : msg[m] = None \/ msg[m].q = req[c].q \/ msg[m].q = Tombstone

\* What a request on its way found of its queue, and what of it still holds while no
\* other request has written to the queue.
ClientOK(c) ==
    /\ pc[c] # "idle" => req[c] \in RequestsOf[mix]
    /\ pc[c] = "write" => got[c] \in Attributes
    /\ pc[c] \in {"insert", "rebadge", "drop"} => req[c].q # Tombstone
    /\ pc[c] = "stamp" => PickedOK(c)
    /\ quiet[c] /\ pc[c] = "insert" => queue[req[c].q] # None
    /\ quiet[c] /\ pc[c] = "drop" => \A m \in Ids : msg[m] # None => msg[m].q # req[c].q

Inv == DbInv /\ ClientTypes /\ \A c \in Clients : ClientOK(c)

-----------------------------------------------------------------------------
(* What a step of one request leaves the others. *)

OthersStay(c) ==
    \A d \in Clients \ {c} :
        pc'[d] = pc[d] /\ req'[d] = req[d] /\ got'[d] = got[d] /\ picked'[d] = picked[d]

\* A message leaves its queue for the tombstone or for good; no id is drawn twice.
MessagesMove ==
    /\ drawn \subseteq drawn'
    /\ \A m \in drawn : msg'[m] = None \/ (msg[m] # None /\ msg'[m].q \in {msg[m].q, Tombstone})

\* The queue is still there, and no message has come to it.
Untouched(q) ==
    /\ queue[q] # None => queue'[q] # None
    /\ \A m \in Ids : msg'[m] # None /\ msg'[m].q = q => msg[m] # None /\ msg[m].q = q

\* Only a request of another queue leaves one quiet.
QuietAfter(c) ==
    \A d \in Clients \ {c} :
        quiet'[d] => quiet[d] /\ (pc[d] \in {"insert", "drop"} => Untouched(req[d].q))

Leaves(c) == OthersStay(c) /\ MessagesMove /\ QuietAfter(c)

LEMMA OthersAreOK ==
    ASSUME Inv, UNCHANGED mix, NEW c \in Clients, Leaves(c), NEW d \in Clients \ {c}
    PROVE  ClientOK(d)'
<1>1. pc'[d] = pc[d] /\ req'[d] = req[d] /\ got'[d] = got[d] /\ picked'[d] = picked[d] /\ ClientOK(d)
  BY DEF Leaves, OthersStay, Inv
<1>2. pc[d] = "stamp" => PickedOK(d)'
  <2> SUFFICES ASSUME pc[d] = "stamp" PROVE PickedOK(d)'
    OBVIOUS
  <2>1. PickedOK(d)
    BY <1>1 DEF ClientOK
  <2>2. picked[d] \subseteq drawn'
    BY <2>1 DEF PickedOK, Leaves, MessagesMove
  <2>3. ASSUME NEW m \in picked[d] PROVE msg'[m] = None \/ msg'[m].q = req[d].q \/ msg'[m].q = Tombstone
    BY <2>1, <2>3 DEF PickedOK, Leaves, MessagesMove
  <2> QED
    BY <1>1, <2>2, <2>3 DEF PickedOK
<1>3. quiet'[d] /\ pc[d] = "insert" => queue'[req[d].q] # None
  BY <1>1 DEF ClientOK, Leaves, QuietAfter, Untouched
<1>4. quiet'[d] /\ pc[d] = "drop" => \A m \in Ids : msg'[m] # None => msg'[m].q # req[d].q
  BY <1>1 DEF ClientOK, Leaves, QuietAfter, Untouched
<1> QED
  BY <1>1, <1>2, <1>3, <1>4 DEF ClientOK

\* What is promised of a step: of the messages it leaves, and of those it orphans.
StayStep ==
    \A m \in Stored :
        /\ msg'[m] = None =>
              \/ handed[m] > 0
              \/ \E c \in Clients : At(c, "start", "DeleteMessage") /\ req[c].handle = NoHandle
        /\ msg[m].q = Tombstone =>
              /\ msg'[m] # msg[m] => \E c \in Clients : RequestOn(c, Tombstone)
              /\ msg'[m] # None => msg'[m].q = Tombstone

GoodStep(c) == Inv' /\ OthersStay(c) /\ StayStep /\ (quiet[c] => Orphans' \subseteq Orphans)

LEMMA StepIsGood ==
    ASSUME Inv, UNCHANGED mix, NEW c \in Clients, Leaves(c), DbInv', ClientTypes', ClientOK(c)',
           StayStep, quiet[c] => Orphans' \subseteq Orphans
    PROVE  GoodStep(c)
<1>1. \A d \in Clients \ {c} : ClientOK(d)'
  BY OthersAreOK
<1> QED
  BY <1>1 DEF GoodStep, Inv, Leaves
-----------------------------------------------------------------------------
(* The ways a request moves. *)

Moved(c, p, r, w, g, P) ==
    /\ pc' = [pc EXCEPT ![c] = p] /\ req' = [req EXCEPT ![c] = r] /\ now' = [now EXCEPT ![c] = w]
    /\ got' = [got EXCEPT ![c] = g] /\ picked' = [picked EXCEPT ![c] = P]

LEMMA MovedTypes ==
    ASSUME ClientTypes, UNCHANGED <<mix, time>>, quiet' \in [Clients -> BOOLEAN], NEW c \in Clients,
           NEW p \in Places, NEW r \in RequestsOf[mix] \cup {None}, NEW w \in 0..MaxTime,
           NEW g \in Attributes \cup {None}, NEW P \in SUBSET Ids, Moved(c, p, r, w, g, P)
    PROVE  /\ ClientTypes' /\ OthersStay(c)
           /\ pc'[c] = p /\ req'[c] = r /\ got'[c] = g /\ picked'[c] = P
<1>1. /\ pc' = [pc EXCEPT ![c] = p] /\ req' = [req EXCEPT ![c] = r] /\ now' = [now EXCEPT ![c] = w]
      /\ got' = [got EXCEPT ![c] = g] /\ picked' = [picked EXCEPT ![c] = P]
  BY DEF Moved
<1>2. /\ mix \in Mixes /\ time \in 0..MaxTime
      /\ pc \in [Clients -> Places] /\ req \in [Clients -> RequestsOf[mix] \cup {None}]
      /\ now \in [Clients -> 0..MaxTime] /\ got \in [Clients -> Attributes \cup {None}]
      /\ picked \in [Clients -> SUBSET Ids]
  BY DEF ClientTypes
<1>3. /\ pc' \in [Clients -> Places] /\ req' \in [Clients -> RequestsOf[mix] \cup {None}]
      /\ now' \in [Clients -> 0..MaxTime] /\ got' \in [Clients -> Attributes \cup {None}]
      /\ picked' \in [Clients -> SUBSET Ids]
  BY <1>1, <1>2
<1>4. OthersStay(c) /\ pc'[c] = p /\ req'[c] = r /\ got'[c] = g /\ picked'[c] = P
  BY <1>1, <1>2 DEF OthersStay
<1> QED
  BY <1>2, <1>3, <1>4 DEF ClientTypes

LEMMA AnswerMoves ==
    ASSUME Inv, UNCHANGED mix, quiet' \in [Clients -> BOOLEAN], NEW c \in Clients, Answer(c)
    PROVE  ClientTypes' /\ OthersStay(c) /\ ClientOK(c)' /\ pc'[c] = "idle"
<1>1. Moved(c, "idle", None, 0, None, picked[c]) /\ time' = time
  BY DEF Answer, Moved, Inv, ClientTypes
<1>2. "idle" \in Places /\ 0 \in 0..MaxTime /\ picked[c] \in SUBSET Ids
  BY ConstantsAssumption DEF Places, Inv, ClientTypes
<1>3. ClientTypes' /\ OthersStay(c) /\ pc'[c] = "idle"
  BY <1>1, <1>2, MovedTypes DEF Inv
<1> QED
  BY <1>3 DEF ClientOK

LEMMA GotoMoves ==
    ASSUME Inv, UNCHANGED mix, quiet' \in [Clients -> BOOLEAN], NEW c \in Clients, NEW p \in Places, Goto(c, p)
    PROVE  /\ ClientTypes' /\ OthersStay(c) /\ pc'[c] = p
           /\ req'[c] = req[c] /\ got'[c] = got[c] /\ picked'[c] = picked[c]
<1>1. Moved(c, p, req[c], now[c], got[c], picked[c]) /\ time' = time
  BY DEF Goto, Moved, Inv, ClientTypes
<1>2. /\ req[c] \in RequestsOf[mix] \cup {None} /\ now[c] \in 0..MaxTime
      /\ got[c] \in Attributes \cup {None} /\ picked[c] \in SUBSET Ids
  BY DEF Inv, ClientTypes
<1> QED
  BY <1>1, <1>2, MovedTypes DEF Inv

\* A statement that only reads.
LEMMA ReadStep ==
    ASSUME Inv, UNCHANGED mix, NEW c \in Clients, Reads, OthersStay(c), ClientTypes', ClientOK(c)'
    PROVE  GoodStep(c)
<1>1. queue' = queue /\ tagged' = tagged /\ msg' = msg /\ drawn' = drawn /\ handed' = handed /\ quiet' = quiet
  BY DEF Reads, db
<1>2. DbInv'
  BY <1>1 DEF Inv, DbInv, TagsAreOfQueues, CountsEveryReceive, MessageOK, Stored, Exists
<1>3. Leaves(c)
  BY <1>1 DEF Leaves, MessagesMove, QuietAfter, Untouched
<1>4. StayStep /\ Orphans' = Orphans
  BY <1>1, NoneAssumption DEF StayStep, Orphans, Stored, Exists
<1> QED
  BY <1>2, <1>3, <1>4, StepIsGood

\* One that writes to c's queue and to the tombstone only.
LEMMA WritesLeave ==
    ASSUME Inv, NEW c \in Clients, pc[c] # "idle", Writes(c),
           \A q : q # req[c].q /\ q # Tombstone => Untouched(q)
    PROVE  /\ QuietAfter(c) /\ quiet' \in [Clients -> BOOLEAN]
           /\ pc'[c] # "idle" => (quiet'[c] => quiet[c])
<1>1. quiet' = [d \in Clients |->
                 IF d = c THEN quiet[c] \/ pc'[c] = "idle"
                 ELSE quiet[d] /\ (pc[d] = "idle" \/ req[d].q # req[c].q)]
  BY DEF Writes
<1>2. quiet' \in [Clients -> BOOLEAN] /\ (pc'[c] # "idle" => (quiet'[c] => quiet[c]))
  BY <1>1 DEF Inv, ClientTypes
<1>3. \A d \in Clients \ {c} : quiet'[d] => quiet[d] /\ (pc[d] = "idle" \/ req[d].q # req[c].q)
  BY <1>1
<1>4. \A d \in Clients : pc[d] \in {"insert", "drop"} => req[d].q # Tombstone
  BY DEF Inv, ClientOK
<1> HIDE DEF Writes
<1> QED
  BY <1>2, <1>3, <1>4 DEF QuietAfter
-----------------------------------------------------------------------------
(* The statements, a lemma each. *)

LEMMA AnsweredRead ==
    ASSUME Inv, UNCHANGED mix, NEW c \in Clients, Answer(c), Reads
    PROVE  GoodStep(c)
<1>1. quiet' \in [Clients -> BOOLEAN]
  BY DEF Reads, Inv, ClientTypes
<1> QED
  BY <1>1, AnswerMoves, ReadStep

LEMMA GetStep ==
    ASSUME Inv, UNCHANGED mix, NEW c \in Clients, NEW place \in {"start", "undo"}, NEW o,
           NEW next \in {"rebadge", "insert", "select", "write"}, GetSQSQueue(c, place, o, next),
           next \in {"rebadge", "insert"} => req[c].q # Tombstone
    PROVE  GoodStep(c)
<1>1. pc[c] = place /\ Reads /\ pc[c] # "idle" /\ quiet' = quiet /\ queue' = queue
  BY DEF GetSQSQueue, At, Reads, db
<1>2. CASE Answer(c)
  BY <1>1, <1>2, AnsweredRead
<1>3. CASE /\ Exists(req[c].q)
           /\ pc' = [pc EXCEPT ![c] = next]
           /\ got' = [got EXCEPT ![c] = queue[req[c].q]]
           /\ UNCHANGED <<req, now, picked, time>>
  <2>1. req[c] \in RequestsOf[mix] /\ req[c].q \in Queues
    BY <1>1, RequestShape DEF Inv, ClientOK, ClientTypes
  <2>2. queue[req[c].q] \in Attributes
    BY <1>3, <2>1 DEF Inv, DbInv, Exists
  <2>3. Moved(c, next, req[c], now[c], queue[req[c].q], picked[c]) /\ time' = time
    BY <1>3 DEF Moved, Inv, ClientTypes
  <2>4. /\ next \in Places /\ now[c] \in 0..MaxTime /\ picked[c] \in SUBSET Ids
        /\ quiet' \in [Clients -> BOOLEAN] /\ queue[req[c].q] \in Attributes \cup {None}
    BY <1>1, <2>2 DEF Inv, ClientTypes, Places
  <2>5. /\ ClientTypes' /\ OthersStay(c) /\ pc'[c] = next
        /\ req'[c] = req[c] /\ got'[c] = queue[req[c].q]
    <3>1. ClientTypes
      BY DEF Inv
    <3> QED
      BY <2>1, <2>3, <2>4, <3>1, MovedTypes
  <2>6. queue'[req[c].q] # None
    BY <1>1, <1>3 DEF Exists
  <2>7. ClientOK(c)'
    BY <2>1, <2>2, <2>5, <2>6 DEF ClientOK
  <2> QED
    BY <1>1, <2>5, <2>7, ReadStep
<1> QED
  BY <1>2, <1>3 DEF GetSQSQueue

\* The request's own queue is one of the queues there may be.
LEMMA RequestHere ==
    ASSUME Inv, NEW c \in Clients, pc[c] # "idle"
    PROVE  req[c] \in RequestsOf[mix] /\ mix \in Mixes /\ req[c].q \in Queues
  BY RequestShape DEF Inv, ClientOK, ClientTypes

LEMMA RebadgeStep ==
    ASSUME Inv, UNCHANGED mix, NEW c \in Clients, NEW o, Rebadge(c, o)
    PROVE  GoodStep(c)
<1> DEFINE q == req[c].q
<1>1. /\ pc[c] = "rebadge" /\ Goto(c, "drop") /\ Writes(c)
      /\ queue' = queue /\ tagged' = tagged /\ drawn' = drawn /\ handed' = handed
      /\ msg' = [m \in Ids |-> IF m \in InQueue(q) THEN [msg[m] EXCEPT !.q = Tombstone] ELSE msg[m]]
  BY DEF Rebadge, At
<1>2. q \in Queues /\ q # Tombstone /\ req[c] \in RequestsOf[mix] /\ Tombstone \in Queues
  BY <1>1, RequestHere, ConstantsAssumption DEF Inv, ClientOK
<1>3. ASSUME NEW m \in Ids
      PROVE  \/ /\ msg[m] # None /\ msg[m].q = q
                /\ msg[m] \in Rows /\ msg'[m] \in Rows
                /\ msg'[m] # None /\ msg'[m].q = Tombstone
                /\ msg'[m].handle = msg[m].handle /\ msg'[m].count = msg[m].count
             \/ msg'[m] = msg[m] /\ (msg[m] # None => msg[m].q # q)
  <2>1. CASE m \in InQueue(q)
    <3>1. msg[m] # None /\ msg[m].q = q /\ msg[m] \in Rows
      BY <2>1 DEF InQueue, Stored, Inv, DbInv
    <3>2. msg'[m] = [msg[m] EXCEPT !.q = Tombstone]
      BY <1>1, <2>1
    <3>3. msg'[m] \in Rows /\ msg'[m].q = Tombstone
              /\ msg'[m].handle = msg[m].handle /\ msg'[m].count = msg[m].count
      BY <1>2, <3>1, <3>2 DEF Rows
    <3> QED
      BY <3>1, <3>3, NoneAssumption
  <2>2. CASE m \notin InQueue(q)
    BY <1>1, <2>2 DEF InQueue, Stored
  <2> QED
    BY <2>1, <2>2
<1>4. msg' \in [Ids -> Rows \cup {None}]
  <2>1. \A m \in Ids : msg'[m] \in Rows \cup {None}
    BY <1>3 DEF Inv, DbInv
  <2>2. msg' = [m \in Ids |-> msg'[m]]
    BY <1>1
  <2> QED
    BY <2>1, <2>2
<1>5. DbInv'
  <2>1. CountsEveryReceive'
    BY <1>1, <1>3 DEF Inv, DbInv, CountsEveryReceive, Stored
  <2>2. \A m \in Ids : MessageOK(m)'
    BY <1>1, <1>3 DEF Inv, DbInv, MessageOK
  <2> QED
    BY <1>1, <1>4, <2>1, <2>2 DEF Inv, DbInv, TagsAreOfQueues, Exists
<1>6. \A p : p # q /\ p # Tombstone => Untouched(p)
  BY <1>1, <1>3 DEF Untouched
<1>7. QuietAfter(c) /\ quiet' \in [Clients -> BOOLEAN]
  BY <1>1, <1>6, WritesLeave
<1>8. ClientTypes' /\ OthersStay(c) /\ pc'[c] = "drop" /\ req'[c] = req[c]
  BY <1>1, <1>7, GotoMoves DEF Places
<1>9. ClientOK(c)'
  BY <1>2, <1>3, <1>8 DEF ClientOK
<1>10. Leaves(c)
  BY <1>1, <1>3, <1>7, <1>8 DEF Leaves, MessagesMove, Inv, DbInv
<1>11. StayStep
  BY <1>2, <1>3 DEF StayStep, Stored
<1>12. Orphans' \subseteq Orphans
  BY <1>1, <1>3 DEF Orphans, Stored, Exists
<1> QED
  BY <1>5, <1>8, <1>9, <1>10, <1>11, <1>12, StepIsGood

LEMMA DropStep ==
    ASSUME Inv, UNCHANGED mix, NEW c \in Clients, NEW o, Drop(c, o)
    PROVE  GoodStep(c)
<1> DEFINE q == req[c].q
<1>1. /\ pc[c] = "drop" /\ Answer(c) /\ Writes(c)
      /\ queue' = [queue EXCEPT ![q] = None] /\ tagged' = tagged \ {q}
      /\ msg' = msg /\ drawn' = drawn /\ handed' = handed
  BY DEF Drop, At
<1>2. q \in Queues /\ q # Tombstone
  BY <1>1, RequestHere DEF Inv, ClientOK
<1>3. /\ queue' \in [Queues -> Attributes \cup {None}] /\ queue'[q] = None
      /\ \A p : p # q => queue'[p] = queue[p]
  BY <1>1, <1>2 DEF Inv, DbInv
<1>4. DbInv'
  <2>1. TagsAreOfQueues'
    BY <1>1, <1>3 DEF Inv, DbInv, TagsAreOfQueues, Exists
  <2> QED
    BY <1>1, <1>2, <1>3, <2>1 DEF Inv, DbInv, CountsEveryReceive, Stored, MessageOK
<1>5. \A p : p # q /\ p # Tombstone => Untouched(p)
  BY <1>1, <1>3 DEF Untouched
<1>6. QuietAfter(c) /\ quiet' \in [Clients -> BOOLEAN]
  BY <1>1, <1>5, WritesLeave
<1>7. ClientTypes' /\ OthersStay(c) /\ ClientOK(c)'
  BY <1>1, <1>6, AnswerMoves
<1>8. Leaves(c)
  BY <1>1, <1>6, <1>7 DEF Leaves, MessagesMove
<1>9. StayStep
  BY <1>1 DEF StayStep, Stored
<1>10. quiet[c] => Orphans' \subseteq Orphans
  <2> SUFFICES ASSUME quiet[c] PROVE Orphans' \subseteq Orphans
    OBVIOUS
  <2>1. \A m \in Ids : msg[m] # None => msg[m].q # q
    BY <1>1 DEF Inv, ClientOK
  <2> QED
    BY <1>1, <1>3, <2>1 DEF Orphans, Stored, Exists
<1> QED
  BY <1>4, <1>7, <1>8, <1>9, <1>10, StepIsGood

LEMMA DeleteQueueStep ==
    ASSUME Inv, UNCHANGED mix, NEW c \in Clients, NEW place \in {"start", "undo"}, NEW o,
           DeleteSQSQueue(c, place, o)
    PROVE  GoodStep(c)
  BY AnsweredRead, GetStep, RebadgeStep, DropStep DEF DeleteSQSQueue

\* A statement that writes c's row of sqs_queues, and leaves it there if it was.
LEMMA QueueWritten ==
    ASSUME Inv, UNCHANGED <<mix, tagged, msg, drawn, handed>>, NEW c \in Clients, pc[c] \in {"start", "write"},
           Writes(c), NEW row \in Attributes, queue' = [queue EXCEPT ![req[c].q] = row],
           pc'[c] \in {"idle", "tag"}, quiet' \in [Clients -> BOOLEAN] => OthersStay(c) /\ ClientTypes',
           req'[c] = req[c] \/ pc'[c] = "idle"
    PROVE  GoodStep(c)
<1> DEFINE q == req[c].q
<1>1. q \in Queues /\ req[c] \in RequestsOf[mix] /\ pc[c] # "idle" /\ row # None
  BY RequestHere, NoneAssumption
<1>2. /\ queue' \in [Queues -> Attributes \cup {None}] /\ queue'[q] # None
      /\ \A p : p # q => queue'[p] = queue[p]
  BY <1>1 DEF Inv, DbInv
<1>3. DbInv'
  BY <1>2 DEF Inv, DbInv, TagsAreOfQueues, Exists, CountsEveryReceive, Stored, MessageOK
<1>4. \A p : p # q /\ p # Tombstone => Untouched(p)
  BY <1>2 DEF Untouched
<1>5. QuietAfter(c) /\ quiet' \in [Clients -> BOOLEAN]
  BY <1>1, <1>4, WritesLeave
<1>6. Leaves(c) /\ ClientOK(c)'
  BY <1>1, <1>5 DEF Leaves, MessagesMove, ClientOK
<1>7. StayStep
  BY DEF StayStep, Stored
<1>8. Orphans' \subseteq Orphans
  BY <1>2 DEF Orphans, Stored, Exists
<1> QED
  BY <1>3, <1>5, <1>6, <1>7, <1>8, StepIsGood

LEMMA InsertQueueStep ==
    ASSUME Inv, UNCHANGED mix, NEW c \in Clients, InsertQueue(c)
    PROVE  GoodStep(c)
<1> DEFINE row == [a \in AllAttrs |-> a = "FifoQueue" /\ req[c].fifo]
<1>1. pc[c] = "start" /\ req[c].op = "CreateQueue" /\ req[c] \in RequestsOf[mix] /\ mix \in Mixes
  BY RequestHere DEF InsertQueue, At
<1>2. CASE Answer(c) /\ Reads
  BY <1>2, AnsweredRead
<1>3. CASE /\ queue' = [queue EXCEPT ![req[c].q] = row]
           /\ IF req[c].tags THEN Goto(c, "tag") ELSE Answer(c)
           /\ Writes(c)
           /\ UNCHANGED <<tagged, msg, drawn, handed>>
  <2>1. req[c].fifo \in BOOLEAN
    BY <1>1, RequestShape
  <2>2. row \in Attributes
    BY <2>1 DEF Attributes
  <2>3. quiet' \in [Clients -> BOOLEAN] => OthersStay(c) /\ ClientTypes'
    BY <1>3, GotoMoves, AnswerMoves DEF Places
  <2>4. pc'[c] \in {"idle", "tag"} /\ (req'[c] = req[c] \/ pc'[c] = "idle")
    BY <1>3 DEF Goto, Answer, Inv, ClientTypes
  <2> HIDE DEF row
  <2> QED
    BY <1>1, <1>3, <2>1, <2>2, <2>3, <2>4, QueueWritten
<1> QED
  BY <1>2, <1>3 DEF InsertQueue

LEMMA SetAttributesStep ==
    ASSUME Inv, UNCHANGED mix, NEW c \in Clients, SetQueueAttributes(c)
    PROVE  GoodStep(c)
<1>1. CASE GetSQSQueue(c, "start", "SetQueueAttributes", "write")
  BY <1>1, GetStep
<1>2. CASE /\ At(c, "write", "SetQueueAttributes")
           /\ queue' = IF Exists(req[c].q) THEN [queue EXCEPT ![req[c].q] = Merged(c)] ELSE queue
           /\ Answer(c) /\ Writes(c)
           /\ UNCHANGED <<tagged, msg, drawn, handed>>
  <2>1. /\ pc[c] = "write" /\ got[c] \in Attributes /\ req[c] \in RequestsOf[mix] /\ mix \in Mixes
        /\ req[c].q \in Queues /\ req[c].op = "SetQueueAttributes"
    BY <1>2, RequestHere DEF At, Inv, ClientOK
  <2>2. req[c].attr \in AllAttrs /\ req[c].val \in BOOLEAN
    BY <2>1, RequestShape
  <2>3. Merged(c) \in Attributes
    BY <2>1, <2>2 DEF Merged, Attributes
  <2>4. PICK row \in Attributes : queue' = [queue EXCEPT ![req[c].q] = row] \/ queue' = queue
    BY <1>2, <2>3
  <2>5. quiet' \in [Clients -> BOOLEAN] => OthersStay(c) /\ ClientTypes' /\ ClientOK(c)'
    BY <1>2, AnswerMoves
  <2>6. pc'[c] = "idle"
    BY <1>2 DEF Answer, Inv, ClientTypes
  <2>7. CASE Exists(req[c].q)
    BY <1>2, <2>1, <2>3, <2>5, <2>6, <2>7, QueueWritten
  <2>8. CASE ~Exists(req[c].q)
    <3>1. queue' = queue
      BY <1>2, <2>8
    <3>2. QuietAfter(c) /\ quiet' \in [Clients -> BOOLEAN]
      BY <1>2, <2>1, <3>1, WritesLeave DEF Untouched
    <3>3. Leaves(c)
      BY <1>2, <2>5, <3>2 DEF Leaves, MessagesMove
    <3>4. DbInv'
      BY <1>2, <3>1 DEF Inv, DbInv, TagsAreOfQueues, Exists, CountsEveryReceive, Stored, MessageOK
    <3>5. StayStep /\ Orphans' = Orphans
      BY <1>2, <3>1 DEF StayStep, Orphans, Stored, Exists
    <3> QED
      BY <2>5, <3>2, <3>3, <3>4, <3>5, StepIsGood
  <2> QED
    BY <2>7, <2>8
<1> QED
  BY <1>1, <1>2 DEF SetQueueAttributes

\* A statement on resource_tags: it tags a queue only that is there.
LEMMA TagsWritten ==
    ASSUME Inv, UNCHANGED <<mix, queue, msg, drawn, handed, quiet>>, NEW c \in Clients, pc[c] # "idle",
           tagged' \subseteq tagged \/ (Exists(req[c].q) /\ tagged' = tagged \cup {req[c].q}),
           OthersStay(c), ClientTypes', ClientOK(c)'
    PROVE  GoodStep(c)
<1>1. req[c].q \in Queues
  BY RequestHere
<1>2. DbInv'
  BY <1>1 DEF Inv, DbInv, TagsAreOfQueues, Exists, CountsEveryReceive, Stored, MessageOK
<1>3. Leaves(c)
  BY DEF Leaves, MessagesMove, QuietAfter, Untouched
<1>4. StayStep /\ Orphans' = Orphans
  BY DEF StayStep, Orphans, Stored, Exists
<1> QED
  BY <1>2, <1>3, <1>4, StepIsGood

LEMMA TagStep ==
    ASSUME Inv, UNCHANGED mix, NEW c \in Clients, TagCreated(c) \/ TagQueue(c) \/ UntagQueue(c)
    PROVE  GoodStep(c)
<1>1. /\ pc[c] \in {"tag", "start"} /\ UNCHANGED <<queue, msg, drawn, handed, quiet>>
      /\ tagged' \subseteq tagged \/ (Exists(req[c].q) /\ tagged' = tagged \cup {req[c].q})
      /\ Answer(c) \/ Goto(c, "undo")
  BY DEF TagCreated, TagQueue, UntagQueue, TagCall, At
<1>2. quiet' \in [Clients -> BOOLEAN]
  BY <1>1 DEF Inv, ClientTypes
<1>3. CASE Answer(c)
  BY <1>1, <1>2, <1>3, AnswerMoves, TagsWritten
<1>4. CASE Goto(c, "undo")
  <2>1. ClientTypes' /\ OthersStay(c) /\ pc'[c] = "undo" /\ req'[c] = req[c]
    BY <1>2, <1>4, GotoMoves DEF Places
  <2>2. ClientOK(c)'
    BY <1>1, <2>1, RequestHere DEF ClientOK
  <2> QED
    BY <1>1, <2>1, <2>2, TagsWritten
<1> QED
  BY <1>1, <1>3, <1>4

LEMMA CreateQueueStep ==
    ASSUME Inv, UNCHANGED mix, NEW c \in Clients, CreateQueue(c)
    PROVE  GoodStep(c)
  BY InsertQueueStep, TagStep, DeleteQueueStep DEF CreateQueue

\* A new message is of a queue that was there, unless its delete fell in between.
LEMMA InsertMessageStep ==
    ASSUME Inv, UNCHANGED <<mix, queue, tagged, handed>>, NEW c \in Clients, NEW m \in Ids \ drawn,
           pc[c] = "insert", drawn' = drawn \cup {m},
           msg' = [msg EXCEPT ![m] =
                      [q |-> req[c].q, handle |-> NoHandle, visible |-> 0, count |-> 0, at |-> now[c]]],
           Answer(c), Writes(c)
    PROVE  GoodStep(c)
<1> DEFINE q == req[c].q
<1> DEFINE row == [q |-> q, handle |-> NoHandle, visible |-> 0, count |-> 0, at |-> now[c]]
<1>1. q \in Queues /\ q # Tombstone
  BY RequestHere DEF Inv, ClientOK
<1>2. row \in Rows /\ row # None
  BY <1>1, NoneAssumption DEF Rows, Inv, ClientTypes
<1>3. row.q = q /\ row.count = 0 /\ row.handle = NoHandle
  OBVIOUS
<1>4. msg[m] = None /\ handed[m] = 0 /\ msg' = [msg EXCEPT ![m] = row]
  BY DEF Inv, DbInv, MessageOK
<1> HIDE DEF row
<1>5. /\ msg' \in [Ids -> Rows \cup {None}] /\ msg'[m] = row
      /\ \A x \in Ids \ {m} : msg'[x] = msg[x]
  BY <1>2, <1>4 DEF Inv, DbInv
<1>6. DbInv'
  <2>1. CountsEveryReceive'
    BY <1>3, <1>4, <1>5 DEF Inv, DbInv, CountsEveryReceive, Stored
  <2>2. \A x \in Ids : MessageOK(x)'
    BY <1>3, <1>5 DEF Inv, DbInv, MessageOK
  <2> QED
    BY <1>5, <2>1, <2>2 DEF Inv, DbInv, TagsAreOfQueues, Exists
<1>7. \A p : p # q /\ p # Tombstone => Untouched(p)
  BY <1>3, <1>5 DEF Untouched
<1>8. QuietAfter(c) /\ quiet' \in [Clients -> BOOLEAN]
  BY <1>7, WritesLeave
<1>9. ClientTypes' /\ OthersStay(c) /\ ClientOK(c)'
  BY <1>8, AnswerMoves
<1>10. Leaves(c)
  BY <1>5, <1>8, <1>9 DEF Leaves, MessagesMove, Inv, DbInv
<1>11. StayStep
  BY <1>4, <1>5 DEF StayStep, Stored
<1>12. quiet[c] => Orphans' \subseteq Orphans
  <2> SUFFICES ASSUME quiet[c] PROVE Orphans' \subseteq Orphans
    OBVIOUS
  <2>1. queue[q] # None
    BY DEF Inv, ClientOK
  <2> QED
    BY <1>3, <1>5, <2>1 DEF Orphans, Stored, Exists
<1> QED
  BY <1>6, <1>9, <1>10, <1>11, <1>12, StepIsGood

LEMMA SendMessageStep ==
    ASSUME Inv, UNCHANGED mix, NEW c \in Clients, SendMessage(c)
    PROVE  GoodStep(c)
  BY AnsweredRead, GetStep, InsertMessageStep DEF SendMessage, At

\* What a SELECT returns is in the queue.
LEMMA SelectStep ==
    ASSUME Inv, UNCHANGED mix, NEW c \in Clients, Select(c)
    PROVE  GoodStep(c)
<1>1. /\ pc[c] = "select" /\ Reads /\ pc' = [pc EXCEPT ![c] = "stamp"]
      /\ UNCHANGED <<req, now, got, time>>
      /\ queue' = queue /\ msg' = msg /\ drawn' = drawn /\ quiet' = quiet
  BY DEF Select, At, Reads, db
<1>2. PICK T \in Oldest(c, Visible(c)) : picked' = [picked EXCEPT ![c] = T]
  BY DEF Select
<1>3. T \subseteq InQueue(req[c].q)
  BY DEF Oldest, Visible
<1>4. T \subseteq drawn /\ T \in SUBSET Ids /\ \A m \in T : msg[m].q = req[c].q
  BY <1>3 DEF InQueue, Stored, Inv, DbInv, MessageOK
<1>5. req[c] \in RequestsOf[mix]
  BY <1>1, RequestHere
<1>6. Moved(c, "stamp", req[c], now[c], got[c], T)
  BY <1>1, <1>2 DEF Moved, Inv, ClientTypes
<1>7. /\ "stamp" \in Places /\ now[c] \in 0..MaxTime /\ got[c] \in Attributes \cup {None}
      /\ quiet' \in [Clients -> BOOLEAN]
  BY <1>1 DEF Places, Inv, ClientTypes
<1>8. ClientTypes' /\ OthersStay(c) /\ pc'[c] = "stamp" /\ req'[c] = req[c] /\ picked'[c] = T
  <2>1. ClientTypes /\ T \in SUBSET Ids
    BY <1>4 DEF Inv
  <2>2. ClientTypes' /\ OthersStay(c) /\ pc'[c] = "stamp" /\ req'[c] = req[c] /\ picked'[c] = T
    BY <1>1, <1>5, <1>6, <1>7, <2>1, MovedTypes
  <2> QED
    BY <2>2
<1>9. ClientOK(c)'
  BY <1>1, <1>4, <1>5, <1>8 DEF ClientOK, PickedOK, Inv
<1> QED
  BY <1>1, <1>8, <1>9, ReadStep

\* An UPDATE counts the delivery in the same statement, or misses a message that no
\* queue has any more.
LEMMA StampStep ==
    ASSUME Inv, UNCHANGED mix, NEW c \in Clients, Stamp(c)
    PROVE  GoodStep(c)
<1> DEFINE q == req[c].q
<1>1. /\ pc[c] = "stamp" /\ req[c].op = "ReceiveMessage" /\ Writes(c)
      /\ UNCHANGED <<queue, tagged, drawn, time, pc, req, now, got>>
  BY DEF Stamp, At
<1>2. PICK m \in picked[c] :
          /\ msg' = IF StillThere(c, m) THEN [msg EXCEPT ![m] = Stamped(c, m)] ELSE msg
          /\ handed' = [handed EXCEPT ![m] = @ + 1]
          /\ picked' = [picked EXCEPT ![c] = @ \ {m}]
  BY DEF Stamp
<1>3. /\ q \in Queues /\ req[c] \in RequestsOf[mix] /\ req[c].timeout \in Int /\ now[c] \in Nat
      /\ m \in Ids /\ m \in drawn /\ PickedOK(c)
  <2>1. PickedOK(c)
    BY <1>1 DEF Inv, ClientOK
  <2>2. now[c] \in Nat /\ m \in Ids
    BY ConstantsAssumption DEF Inv, ClientTypes
  <2> QED
    BY <1>1, <2>1, <2>2, RequestHere, RequestShape DEF PickedOK
<1>4. /\ handed' \in [Ids -> Nat] /\ handed'[m] = handed[m] + 1 /\ handed[m] \in Nat
      /\ \A x \in Ids \ {m} : handed'[x] = handed[x]
  BY <1>2, <1>3 DEF Inv, DbInv
<1>5. /\ msg' \in [Ids -> Rows \cup {None}]
      /\ \A x \in Ids \ {m} : msg'[x] = msg[x]
      /\ \/ msg'[m] = msg[m] /\ (msg[m] = None \/ msg[m].q = Tombstone)
         \/ /\ msg[m] # None /\ msg'[m] # None /\ msg[m].q = q /\ msg'[m].q = q
            /\ msg'[m].count = msg[m].count + 1 /\ msg'[m].handle = m
  <2>1. CASE StillThere(c, m)
    <3>1. msg[m] # None /\ msg[m].q = q /\ msg[m] \in Rows
      BY <1>3, <2>1 DEF StillThere, InQueue, Stored, Inv, DbInv
    <3>2. Stamped(c, m) = [q |-> q, handle |-> m, visible |-> now[c] + req[c].timeout,
                           count |-> msg[m].count + 1, at |-> msg[m].at]
      <4> DEFINE r == msg[m]
      <4>1. r = [q |-> r.q, handle |-> r.handle, visible |-> r.visible, count |-> r.count, at |-> r.at]
        BY <3>1 DEF Rows
      <4>2. Stamped(c, m) =
                [r EXCEPT !.handle = m, !.visible = now[c] + req[c].timeout, !.count = r.count + 1]
        BY <4>1 DEF Stamped, ReceiptHandle
      <4> QED
        BY <3>1, <4>1, <4>2
    <3>3. /\ Stamped(c, m) \in Rows /\ Stamped(c, m).q = q
          /\ Stamped(c, m).count = msg[m].count + 1 /\ Stamped(c, m).handle = m
      <4>1. now[c] + req[c].timeout \in Int
        BY <1>3
      <4>2. msg[m].count \in Nat /\ msg[m].count + 1 \in Nat /\ msg[m].at \in 0..MaxTime
        BY <3>1 DEF Rows
      <4> QED
        BY <1>3, <3>2, <4>1, <4>2 DEF Rows
    <3>4. msg' = [msg EXCEPT ![m] = Stamped(c, m)]
      BY <1>2, <2>1
    <3>5. msg \in [Ids -> Rows \cup {None}]
      BY DEF Inv, DbInv
    <3>6. Stamped(c, m) # None
      BY <3>3, NoneAssumption
    <3> QED
      BY <1>3, <3>1, <3>3, <3>4, <3>5, <3>6
  <2>2. CASE ~StillThere(c, m)
    <3>1. msg' = msg
      BY <1>2, <2>2
    <3>2. msg[m] = None \/ msg[m].q = Tombstone
      BY <1>3, <2>2 DEF StillThere, InQueue, Stored, PickedOK
    <3> QED
      BY <3>1, <3>2 DEF Inv, DbInv
  <2> QED
    BY <2>1, <2>2
<1>6. DbInv'
  <2>1. CountsEveryReceive'
    BY <1>3, <1>4, <1>5 DEF Inv, DbInv, CountsEveryReceive, Stored
  <2>2. \A x \in Ids : MessageOK(x)'
    BY <1>1, <1>3, <1>4, <1>5 DEF Inv, DbInv, MessageOK
  <2> QED
    BY <1>1, <1>4, <1>5, <2>1, <2>2 DEF Inv, DbInv, TagsAreOfQueues, Exists
<1>7. \A p : p # q /\ p # Tombstone => Untouched(p)
  BY <1>1, <1>5 DEF Untouched
<1>8. QuietAfter(c) /\ quiet' \in [Clients -> BOOLEAN]
  BY <1>1, <1>7, WritesLeave
<1>9. Moved(c, "stamp", req[c], now[c], got[c], picked[c] \ {m}) /\ time' = time
  BY <1>1, <1>2 DEF Moved, Inv, ClientTypes
<1>10. /\ "stamp" \in Places /\ now[c] \in 0..MaxTime /\ got[c] \in Attributes \cup {None}
       /\ picked[c] \ {m} \in SUBSET Ids
  BY DEF Places, Inv, ClientTypes
<1>11. ClientTypes' /\ OthersStay(c) /\ pc'[c] = "stamp" /\ req'[c] = req[c] /\ picked'[c] = picked[c] \ {m}
  BY <1>3, <1>8, <1>9, <1>10, MovedTypes DEF Inv
<1>12. ClientOK(c)'
  <2>1. picked'[c] \subseteq drawn' /\ picked'[c] \subseteq Ids
    BY <1>1, <1>3, <1>10, <1>11 DEF PickedOK
  <2>2. \A x \in picked'[c] : msg'[x] = None \/ msg'[x].q = q \/ msg'[x].q = Tombstone
    BY <1>3, <1>5, <1>11, <2>1 DEF PickedOK
  <2>3. PickedOK(c)'
    BY <1>11, <2>1, <2>2 DEF PickedOK
  <2> QED
    BY <1>1, <1>3, <1>11, <2>3 DEF ClientOK
<1>13. Leaves(c)
  BY <1>1, <1>5, <1>8, <1>11 DEF Leaves, MessagesMove, Inv, DbInv
<1>14. StayStep
  <2>1. RequestOn(c, q)
    <3>1. m \in picked[c] /\ m \notin picked'[c]
      BY <1>2, <1>11
    <3> QED
      BY <1>1, <3>1 DEF RequestOn, Moves
  <2>2. \A x \in Stored : msg'[x] # None /\ msg'[x].q = msg[x].q /\ (msg'[x] # msg[x] => msg[x].q = q)
    BY <1>3, <1>5 DEF Stored
  <2> QED
    BY <2>1, <2>2 DEF StayStep
<1>15. Orphans' \subseteq Orphans
  BY <1>1, <1>5 DEF Orphans, Stored, Exists
<1> QED
  BY <1>6, <1>11, <1>12, <1>13, <1>14, <1>15, StepIsGood

LEMMA ReceiveMessageStep ==
    ASSUME Inv, UNCHANGED mix, NEW c \in Clients, ReceiveMessage(c)
    PROVE  GoodStep(c)
  BY GetStep, SelectStep, StampStep, AnsweredRead DEF ReceiveMessage, Handed

\* A message goes by a handle it was handed out with.
LEMMA DeleteMessageStep ==
    ASSUME Inv, UNCHANGED mix, NEW c \in Clients, DeleteMessage(c)
    PROVE  GoodStep(c)
<1> DEFINE q == req[c].q
<1> DEFINE gone == {m \in InQueue(q) : Matches(c, m)}
<1>1. /\ pc[c] = "start" /\ req[c].op = "DeleteMessage" /\ Answer(c)
      /\ msg' = [m \in Ids |-> IF m \in gone THEN None ELSE msg[m]]
      /\ IF gone = {} THEN UNCHANGED quiet ELSE Writes(c)
      /\ UNCHANGED <<queue, tagged, drawn, handed>>
  BY DEF DeleteMessage, At
<1>2. \A m \in gone : msg[m] # None /\ msg[m].q = q /\ msg[m].handle = req[c].handle
  BY DEF InQueue, Stored, Matches
<1>3. RequestOn(c, q)
  BY <1>1 DEF RequestOn, Moves, Answer, Inv, ClientTypes
<1> HIDE DEF gone
<1>4. \A m \in Ids : msg'[m] = None \/ msg'[m] = msg[m]
  BY <1>1
<1>5. DbInv'
  <2>1. msg' \in [Ids -> Rows \cup {None}]
    BY <1>1 DEF Inv, DbInv
  <2>2. CountsEveryReceive' /\ \A m \in Ids : MessageOK(m)'
    BY <1>1, <1>4 DEF Inv, DbInv, CountsEveryReceive, Stored, MessageOK
  <2> QED
    BY <1>1, <2>1, <2>2 DEF Inv, DbInv, TagsAreOfQueues, Exists
<1>6. \A p : Untouched(p)
  BY <1>1, <1>4 DEF Untouched
<1>7. QuietAfter(c) /\ quiet' \in [Clients -> BOOLEAN]
  <2>1. CASE Writes(c)
    BY <1>1, <1>6, <2>1, WritesLeave
  <2>2. CASE UNCHANGED quiet
    BY <1>6, <2>2 DEF QuietAfter, Inv, ClientTypes
  <2> QED
    BY <1>1, <2>1, <2>2
<1>8. ClientTypes' /\ OthersStay(c) /\ ClientOK(c)'
  BY <1>1, <1>7, AnswerMoves
<1>9. Leaves(c)
  BY <1>1, <1>4, <1>7, <1>8 DEF Leaves, MessagesMove, Inv, DbInv
<1>10. StayStep
  <2>1. ASSUME NEW m \in Stored
        PROVE  /\ msg'[m] # msg[m] => msg'[m] = None /\ msg[m].q = q
               /\ msg'[m] = None => handed[m] > 0 \/ req[c].handle = NoHandle
    <3>1. m \in Ids /\ msg[m] # None /\ MessageOK(m)
      BY DEF Stored, Inv, DbInv
    <3>2. msg'[m] # msg[m] \/ msg'[m] = None => m \in gone
      BY <1>1, <3>1
    <3> QED
      BY <1>2, <1>4, <3>1, <3>2 DEF MessageOK
  <2>2. At(c, "start", "DeleteMessage")
    BY <1>1 DEF At
  <2> QED
    BY <1>3, <2>1, <2>2 DEF StayStep
<1>11. Orphans' \subseteq Orphans
  BY <1>1, <1>4 DEF Orphans, Stored, Exists
<1> QED
  BY <1>5, <1>8, <1>9, <1>10, <1>11, StepIsGood

LEMMA SendStep ==
    ASSUME Inv, UNCHANGED mix, NEW c \in Clients, NEW r \in RequestsOf[mix], Send(c, r)
    PROVE  GoodStep(c)
<1>1. /\ pc[c] = "idle" /\ Moved(c, "start", r, time, None, {}) /\ time' = time
      /\ queue' = queue /\ tagged' = tagged /\ msg' = msg /\ drawn' = drawn /\ handed' = handed
      /\ quiet' = [quiet EXCEPT ![c] = TRUE]
  BY DEF Send, Moved, db
<1>2. /\ quiet' \in [Clients -> BOOLEAN] /\ "start" \in Places /\ time \in 0..MaxTime /\ {} \in SUBSET Ids
      /\ \A d \in Clients \ {c} : quiet'[d] = quiet[d]
  BY <1>1 DEF Places, Inv, ClientTypes
<1>3. ClientTypes' /\ OthersStay(c) /\ pc'[c] = "start" /\ req'[c] = r
  BY <1>1, <1>2, MovedTypes DEF Inv
<1>4. ClientOK(c)'
  BY <1>3 DEF ClientOK
<1>5. DbInv'
  BY <1>1 DEF Inv, DbInv, TagsAreOfQueues, CountsEveryReceive, MessageOK, Stored, Exists
<1>6. Leaves(c)
  BY <1>1, <1>2, <1>3 DEF Leaves, MessagesMove, QuietAfter, Untouched
<1>7. StayStep /\ Orphans' = Orphans
  BY <1>1 DEF StayStep, Orphans, Stored, Exists
<1> QED
  BY <1>3, <1>4, <1>5, <1>6, <1>7, StepIsGood

LEMMA RequestStep ==
    ASSUME Inv, UNCHANGED mix, NEW c \in Clients, Request(c) \/ \E r \in RequestsOf[mix] : Send(c, r)
    PROVE  GoodStep(c)
  BY CreateQueueStep, DeleteQueueStep, SetAttributesStep, TagStep, SendMessageStep, ReceiveMessageStep,
     DeleteMessageStep, SendStep DEF Request, DeleteQueue

\* What moves only the clock keeps the invariant.
LEMMA StillInv ==
    ASSUME Inv, UNCHANGED <<db, mix, pc, req, got, picked, quiet>>,
           now' \in [Clients -> 0..MaxTime], time' \in 0..MaxTime
    PROVE  Inv'
<1>1. DbInv'
  BY DEF Inv, DbInv, TagsAreOfQueues, CountsEveryReceive, MessageOK, Stored, Exists, db
<1>2. ClientTypes'
  BY DEF Inv, ClientTypes
<1>3. \A c \in Clients : ClientOK(c)'
  BY DEF Inv, ClientOK, PickedOK, db
<1> QED
  BY <1>1, <1>2, <1>3 DEF Inv
-----------------------------------------------------------------------------
(* The theorems. *)

LEMMA InitInv == Init => Inv
<1> SUFFICES ASSUME Init PROVE Inv
  OBVIOUS
<1>1. \A m \in Ids : msg[m] = None /\ handed[m] = 0
  BY DEF Init
<1>2. DbInv
  BY <1>1, ConstantsAssumption DEF Init, DbInv, TagsAreOfQueues, CountsEveryReceive, MessageOK, Stored
<1>3. ClientTypes
  BY ConstantsAssumption DEF Init, ClientTypes, Places
<1>4. \A c \in Clients : ClientOK(c)
  BY DEF Init, ClientOK
<1> QED
  BY <1>2, <1>3, <1>4 DEF Inv

LEMMA NextInv ==
    ASSUME Inv, [Next]_vars
    PROVE  /\ Inv'
           /\ UNCHANGED vars \/ (StayStep /\ \A c \in Clients : Moves(c) /\ quiet[c] => Orphans' \subseteq Orphans)
<1>1. CASE UNCHANGED vars
  BY <1>1, StillInv DEF vars, db, Inv, ClientTypes
<1>2. CASE Tick /\ UNCHANGED mix
  <2>1. time' \in 0..MaxTime
    BY <1>2, ConstantsAssumption DEF Tick, Inv, ClientTypes
  <2>2. Inv'
    BY <1>2, <2>1, StillInv DEF Tick, Inv, ClientTypes
  <2>3. StayStep /\ \A c \in Clients : ~Moves(c)
    BY <1>2 DEF Tick, db, StayStep, Stored, Moves
  <2> QED
    BY <2>2, <2>3
<1>3. CASE UNCHANGED mix /\ \E c \in Clients : Request(c) \/ \E r \in RequestsOf[mix] : Send(c, r)
  <2>1. PICK c \in Clients : Request(c) \/ \E r \in RequestsOf[mix] : Send(c, r)
    BY <1>3
  <2>2. GoodStep(c)
    BY <1>3, <2>1, RequestStep
  <2>3. \A d \in Clients \ {c} : ~Moves(d)
    BY <2>2 DEF GoodStep, OthersStay, Moves
  <2> QED
    BY <2>2, <2>3 DEF GoodStep
<1> QED
  BY <1>1, <1>2, <1>3 DEF Next

LEMMA Invariance == Spec => []Inv
  BY InitInv, NextInv, PTL DEF Spec

\* In any interleaving no tag is left of a queue that is gone, and a message still in a
\* queue counts each of its deliveries, those of overlapping receives included.
THEOREM QueuesStaySound == Spec => []QueuesAreSound
<1>1. Inv => QueuesAreSound
  BY DEF Inv, DbInv, ClientTypes, QueuesAreSound, TypeOK
<1> QED
  BY <1>1, Invariance, PTL

\* A message leaves only by a handle handed out or a DeleteMessage with the empty one,
\* and the audit trail is changed only by who names the tombstone: a queue may have been
\* created by its name, and then be received from.
THEOREM TrailStays == Spec => MessagesStay
<1>1. Inv /\ [Next]_vars =>
          [\A m \in Stored :
              /\ msg'[m] = None =>
                    \/ handed[m] > 0
                    \/ \E c \in Clients : At(c, "start", "DeleteMessage") /\ req[c].handle = NoHandle
              /\ msg[m].q = Tombstone =>
                    /\ msg'[m] # msg[m] => \E c \in Clients : RequestOn(c, Tombstone)
                    /\ msg'[m] # None => msg'[m].q = Tombstone]_vars
  BY NextInv DEF StayStep
<1> QED
  BY <1>1, Invariance, PTL DEF Spec, MessagesStay

\* A delete, its rebadge or a send leaves a message without its queue only when another
\* request's write to that queue fell into it.
THEOREM QuietOrphansNothing == Spec => QuietRequestsOrphanNothing
<1>1. Inv /\ [Next]_vars => [\A c \in Clients : Moves(c) /\ quiet[c] => Orphans' \subseteq Orphans]_vars
  BY NextInv
<1> QED
  BY <1>1, Invariance, PTL DEF Spec, QuietRequestsOrphanNothing
-----------------------------------------------------------------------------
(* What a receive has picked. *)

\* A quiet receive's messages are as it selected them.
PickInv(c) ==
    pc[c] = "stamp" /\ quiet[c] => \A m \in picked[c] : m \in InQueue(req[c].q) /\ msg[m].visible <= now[c]

PicksInv == \A c \in Clients : PickInv(c)

\* A step changes messages of its own queue, and then nobody there stays quiet; only a
\* receive's SELECT and UPDATE pick messages and let them go.
Apart(c) ==
    /\ \A d \in Clients \ {c} : now'[d] = now[d] /\ (quiet'[d] => quiet[d])
    /\ \A m \in Ids : msg'[m] # msg[m] =>
          /\ msg[m] = None \/ msg[m].q = req[c].q
          /\ \A d \in Clients \ {c} : quiet'[d] => pc[d] = "idle" \/ req[d].q # req[c].q
    /\ Select(c) \/ Stamp(c) \/ (pc'[c] # "stamp" /\ (pc[c] = "stamp" => picked'[c] = picked[c]))

LEMMA AnswerApart ==
    ASSUME Inv, NEW c \in Clients, Answer(c) \/ \E p \in Places : Goto(c, p)
    PROVE  /\ \A d \in Clients \ {c} : now'[d] = now[d]
           /\ Answer(c) => pc'[c] = "idle"
           /\ \A p \in Places : Goto(c, p) => pc'[c] = p
           /\ picked'[c] = picked[c]
  BY DEF Answer, Goto, Inv, ClientTypes

LEMMA QuietApart ==
    ASSUME Inv, NEW c \in Clients, Reads \/ UNCHANGED quiet \/ Writes(c)
    PROVE  \A d \in Clients \ {c} : quiet'[d] => quiet[d]
  BY DEF Reads, Writes

LEMMA WritesApart ==
    ASSUME Inv, NEW c \in Clients, Writes(c)
    PROVE  \A d \in Clients \ {c} : quiet'[d] => pc[d] = "idle" \/ req[d].q # req[c].q
  BY DEF Writes

\* A request's statement that changes no message and picks none.
LEMMA SameApart ==
    ASSUME Inv, NEW c \in Clients, Reads \/ UNCHANGED quiet \/ Writes(c), msg' = msg,
           Answer(c) \/ \E p \in Places \ {"stamp"} : Goto(c, p)
    PROVE  Apart(c)
<1>1. /\ \A d \in Clients \ {c} : now'[d] = now[d] /\ (quiet'[d] => quiet[d])
      /\ pc'[c] # "stamp" /\ picked'[c] = picked[c]
  BY AnswerApart, QuietApart
<1> QED
  BY <1>1 DEF Apart

LEMMA GetApart ==
    ASSUME Inv, NEW c \in Clients, NEW place, NEW o,
           NEW next \in {"rebadge", "insert", "select", "write"}, GetSQSQueue(c, place, o, next)
    PROVE  Apart(c)
<1>1. Reads /\ msg' = msg
  BY DEF GetSQSQueue, Reads, db
<1>2. CASE Answer(c)
  BY <1>1, <1>2, SameApart
<1>3. CASE pc' = [pc EXCEPT ![c] = next] /\ now' = now /\ picked' = picked
  <2>1. pc'[c] # "stamp"
    BY <1>3 DEF Inv, ClientTypes
  <2> QED
    BY <1>1, <1>3, <2>1, QuietApart DEF Apart
<1> QED
  BY <1>2, <1>3 DEF GetSQSQueue

LEMMA DeleteQueueApart ==
    ASSUME Inv, NEW c \in Clients, NEW place, NEW o, DeleteSQSQueue(c, place, o)
    PROVE  Apart(c)
<1>1. CASE Answer(c) /\ Reads
  BY <1>1, SameApart DEF Reads, db
<1>2. CASE GetSQSQueue(c, place, o, "rebadge")
  BY <1>2, GetApart
<1>3. CASE Rebadge(c, o)
  <2>1. /\ Goto(c, "drop") /\ Writes(c) /\ "drop" \in Places
        /\ \A m \in Ids : msg'[m] # msg[m] => m \in InQueue(req[c].q)
    BY <1>3 DEF Rebadge, Places
  <2> QED
    BY <2>1, AnswerApart, QuietApart, WritesApart DEF Apart, InQueue
<1>4. CASE Drop(c, o)
  BY <1>4, SameApart DEF Drop
<1> QED
  BY <1>1, <1>2, <1>3, <1>4 DEF DeleteSQSQueue

LEMMA CreateQueueApart ==
    ASSUME Inv, NEW c \in Clients, CreateQueue(c)
    PROVE  Apart(c)
<1>1. "tag" \in Places \ {"stamp"} /\ "undo" \in Places \ {"stamp"}
  BY DEF Places
<1>2. CASE InsertQueue(c)
  BY <1>1, <1>2, SameApart DEF InsertQueue, Reads, db
<1>3. CASE TagCreated(c)
  BY <1>1, <1>3, SameApart DEF TagCreated
<1> QED
  BY <1>2, <1>3, DeleteQueueApart DEF CreateQueue

LEMMA OtherCallsApart ==
    ASSUME Inv, NEW c \in Clients, SetQueueAttributes(c) \/ TagQueue(c) \/ UntagQueue(c)
    PROVE  Apart(c)
<1>1. CASE SetQueueAttributes(c)
  BY <1>1, GetApart, SameApart DEF SetQueueAttributes
<1>2. CASE TagQueue(c) \/ UntagQueue(c)
  BY <1>2, SameApart DEF TagQueue, UntagQueue, TagCall
<1> QED
  BY <1>1, <1>2

LEMMA SendMessageApart ==
    ASSUME Inv, NEW c \in Clients, SendMessage(c)
    PROVE  Apart(c)
<1>1. CASE Answer(c) /\ Reads
  BY <1>1, SameApart DEF Reads, db
<1>2. CASE GetSQSQueue(c, "start", "SendMessage", "insert")
  BY <1>2, GetApart
<1>3. ASSUME NEW m \in Ids \ drawn, NEW r, msg' = [msg EXCEPT ![m] = r], Answer(c), Writes(c)
      PROVE  Apart(c)
  <2>1. msg[m] = None /\ \A x \in Ids : msg'[x] # msg[x] => x = m
    BY <1>3 DEF Inv, DbInv, MessageOK
  <2> QED
    BY <1>3, <2>1, AnswerApart, QuietApart, WritesApart DEF Apart
<1> QED
  BY <1>1, <1>2, <1>3 DEF SendMessage

LEMMA ReceiveMessageApart ==
    ASSUME Inv, NEW c \in Clients, ReceiveMessage(c)
    PROVE  Apart(c)
<1>1. CASE GetSQSQueue(c, "start", "ReceiveMessage", "select")
  BY <1>1, GetApart
<1>2. CASE Select(c)
  BY <1>2, QuietApart DEF Apart, Select, Reads, db
<1>3. CASE Stamp(c)
  <2>1. PICK m \in picked[c] : msg' = IF StillThere(c, m) THEN [msg EXCEPT ![m] = Stamped(c, m)] ELSE msg
    BY <1>3 DEF Stamp
  <2>2. \A x \in Ids : msg'[x] # msg[x] => msg[x].q = req[c].q
    BY <2>1 DEF StillThere, InQueue
  <2> QED
    BY <1>3, <2>2, QuietApart, WritesApart DEF Apart, Stamp
<1>4. CASE Handed(c)
  BY <1>4, SameApart DEF Handed, Reads, db
<1> QED
  BY <1>1, <1>2, <1>3, <1>4 DEF ReceiveMessage

LEMMA DeleteMessageApart ==
    ASSUME Inv, NEW c \in Clients, DeleteMessage(c)
    PROVE  Apart(c)
<1> DEFINE gone == {m \in InQueue(req[c].q) : Matches(c, m)}
<1>1. /\ Answer(c) /\ (IF gone = {} THEN UNCHANGED quiet ELSE Writes(c))
      /\ \A m \in Ids : msg'[m] # msg[m] => m \in gone
  BY DEF DeleteMessage
<1>2. \A m \in gone : msg[m].q = req[c].q
  BY DEF InQueue
<1> HIDE DEF gone
<1>3. \A m \in Ids : msg'[m] # msg[m] => Writes(c)
  BY <1>1
<1> QED
  BY <1>1, <1>2, <1>3, AnswerApart, QuietApart, WritesApart DEF Apart

LEMMA RequestApart ==
    ASSUME Inv, NEW c \in Clients, Request(c) \/ \E r \in RequestsOf[mix] : Send(c, r)
    PROVE  Apart(c)
<1>1. CASE \E r \in RequestsOf[mix] : Send(c, r)
  BY <1>1 DEF Send, Apart, db, Inv, ClientTypes
<1> QED
  BY <1>1, CreateQueueApart, DeleteQueueApart, OtherCallsApart, SendMessageApart, ReceiveMessageApart,
     DeleteMessageApart DEF Request, DeleteQueue

\* A receive that is quiet keeps what it picked, whatever step is taken.
LEMMA PicksStay ==
    ASSUME Inv, PicksInv, NEW c \in Clients, GoodStep(c), Apart(c)
    PROVE  PicksInv'
<1>1. ASSUME NEW d \in Clients \ {c}, pc'[d] = "stamp", quiet'[d], NEW m \in picked'[d]
      PROVE  m \in Ids /\ msg'[m] # None /\ msg'[m].q = req'[d].q /\ msg'[m].visible <= now'[d]
  <2>1. /\ pc[d] = "stamp" /\ req'[d] = req[d] /\ m \in picked[d] /\ now'[d] = now[d] /\ quiet[d]
    BY <1>1 DEF GoodStep, OthersStay, Apart
  <2>2. m \in InQueue(req[d].q) /\ msg[m].visible <= now[d] /\ m \in Ids /\ msg[m] # None /\ msg[m].q = req[d].q
    BY <2>1 DEF PicksInv, PickInv, InQueue, Stored
  <2>3. msg'[m] = msg[m]
    BY <1>1, <2>1, <2>2 DEF Apart
  <2> QED
    BY <2>1, <2>2, <2>3
<1>2. ASSUME Select(c), NEW m \in picked'[c]
      PROVE  m \in Ids /\ msg'[m] # None /\ msg'[m].q = req'[c].q /\ msg'[m].visible <= now'[c]
  <2>1. PICK T \in Oldest(c, Visible(c)) : picked' = [picked EXCEPT ![c] = T]
    BY <1>2 DEF Select
  <2>2. picked'[c] \subseteq Visible(c) /\ msg' = msg /\ req' = req /\ now' = now
    BY <1>2, <2>1 DEF Select, Oldest, Reads, db, Inv, ClientTypes
  <2>3. m \in Ids /\ msg[m] # None /\ msg[m].q = req[c].q /\ msg[m].visible <= now[c]
    BY <1>2, <2>2 DEF Visible, InQueue, Stored
  <2> QED
    BY <2>2, <2>3
<1>3. ASSUME Stamp(c), quiet'[c], NEW m \in picked'[c]
      PROVE  m \in Ids /\ msg'[m] # None /\ msg'[m].q = req'[c].q /\ msg'[m].visible <= now'[c]
  <2>1. PICK x \in picked[c] :
            /\ msg' = IF StillThere(c, x) THEN [msg EXCEPT ![x] = Stamped(c, x)] ELSE msg
            /\ picked' = [picked EXCEPT ![c] = @ \ {x}]
    BY <1>3 DEF Stamp
  <2>2. pc[c] = "stamp" /\ pc' = pc /\ req' = req /\ now' = now /\ Writes(c)
    BY <1>3 DEF Stamp, At
  <2>3. quiet[c]
    BY <1>3, <2>2 DEF Writes
  <2>4. m \in picked[c] /\ m # x
    BY <1>3, <2>1 DEF Inv, ClientTypes
  <2>5. msg'[m] = msg[m]
    BY <2>1, <2>4
  <2>6. m \in Ids /\ msg[m] # None /\ msg[m].q = req[c].q /\ msg[m].visible <= now[c]
    BY <2>2, <2>3, <2>4 DEF PicksInv, PickInv, InQueue, Stored
  <2> QED
    BY <2>2, <2>5, <2>6
<1>4. ASSUME pc'[c] = "stamp", quiet'[c], NEW m \in picked'[c]
      PROVE  m \in Ids /\ msg'[m] # None /\ msg'[m].q = req'[c].q /\ msg'[m].visible <= now'[c]
  BY <1>2, <1>3, <1>4 DEF Apart
<1>5. \A d \in Clients : pc'[d] = "stamp" /\ quiet'[d] => \A m \in picked'[d] :
          m \in Ids /\ msg'[m] # None /\ msg'[m].q = req'[d].q /\ msg'[m].visible <= now'[d]
  BY <1>1, <1>4
<1> QED
  BY <1>5 DEF PicksInv, PickInv, InQueue, Stored

\* What a quiet receive hands out was hidden from nobody, and is hidden by it.
LEMMA StampHides ==
    ASSUME Inv, NEW c \in Clients, PickInv(c), Apart(c), pc[c] = "stamp", quiet[c],
           NEW m \in Ids, m \in picked[c] \ picked'[c]
    PROVE  /\ m \in InQueue(req[c].q) /\ msg[m].visible <= now[c]
           /\ req[c].timeout > 0 => msg'[m].visible > now[c]
<1>1. m \in InQueue(req[c].q) /\ msg[m].visible <= now[c] /\ msg[m] \in Rows
  BY DEF PickInv, InQueue, Stored, Inv, DbInv
<1>2. Stamp(c)
  BY DEF Apart, Select, At
<1>3. PICK x \in picked[c] :
          /\ msg' = IF StillThere(c, x) THEN [msg EXCEPT ![x] = Stamped(c, x)] ELSE msg
          /\ picked' = [picked EXCEPT ![c] = @ \ {x}]
  BY <1>2 DEF Stamp
<1>4. m = x
  BY <1>3 DEF Inv, ClientTypes
<1>5. msg'[m] = Stamped(c, m)
  BY <1>1, <1>3, <1>4 DEF StillThere, Inv, DbInv
<1>6. Stamped(c, m).visible = now[c] + req[c].timeout
  BY <1>1 DEF Stamped, Rows
<1>7. now[c] \in Nat /\ req[c].timeout \in Int
  <2>1. req[c].op = "ReceiveMessage"
    BY <1>2 DEF Stamp, At
  <2> QED
    BY <2>1, RequestHere, RequestShape, ConstantsAssumption DEF Inv, ClientTypes
<1> QED
  BY <1>1, <1>5, <1>6, <1>7

HidesWhatItHands ==
    \A c \in Clients, m \in Ids :
        pc[c] = "stamp" /\ m \in picked[c] \ picked'[c] /\ quiet[c] =>
            /\ m \in InQueue(req[c].q) /\ msg[m].visible <= now[c]
            /\ req[c].timeout > 0 => msg'[m].visible > now[c]

LEMMA NextPicks ==
    ASSUME Inv, PicksInv, [Next]_vars
    PROVE  PicksInv' /\ HidesWhatItHands
<1>1. CASE UNCHANGED vars \/ Tick
  BY <1>1 DEF vars, db, Tick, PicksInv, PickInv, InQueue, Stored, HidesWhatItHands
<1>2. CASE UNCHANGED mix /\ \E c \in Clients : Request(c) \/ \E r \in RequestsOf[mix] : Send(c, r)
  <2>1. PICK c \in Clients : Request(c) \/ \E r \in RequestsOf[mix] : Send(c, r)
    BY <1>2
  <2>2. GoodStep(c) /\ Apart(c)
    BY <1>2, <2>1, RequestStep, RequestApart
  <2>3. \A d \in Clients \ {c} : picked'[d] = picked[d]
    BY <2>2 DEF GoodStep, OthersStay
  <2>4. HidesWhatItHands
    BY <2>2, <2>3, StampHides DEF PicksInv, HidesWhatItHands
  <2> QED
    BY <2>2, <2>4, PicksStay
<1> QED
  BY <1>1, <1>2 DEF Next

\* A receive that nobody else's writes overlap hands out each message once while it is
\* hidden: of its queue, visible as it was selected, and hidden by the UPDATE for as
\* long as it asked.
THEOREM QuietReceiveHides == Spec => QuietReceiveHidesWhatItHands
<1>1. Init => PicksInv
  BY DEF Init, PicksInv, PickInv
<1>2. Inv /\ PicksInv /\ [Next]_vars => PicksInv'
  BY NextPicks
<1>3. Inv /\ PicksInv /\ [Next]_vars =>
          [\A c \in Clients, m \in Ids :
              pc[c] = "stamp" /\ m \in picked[c] \ picked'[c] /\ quiet[c] =>
                 /\ m \in InQueue(req[c].q) /\ msg[m].visible <= now[c]
                 /\ req[c].timeout > 0 => msg'[m].visible > now[c]]_vars
  BY NextPicks DEF HidesWhatItHands
<1> QED
  BY <1>1, <1>2, <1>3, Invariance, PTL DEF Spec, QuietReceiveHidesWhatItHands
=============================================================================

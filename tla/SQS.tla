-------------------------------- MODULE SQS --------------------------------
(***************************************************************************)
(* SQS in one account and region: queues with their attributes and tags,   *)
(* the messages in them, and the requests that change either, each taken   *)
(* one SQL statement at a time beside a clock of whole seconds.            *)
(*                                                                         *)
(* Messages have no foreign key to their queue: a queue's delete rebadges  *)
(* them to the tombstone, a name that CreateQueue does not refuse.         *)
(***************************************************************************)
EXTENDS Integers, FiniteSets

CONSTANTS
    Clients,   \* the requests that may be in flight at once
    Queues,    \* queue names, the tombstone's included
    Tombstone, \* SQSDeletedQueueTombstone
    Fifo,      \* the names that end in .fifo
    Attrs,     \* attributes beside FifoQueue
    Settable,  \* the attributes SetQueueAttributes is asked to set
    Ids,       \* message ids, each drawn once
    Handles,   \* the receipt handles DeleteMessage is asked with
    NoHandle,  \* the empty handle of a message not yet received
    Mixes,     \* operations clients send, the names created and whether with tags,
               \* how many messages, how many a receive asks for and for how long
               \* (0 is 1 message, and 30 seconds, by the time the database is asked)
    MaxTime,   \* the last second
    None       \* no row

ASSUME ConstantsAssumption ==
    /\ Tombstone \in Queues /\ Fifo \subseteq Queues
    /\ "FifoQueue" \notin Attrs /\ Settable \subseteq Attrs \cup {"FifoQueue"}
    /\ NoHandle \notin Ids /\ Handles \subseteq Ids \cup {NoHandle}
    /\ MaxTime \in Nat
    /\ \A m \in Mixes :
          /\ m.creates \subseteq Queues /\ m.tags \subseteq BOOLEAN
          /\ m.sends \in 0..Cardinality(Ids) /\ m.most \in Nat
          /\ m.limits \subseteq Int \ {0} /\ m.timeouts \subseteq Int \ {0}

AllAttrs   == Attrs \cup {"FifoQueue"}
Attributes == [AllAttrs -> BOOLEAN]

RequestsOf == [m \in Mixes |->
    UNION { [op: {"CreateQueue"} \cap m.ops, q: m.creates, fifo: BOOLEAN, tags: m.tags],
            [op: {"DeleteQueue", "SendMessage", "TagQueue", "UntagQueue"} \cap m.ops, q: Queues],
            [op: {"ReceiveMessage"} \cap m.ops, q: Queues, max: m.limits, timeout: m.timeouts],
            [op: {"DeleteMessage"} \cap m.ops, q: Queues, handle: Handles],
            [op: {"SetQueueAttributes"} \cap m.ops, q: Queues, attr: Settable, val: BOOLEAN] }]

Rows == [q: Queues, handle: Ids \cup {NoHandle}, visible: Int, count: Nat,
         at: 0..MaxTime]

\* None is no row.
ASSUME NoneAssumption == None \notin Attributes \cup Rows

VARIABLES
    queue,   \* sqs_queues: name -> its attributes or None
    tagged,  \* resource_tags: the queues that carry a tag
    msg,     \* sqs_messages: id -> its row or None
    drawn,   \* the message ids drawn so far
    handed,  \* how often each message was handed to a receiver
    time,    \* the clock, in seconds
    mix,     \* which of Mixes this behaviour's clients send
    pc, req, \* each client's place and request
    now,     \* the second its request read
    got,     \* the attributes it read
    picked,  \* the messages its SELECT returned and it has not stamped yet
    quiet    \* no other request has written to its queue since it began

db   == <<queue, tagged, msg, drawn, handed>>
vars == <<queue, tagged, msg, drawn, handed, time, mix, pc, req, now, got, picked, quiet>>

Places  == {"idle", "start", "tag", "undo", "rebadge", "drop", "insert", "select", "stamp", "write"}

Init ==
    /\ queue = [q \in Queues |-> None]
    /\ tagged = {}
    /\ msg = [m \in Ids |-> None]
    /\ drawn = {} /\ handed = [m \in Ids |-> 0]
    /\ time = 0
    /\ mix \in Mixes
    /\ pc = [c \in Clients |-> "idle"]
    /\ req = [c \in Clients |-> None]
    /\ now = [c \in Clients |-> 0]
    /\ got = [c \in Clients |-> None]
    /\ picked = [c \in Clients |-> {}]
    /\ quiet = [c \in Clients |-> TRUE]

Exists(q) == queue[q] # None
Stored    == {m \in Ids : msg[m] # None}
InQueue(q) == {m \in Stored : msg[m].q = q}

-----------------------------------------------------------------------------
Tick == time < MaxTime /\ time' = time + 1 /\ UNCHANGED <<db, pc, req, now, got, picked, quiet>>

\* mix.sends bounds the messages: one id for each that is sent or being sent.
Sending == {d \in Clients : pc[d] # "idle" /\ req[d].op = "SendMessage"}
IdsLeft == Cardinality(drawn) + Cardinality(Sending) < mix.sends

\* mix.most bounds the deliveries: no message was handed out so often when a receive
\* is sent.
FewHanded == \A m \in Ids : handed[m] < mix.most

\* A client sends a request; some read the clock before the database.
Send(c, r) ==
    /\ pc[c] = "idle"
    /\ r.op = "SendMessage" => IdsLeft
    /\ r.op = "ReceiveMessage" => FewHanded
    /\ pc' = [pc EXCEPT ![c] = "start"]
    /\ req' = [req EXCEPT ![c] = r]
    /\ now' = [now EXCEPT ![c] = time]
    /\ got' = [got EXCEPT ![c] = None]
    /\ picked' = [picked EXCEPT ![c] = {}]
    /\ quiet' = [quiet EXCEPT ![c] = TRUE]
    /\ UNCHANGED <<db, time>>

At(c, place, o) == pc[c] = place /\ req[c].op = o

Goto(c, place) == pc' = [pc EXCEPT ![c] = place] /\ UNCHANGED <<req, now, got, picked, time>>

\* The request is answered; a refusal changes nothing but that.
Answer(c) ==
    /\ pc' = [pc EXCEPT ![c] = "idle"]
    /\ req' = [req EXCEPT ![c] = None]
    /\ now' = [now EXCEPT ![c] = 0]
    /\ got' = [got EXCEPT ![c] = None]
    /\ UNCHANGED <<picked, time>>

\* A statement that only reads, and one that writes what is c's queue's.
Reads == UNCHANGED <<db, quiet>>
Writes(c) ==
    quiet' = [d \in Clients |->
                 IF d = c THEN quiet[c] \/ pc'[c] = "idle"
                 ELSE quiet[d] /\ (pc[d] = "idle" \/ req[d].q # req[c].q)]

\* GetSQSQueue: NotFound, or on with the row.
GetSQSQueue(c, place, o, next) ==
    /\ At(c, place, o)
    /\ \/ ~Exists(req[c].q) /\ Answer(c)
       \/ /\ Exists(req[c].q)
          /\ pc' = [pc EXCEPT ![c] = next]
          /\ got' = [got EXCEPT ![c] = queue[req[c].q]]
          /\ UNCHANGED <<req, now, picked, time>>
    /\ Reads

-----------------------------------------------------------------------------
\* DeleteSQSQueue, also as the undo of a create that could not be tagged.

\* A variant for the runs' mutants: the row deleted without the rebadge.
RebadgeNothing(c, o) == At(c, "rebadge", o) /\ Goto(c, "drop") /\ Reads

Rebadge(c, o) ==
    /\ At(c, "rebadge", o)
    /\ msg' = [m \in Ids |-> IF m \in InQueue(req[c].q) THEN [msg[m] EXCEPT !.q = Tombstone] ELSE msg[m]]
    /\ Goto(c, "drop")
    /\ Writes(c)
    /\ UNCHANGED <<queue, tagged, drawn, handed>>

Drop(c, o) ==
    /\ At(c, "drop", o)
    /\ queue' = [queue EXCEPT ![req[c].q] = None]
    /\ tagged' = tagged \ {req[c].q}
    /\ Answer(c)
    /\ Writes(c)
    /\ UNCHANGED <<msg, drawn, handed>>

DeleteSQSQueue(c, place, o) ==
    \/ At(c, place, o) /\ req[c].q = Tombstone /\ Answer(c) /\ Reads
    \/ At(c, place, o) /\ req[c].q # Tombstone /\ GetSQSQueue(c, place, o, "rebadge")
    \/ Rebadge(c, o)
    \/ Drop(c, o)

DeleteQueue(c) == DeleteSQSQueue(c, "start", "DeleteQueue")

-----------------------------------------------------------------------------
\* CreateQueue: the .fifo check, INSERT, tagCreated.

FifoMismatch(c) == (req[c].q \in Fifo) # req[c].fifo

InsertQueue(c) ==
    LET q == req[c].q IN
    /\ At(c, "start", "CreateQueue")
    /\ \/ /\ FifoMismatch(c) \/ Exists(q)
          /\ Answer(c)
          /\ Reads
       \/ /\ ~FifoMismatch(c) /\ ~Exists(q)
          /\ queue' = [queue EXCEPT ![q] = [a \in AllAttrs |-> a = "FifoQueue" /\ req[c].fifo]]
          /\ IF req[c].tags THEN Goto(c, "tag") ELSE Answer(c)
          /\ Writes(c)
          /\ UNCHANGED <<tagged, msg, drawn, handed>>

TagCreated(c) ==
    /\ At(c, "tag", "CreateQueue")
    /\ IF Exists(req[c].q)
       THEN tagged' = tagged \cup {req[c].q} /\ Answer(c)
       ELSE UNCHANGED tagged /\ Goto(c, "undo")
    /\ UNCHANGED <<queue, msg, drawn, handed, quiet>>

CreateQueue(c) ==
    \/ InsertQueue(c)
    \/ TagCreated(c)
    \/ DeleteSQSQueue(c, "undo", "CreateQueue")

-----------------------------------------------------------------------------
\* SetQueueAttributes: read the row, merge, write the attributes back whole.

Merged(c) == [got[c] EXCEPT ![req[c].attr] = req[c].val]

SetQueueAttributes(c) ==
    LET q == req[c].q IN
    \/ GetSQSQueue(c, "start", "SetQueueAttributes", "write")
    \/ /\ At(c, "write", "SetQueueAttributes")
       /\ queue' = IF Exists(q) THEN [queue EXCEPT ![q] = Merged(c)] ELSE queue
       /\ Answer(c)
       /\ Writes(c)
       /\ UNCHANGED <<tagged, msg, drawn, handed>>

TagCall(c, o, add) ==
    LET q == req[c].q IN
    /\ At(c, "start", o)
    /\ IF Exists(q)
       THEN tagged' = (IF add THEN tagged \cup {q} ELSE tagged \ {q}) /\ Answer(c)
       ELSE UNCHANGED tagged /\ Answer(c)
    /\ UNCHANGED <<queue, msg, drawn, handed, quiet>>

TagQueue(c)   == TagCall(c, "TagQueue", TRUE)
UntagQueue(c) == TagCall(c, "UntagQueue", FALSE)

-----------------------------------------------------------------------------
\* Messages.

\* SendSQSMessage: GetSQSQueue, INSERT.
SendMessage(c) ==
    LET o == "SendMessage" IN
    \/ At(c, "start", o) /\ req[c].q = Tombstone /\ Answer(c) /\ Reads
    \/ At(c, "start", o) /\ req[c].q # Tombstone /\ GetSQSQueue(c, "start", o, "insert")
    \/ /\ At(c, "insert", o)
       /\ \E m \in Ids \ drawn :
             /\ drawn' = drawn \cup {m}
             /\ msg' = [msg EXCEPT ![m] =
                   [q |-> req[c].q, handle |-> NoHandle, visible |-> 0, count |-> 0, at |-> now[c]]]
       /\ Answer(c)
       /\ Writes(c)
       /\ UNCHANGED <<queue, tagged, handed>>

\* LIMIT takes fewer than all of S: a negative one is no limit.
Limited(c, S) == req[c].max \in 0..Cardinality(S)

\* The oldest max messages visible at the second read, in some order of ties.
Oldest(c, S) ==
    {T \in SUBSET S :
        /\ Cardinality(T) = (IF Limited(c, S) THEN req[c].max ELSE Cardinality(S))
        /\ \A m \in T, o \in S \ T : msg[m].at <= msg[o].at}

\* A variant for the runs' mutants: hidden messages selected too.
VisibleAlways(c) == InQueue(req[c].q)

Visible(c) == {m \in InQueue(req[c].q) : msg[m].visible <= now[c]}

Select(c) ==
    /\ At(c, "select", "ReceiveMessage")
    /\ \E T \in Oldest(c, Visible(c)) : picked' = [picked EXCEPT ![c] = T]
    /\ pc' = [pc EXCEPT ![c] = "stamp"]
    /\ UNCHANGED <<req, now, got, time>>
    /\ Reads

\* "rh-<id>-" and randSuffix, which is the same eight letters each time.
ReceiptHandle(m) == m

\* A variant for the runs' mutants: the count set, not incremented.
StampedOnce(c, m) ==
    [msg[m] EXCEPT !.handle = ReceiptHandle(m), !.visible = now[c] + req[c].timeout, !.count = 1]

\* The row as the UPDATE leaves it, receive_count incremented by the statement.
Stamped(c, m) ==
    [msg[m] EXCEPT !.handle = ReceiptHandle(m), !.visible = now[c] + req[c].timeout, !.count = @ + 1]

\* The UPDATE names the queue, so it misses a message deleted or rebadged since.
StillThere(c, m) == m \in InQueue(req[c].q)

\* One UPDATE per message selected; the message is handed out either way.
Stamp(c) ==
    /\ At(c, "stamp", "ReceiveMessage")
    /\ \E m \in picked[c] :
          /\ msg' = IF StillThere(c, m) THEN [msg EXCEPT ![m] = Stamped(c, m)] ELSE msg
          /\ handed' = [handed EXCEPT ![m] = @ + 1]
          /\ picked' = [picked EXCEPT ![c] = @ \ {m}]
    /\ UNCHANGED <<queue, tagged, drawn, time, pc, req, now, got>>
    /\ Writes(c)

Handed(c) == At(c, "stamp", "ReceiveMessage") /\ picked[c] = {} /\ Answer(c) /\ Reads

ReceiveMessage(c) ==
    \/ GetSQSQueue(c, "start", "ReceiveMessage", "select")
    \/ Select(c)
    \/ Stamp(c)
    \/ Handed(c)

\* A variant for the runs' mutants: the handle taken for the message's id.
MatchesId(c, m) == m = req[c].handle

Matches(c, m) == msg[m].handle = req[c].handle

\* DELETE by queue and handle: every row that has them.
DeleteMessage(c) ==
    LET gone == {m \in InQueue(req[c].q) : Matches(c, m)} IN
    /\ At(c, "start", "DeleteMessage")
    /\ msg' = [m \in Ids |-> IF m \in gone THEN None ELSE msg[m]]
    /\ Answer(c)
    /\ IF gone = {} THEN UNCHANGED quiet ELSE Writes(c)
    /\ UNCHANGED <<queue, tagged, drawn, handed>>

-----------------------------------------------------------------------------
Request(c) ==
    \/ CreateQueue(c) \/ DeleteQueue(c) \/ SetQueueAttributes(c) \/ TagQueue(c) \/ UntagQueue(c)
    \/ SendMessage(c) \/ ReceiveMessage(c) \/ DeleteMessage(c)

Next ==
    /\ Tick \/ \E c \in Clients : Request(c) \/ \E r \in RequestsOf[mix] : Send(c, r)
    /\ UNCHANGED mix

Spec == Init /\ [][Next]_vars

-----------------------------------------------------------------------------
\* Properties.

TypeOK ==
    /\ queue \in [Queues -> Attributes \cup {None}]
    /\ tagged \subseteq Queues
    /\ msg \in [Ids -> Rows \cup {None}]
    /\ drawn \subseteq Ids /\ handed \in [Ids -> Nat]
    /\ time \in 0..MaxTime
    /\ pc \in [Clients -> Places]
    /\ req \in [Clients -> RequestsOf[mix] \cup {None}]
    /\ now \in [Clients -> 0..MaxTime]
    /\ got \in [Clients -> Attributes \cup {None}]
    /\ picked \in [Clients -> SUBSET Ids]
    /\ quiet \in [Clients -> BOOLEAN]

Moves(c) == pc'[c] # pc[c] \/ picked'[c] # picked[c]

\* Messages under the name of a queue that is gone.
Orphans == {m \in Stored : msg[m].q # Tombstone /\ ~Exists(msg[m].q)}

\* tags.go: a queue created again under a deleted queue's ARN starts untagged.
TagsAreOfQueues == \A q \in tagged : Exists(q)

\* receive_count = receive_count + 1 is counted by the statement: however
\* receives overlap, none of a message's deliveries goes uncounted while it is in
\* a queue, and a message rebadged or deleted under a receive is not revived.
CountsEveryReceive ==
    \A m \in Stored : msg[m].q # Tombstone => msg[m].count = handed[m]

\* What holds of the queues and their messages whatever overlaps: both of the above.
QueuesAreSound == TypeOK /\ TagsAreOfQueues /\ CountsEveryReceive

\* A client's request on q goes on in this step: its req is as before the answer.
RequestOn(c, q) == Moves(c) /\ pc[c] # "idle" /\ req[c].q = q

\* A message leaves the store only after a receive handed out its handle, or by a
\* DeleteMessage with the empty handle of those never received.  The tombstone
\* keeps the "message audit trail": what a queue's delete rebadged is stamped or
\* deleted by nobody but who names the tombstone itself, whatever receive or delete
\* of its old queue was under way, and goes back to no queue.
MessagesStay ==
    [][\A m \in Stored :
          /\ msg'[m] = None =>
                \/ handed[m] > 0
                \/ \E c \in Clients : At(c, "start", "DeleteMessage") /\ req[c].handle = NoHandle
          /\ msg[m].q = Tombstone =>
                /\ msg'[m] # msg[m] => \E c \in Clients : RequestOn(c, Tombstone)
                /\ msg'[m] # None => msg'[m].q = Tombstone]_vars

\* DeleteSQSQueue rebadges before the row goes away and SendSQSMessage looks for
\* the queue: a request nobody else's writes overlap orphans no message.
QuietRequestsOrphanNothing ==
    [][\A c \in Clients : Moves(c) /\ quiet[c] => Orphans' \subseteq Orphans]_vars

\* A receive nobody else's writes overlap hands out messages that are hidden from
\* nobody and in its queue, and hides them, unless it asks for a negative timeout.
QuietReceiveHidesWhatItHands ==
    [][\A c \in Clients, m \in Ids :
          pc[c] = "stamp" /\ m \in picked[c] \ picked'[c] /\ quiet[c] =>
             /\ m \in InQueue(req[c].q) /\ msg[m].visible <= now[c]
             /\ req[c].timeout > 0 => msg'[m].visible > now[c]]_vars
=============================================================================

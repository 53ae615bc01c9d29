-------------------------------- MODULE Load --------------------------------
(***************************************************************************)
(* POST /mock/load: every row replaced with a recorded read, in one        *)
(* transaction taken a statement at a time, beside the request log and a   *)
(* reset.  The load holds identityMu exclusively and the database's one    *)
(* connection, so no request runs from its delete to its end; a request    *)
(* that let go of the lock before may still append its log entry.          *)
(*                                                                         *)
(* A statement may fail, and SQLite may then have rolled the transaction   *)
(* back itself: later statements would commit on their own.                *)
(***************************************************************************)
EXTENDS LoadRows, RequestLog

CONSTANTS
    Recordings, \* mix -> the recorded reads posted
    MaxLoads,   \* mix -> a bound on the loads and resets
    Faulty,     \* the mixes in which a statement of a load may fail
    Calling,    \* the mixes in which requests are sent
    Before      \* the rows a load may find

Mixes == DOMAIN Recordings

ASSUME MixesAssumption ==
    /\ MaxLoads \in [Mixes -> Nat]
    /\ Faulty \subseteq Mixes /\ Calling \subseteq Mixes

\* An exchange: its key is the type of its items, its entry its params but for the
\* request token it carries, next the token it answers or Truncated, a truncated
\* field without one; its loader's decode returns its items, a refusal, or an error
\* or a panic.
Truncated == "truncated"
Answers   == {"ok", "absent", "error", "unparsable"}
Decodes   == {"items", "refusal", "error"}

VARIABLES
    mix,     \* the recordings of this behaviour
    db,      \* the rows stored, and whether a load stored them
    tx,      \* the load's transaction: "none", "open" or "ended" by SQLite
    undo,    \* the rows as the transaction began
    step,    \* where the load is
    rec,     \* its recording
    done,    \* the exchanges loaded
    n,       \* the item of its exchange it is at
    held,    \* run.rows: each item, its exchange, and the chains that held it
    failed,  \* tx.Failed
    got,     \* what the guarded step returned
    refused, \* whether a refusal was collected
    loads,   \* loads and resets so far
    ans,     \* the last load's answer
    late     \* whether a request was still to be logged when the rows were last replaced

loadVars == <<mix, db, tx, undo, step, rec, done, n, held, failed, got, refused, loads, ans, late>>
pipelineVars == <<logVars, loadVars>>
progress == <<rec, done, n, held, refused>>

Nothing == [rows |-> {}, loaded |-> FALSE]

LoadInit ==
    /\ LogInit
    /\ mix \in Mixes
    /\ db \in Before /\ undo = db
    /\ tx = "none" /\ step = "idle"
    /\ rec = << >> /\ done = {} /\ n = 1 /\ held = {}
    /\ failed = FALSE /\ got = "none" /\ refused = FALSE
    /\ loads = 0 /\ ans = "none" /\ late = FALSE

-----------------------------------------------------------------------------
\* link.

Of(r, a) == {k \in 1..Len(r) : r[k].answer = a}
Good(r)  == Of(r, "ok")

\* The pages of one read: its key, and its params but for the token.
Read(r, k) == {m \in Good(r) : r[m].key = r[k].key /\ r[m].entry = r[k].entry}

Earlier(r, k) == {p \in Read(r, k) : p < k /\ r[p].next # NoId /\ r[p].next = r[k].carried}

\* The latest earlier page that answered the token page k carries.
Continues(r, k) == CHOOSE p \in Earlier(r, k) : \A q \in Earlier(r, k) : q <= p

Orphan(r, k) == r[k].carried # NoId /\ Earlier(r, k) = {}

Cut(r, p) ==
    /\ r[p].next # NoId
    /\ ~\E k \in Read(r, p) : Earlier(r, k) # {} /\ Continues(r, k) = p

\* Each page's chain, named by its first page.
Chain(r) ==
    LET chain[k \in 1..Len(r)] ==
            IF k \in Good(r) /\ Earlier(r, k) # {} THEN chain[Continues(r, k)] ELSE k
    IN chain

\* A variant for the runs' mutants: a page that answers more, taken as the last.
LinkIgnoresMore(r) ==
    \/ Of(r, "error") # {} \/ Of(r, "unparsable") # {}
    \/ \E k \in Good(r) : Orphan(r, k)

LinkRefuses(r) ==
    \/ Of(r, "error") # {} \/ Of(r, "unparsable") # {}
    \/ \E k \in Good(r) : Orphan(r, k) \/ Cut(r, k)

Items(r) == UNION {{r[k].items[m] : m \in 1..Len(r[k].items)} : k \in Good(r)}

\* An instance's copies of the interfaces of r.
Nics(r) ==
    LET ids == {x.id : x \in Items(r)} IN
    [eni: ids, ip: {x.ip : x \in OfType(Items(r), "network-interface")}, address: ids \cup {NoId}]

\* A recording's exchanges hold items, each of its exchange's key.
IsRecording(r) ==
    /\ Len(r) \in Nat
    /\ \A k \in 1..Len(r) :
          /\ r[k].key \in Types /\ r[k].decodes \in Decodes /\ Len(r[k].items) \in Nat
          /\ \A m \in 1..Len(r[k].items) : IsItem(r[k].items[m]) /\ r[k].items[m].type = r[k].key
    /\ NoId \notin Nics(r)

ASSUME RecordingsAssumption == \A b \in Mixes : \A r \in Recordings[b] : IsRecording(r)

\* byKey, in the registry's order: parents' loaders first, each on its exchanges
\* as recorded.
Precedes(r, k, m) ==
    LET a == Rank(r[k].key)  b == Rank(r[m].key) IN a < b \/ (a = b /\ k < m)

NextExchange == CHOOSE k \in Good(rec) \ done :
                    \A m \in Good(rec) \ done : m = k \/ Precedes(rec, k, m)

-----------------------------------------------------------------------------
\* The load takes identityMu, once nobody holds it shared, begins, deletes every
\* row and stores the identity.
BeginLoad(r) ==
    /\ step = "idle" /\ loads < MaxLoads[mix] /\ NobodyHolds
    /\ step' = "link" /\ rec' = r
    /\ tx' = "open" /\ undo' = db
    /\ db' = [rows |-> {}, loaded |-> TRUE]
    /\ loads' = loads + 1 /\ ans' = "none"
    /\ UNCHANGED <<mix, logVars, done, n, held, failed, got, refused, late>>

Link ==
    /\ step = "link"
    /\ refused' = LinkRefuses(rec)
    /\ step' = "exchange"
    /\ UNCHANGED <<mix, logVars, db, tx, undo, rec, done, n, held, failed, got, loads, ans, late>>

\* A statement fails: its transaction may end with it, and the loader may return
\* the error, a refusal or nil.
Fails ==
    /\ mix \in Faulty /\ ~failed
    /\ failed' = TRUE
    /\ \E end \in BOOLEAN :
          /\ tx' = IF end THEN "ended" ELSE tx
          /\ db' = IF end THEN undo ELSE db
    /\ got' \in {"nil", "refusal", "error"}

\* loadRun.exchange: a decode that refuses leaves the exchange, one that errs or
\* panics stops the load.
Decode ==
    /\ step = "exchange" /\ Good(rec) \ done # {}
    /\ \/ rec[NextExchange].decodes = "items" /\ step' = "item" /\ UNCHANGED <<done, refused>>
       \/ /\ rec[NextExchange].decodes = "refusal"
          /\ refused' = TRUE
          /\ done' = done \cup {NextExchange}
          /\ UNCHANGED step
       \/ rec[NextExchange].decodes = "error" /\ step' = "abort" /\ UNCHANGED <<done, refused>>
    /\ n' = 1
    /\ UNCHANGED <<mix, logVars, db, tx, undo, rec, held, failed, got, loads, ans, late>>

Item     == rec[NextExchange].items[n]
Held(x)  == {h \in held : Ref(h.item) = Ref(x)}
MyChain  == Chain(rec)[NextExchange]

NextItem == n' = n + 1 /\ UNCHANGED done

EndExchange ==
    /\ step = "item" /\ n > Len(rec[NextExchange].items)
    /\ done' = done \cup {NextExchange}
    /\ step' = "exchange"
    /\ UNCHANGED <<mix, logVars, db, tx, undo, rec, n, held, failed, got, refused, loads, ans, late>>

\* A variant for the runs' mutants: an item already written is left at that.
RepeatUnread(h) == UNCHANGED refused

\* loadRun.repeat: within a chain refused, across chains compared.
Repeat(h) == refused' = (refused \/ MyChain \in h.seen \/ Item # h.item)

RepeatItem ==
    /\ step = "item" /\ n <= Len(rec[NextExchange].items) /\ Held(Item) # {}
    /\ \E h \in Held(Item) :
          /\ Repeat(h)
          /\ held' = (held \ {h}) \cup {[h EXCEPT !.seen = @ \cup {MyChain}]}
    /\ NextItem
    /\ UNCHANGED <<mix, logVars, db, tx, undo, step, rec, failed, got, loads, ans, late>>

\* The item's write, or a failure of it.
WriteItem ==
    /\ step = "item" /\ n <= Len(rec[NextExchange].items) /\ Held(Item) = {}
    /\ step' = "guard"
    /\ \/ /\ IF ~Writes(Item) THEN got' = "nil" /\ UNCHANGED db
             ELSE IF Writable(db.rows, Item)
             THEN got' = "nil" /\ db' = [db EXCEPT !.rows = @ \cup {Item}]
             ELSE got' = "refusal" /\ UNCHANGED db
          /\ UNCHANGED <<tx, failed>>
       \/ Writes(Item) /\ Fails
    /\ UNCHANGED <<mix, logVars, undo, progress, loads, ans, late>>

\* A variant for the runs' mutants: the step's error is all that stops a load.
StopsOnError == got = "error"

\* loadRun.guard: whatever the step returned, a failed statement aborts.
Stops == failed \/ got = "error"

Abort ==
    /\ step' = "abort"
    /\ UNCHANGED <<mix, logVars, db, tx, undo, progress, failed, got, loads, ans, late>>

GuardItem ==
    /\ step = "guard"
    /\ \/ Stops /\ Abort
       \/ /\ ~Stops
          /\ IF got = "refusal" THEN refused' = TRUE /\ UNCHANGED held
             ELSE /\ held' = held \cup {[item |-> Item, exchange |-> NextExchange,
                                         seen |-> {MyChain}]}
                  /\ UNCHANGED refused
          /\ NextItem
          /\ got' = "none"
          /\ step' = "item"
          /\ UNCHANGED <<mix, logVars, db, tx, undo, rec, failed, loads, ans, late>>

HeldItems == {h.item : h \in held}

\* resolve, then diff of every row; a statement of a render may fail.
Check ==
    /\ step = "exchange" /\ Good(rec) \ done = {}
    /\ \/ /\ refused' = (refused \/ \E x \in HeldItems : ~Accepted(HeldItems, x))
          /\ step' = "end"
          /\ UNCHANGED <<db, tx, failed, got>>
       \/ Fails /\ step' = "check guard" /\ UNCHANGED refused
    /\ UNCHANGED <<mix, logVars, undo, rec, done, n, held, loads, ans, late>>

GuardCheck ==
    /\ step = "check guard"
    /\ \/ Stops /\ Abort
       \/ /\ ~Stops
          /\ refused' = (refused \/ got = "refusal")
          /\ step' = "end"
          /\ UNCHANGED <<mix, logVars, db, tx, undo, rec, done, n, held, failed, got, loads, ans, late>>

\* The load's end: what it kept goes with it.
Forget ==
    /\ rec' = << >> /\ done' = {} /\ n' = 1 /\ held' = {} /\ refused' = FALSE
    /\ failed' = FALSE /\ got' = "none" /\ tx' = "none" /\ step' = "idle" /\ undo' = db'

\* Rollback, of a transaction SQLite has not ended yet.
Rollback ==
    /\ step = "abort" \/ (step = "end" /\ (refused \/ tx = "ended"))
    /\ db' = IF tx = "open" THEN undo ELSE db
    /\ ans' = IF refused THEN "refused" ELSE "failed"
    /\ Forget
    /\ UNCHANGED <<mix, logVars, loads, late>>

\* The rows are replaced and the log cleared, under the lock.
ClearLog ==
    /\ log' = << >> /\ era' = era + 1
    /\ late' = (\E c \in Callers : at[c] \in {"returned", "panicked"})
    /\ UNCHANGED <<calls, at, rw, wire, ranIn>>

\* A variant for the runs' mutants: the log as it was.
ClearNothing ==
    /\ era' = era + 1
    /\ late' = (\E c \in Callers : at[c] \in {"returned", "panicked"})
    /\ UNCHANGED <<log, calls, at, rw, wire, ranIn>>

CommitClears == ClearLog

Commit ==
    /\ step = "end" /\ ~refused /\ tx = "open"
    /\ CommitClears
    /\ ans' = "ok"
    /\ UNCHANGED <<mix, db, loads>>
    /\ Forget

\* handleMockReset.
Reset ==
    /\ step = "idle" /\ loads < MaxLoads[mix] /\ NobodyHolds
    /\ db' = Nothing /\ undo' = Nothing
    /\ ClearLog
    /\ loads' = loads + 1 /\ ans' = "none"
    /\ UNCHANGED <<mix, tx, step, progress, failed, got>>

\* handleMockRequestsClear takes no lock.
ClearRequests ==
    /\ log' = << >>
    /\ UNCHANGED <<era, calls, at, rw, wire, ranIn, loadVars>>

\* A caller waits while a load holds the lock; what it has returned it may log.
Caller(c) ==
    /\ mix \in Calling
    /\ step = "idle" \/ at[c] \in {"returned", "panicked"}
    /\ LogNext(c)
    /\ UNCHANGED loadVars

LoadNext ==
    \/ \E r \in Recordings[mix] : BeginLoad(r)
    \/ Link \/ Decode \/ EndExchange \/ RepeatItem \/ WriteItem \/ GuardItem
    \/ Check \/ GuardCheck \/ Rollback \/ Commit
    \/ Reset \/ ClearRequests
    \/ \E c \in Callers : Caller(c)

LoadSpec == LoadInit /\ [][LoadNext]_pipelineVars

-----------------------------------------------------------------------------
\* Properties.

LoadTypeOK ==
    /\ LogTypeOK
    /\ mix \in Mixes
    /\ tx \in {"none", "open", "ended"}
    /\ step \in {"idle", "link", "exchange", "item", "guard", "check guard", "end", "abort"}
    /\ done \subseteq 1..Len(rec) /\ n \in Nat \ {0}
    /\ \A h \in held : h.exchange \in Good(rec) /\ h.seen \subseteq Good(rec)
    /\ got \in {"none", "nil", "refusal", "error"}
    /\ {failed, refused, late, db.loaded} \subseteq BOOLEAN
    /\ loads \in 0..MaxLoads[mix]
    /\ ans \in {"none", "ok", "refused", "failed"}
    /\ (step = "idle") = (tx = "none")

\* What two loaders each answer the other's part of agrees, whichever ran first.
Mutual(X) ==
    /\ \A a \in OfType(X, "network-interface") :
          /\ a.address # NoId <=> \E e \in OfType(X, "elastic-ip") : e.eni = a.id
          /\ a.instance # NoId =>
                \E i \in OfType(X, "instance") : i.id = a.instance /\ i.nic # NoId
    /\ \A i \in OfType(X, "instance") :
          /\ i.nic # NoId =>
                \E a \in OfType(X, "network-interface") :
                    a.id = i.nic.eni /\ a.instance = i.id /\ a.ip = i.nic.ip
                        /\ a.address = i.nic.address
          /\ \A m \in i.volumes : \E v \in OfType(X, "volume") :
                v.id = m.volume /\ [instance |-> i.id, how |-> m.how] \in v.attachments
    /\ \A v \in OfType(X, "volume") : \A a \in v.attachments :
          \E i \in OfType(X, "instance") :
              i.id = a.instance /\ [volume |-> v.id, how |-> a.how] \in i.volumes
    /\ \A g \in OfType(X, "security-group") : g.permissions = ShownPermissions(X, g)
    /\ \A s \in OfType(X, "subnet") : s.zoneId = ShownZone(X, s)
    /\ \A t, u \in OfType(X, "route-table") :
          t.vpc = u.vpc /\ t.mains > 0 /\ u.mains > 0 => t = u /\ t.mains = 1

SoundRows(X) ==
    /\ \A x \in X : Under(x) \cup References(x) \subseteq RefsOf(X)
    /\ Mutual(X)

\* Rows a load may find are an earlier load's, or were never loaded.
ASSUME BeforeAssumption ==
    \A b \in Before : b.loaded \in BOOLEAN /\ (b.loaded => SoundRows(b.rows))

\* [mock-load-refuses-dangling-reference] and the diffs together: the rows a load
\* left refer to rows it left, and what two rows say of one another agrees:
\* terminate, revoke and disassociate act on either row's copy.
LoadedIsSound ==
    /\ LoadTypeOK
    /\ step = "idle" /\ db.loaded => SoundRows(db.rows)

Ends(a) == step # "idle" /\ step' = "idle" /\ ans' = a

\* [mock-load-refusal-changes-nothing]: "a load that is refused or fails changes
\* nothing", though SQLite may have ended its transaction and what it writes
\* from then on would stay.
RefusedLoadChangesNothing ==
    [][Ends("refused") \/ Ends("failed") => db' = undo /\ UNCHANGED log]_pipelineVars

Complete(r) == \A p \in Good(r) :
    /\ r[p].next # NoId => \E k \in Read(r, p) : p < k /\ r[k].carried = r[p].next
    /\ r[p].carried # NoId => \E k \in Read(r, p) : k < p /\ r[k].next = r[p].carried

\* A committed load left the recording's rows, every page of every read of them,
\* and nothing else: an item it met twice it met the same.
LoadTakesItAll ==
    [][Ends("ok") =>
          /\ db'.rows = {x \in Items(rec) : Writes(x)}
          /\ \A x, y \in Items(rec) : Ref(x) = Ref(y) => x = y
          /\ Complete(rec)]_pipelineVars

\* What a recording must be, whatever order its exchanges are in.
Sound(r) ==
    /\ Of(r, "error") = {} /\ Of(r, "unparsable") = {}
    /\ \A k \in Good(r) : r[k].decodes = "items"
    /\ Complete(r)
    /\ \A k, m \in Good(r) : \A a \in 1..Len(r[k].items), b \in 1..Len(r[m].items) :
          LET x == r[k].items[a]  y == r[m].items[b] IN
          Ref(x) = Ref(y) /\ <<k, a>> # <<m, b>> => x = y /\ k # m /\ r[k].entry # r[m].entry
    /\ \A p, q \in Good(r) : r[p].next # NoId /\ r[p].next = r[q].next => p = q
    /\ \A x \in Items(r) :
          /\ Under(x) \cup References(x) \subseteq RefsOf(Items(r))
          /\ Shown(Items(r), x) = x
          /\ x.type = "route-table" => \A q \in x.routes : q.ipv4
          /\ x.type = "network-interface" => InterfaceFits(x)
          /\ x.type = "security-group-rule" => RuleFits(Items(r) \ {x}, x)
    /\ Mutual(Items(r))

\* Parents load first: a recording that holds together loads, whatever order its
\* exchanges were recorded in, unless a statement fails.
SoundRecordingsLoad ==
    [][Ends("refused") \/ Ends("failed") => failed \/ ~Sound(rec)]_pipelineVars

\* "The traffic it holds was against the replaced rows": once a load or a reset
\* cleared the log it holds no entry of the rows before, unless a request was
\* still to be logged when it did; and no failure in it looks answered.
LogIsOfTheseRows ==
    /\ ~late => \A m \in 1..Len(log) : log[m].era = era
    /\ NoFailureLooksAnswered
=============================================================================

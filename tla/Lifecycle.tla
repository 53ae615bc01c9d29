----------------------------- MODULE Lifecycle -----------------------------
(***************************************************************************)
(* The life of one fakeaws process and of its database file: boot, the AWS *)
(* requests that hold identityMu shared, the admin operations that hold it *)
(* exclusively (identity, reset, snapshot, restore, load), kills and        *)
(* restarts.                                                               *)
(*                                                                         *)
(* The database has one connection, so every SQL statement and every       *)
(* transaction is one atomic step; statements of different requests        *)
(* interleave.  Rows are abstracted to the kinds of row present under each *)
(* account.                                                                *)
(***************************************************************************)
EXTENDS DbFile

CONSTANTS
    Clients,     \* the connections that may each have one AWS request in flight
    ClientOps,   \* the AWS operations clients send
    AdminOps,    \* the exclusive admin operations sent
    LoadedKinds, \* the sets of row kinds a recorded read may hold: nothing that
                 \* only fakeaws itself adds
    Faults       \* what may go wrong: "kill", "vacuum", "copy", "delete"

ASSUME OpsAssumption ==
    /\ ClientOps \subseteq {"CreateHostedZone", "DeleteHostedZone", "CreateKey",
                            "ScheduleKeyDeletion", "CreateVpc", "DescribeImages"}
    /\ AdminOps \subseteq {"identity", "reset", "snapshot", "restore", "load"}
    /\ LoadedKinds \subseteq SUBSET (Kinds \ {"fixture", "minted"})
    /\ Faults \subseteq {"kill", "vacuum", "copy", "delete"}

-----------------------------------------------------------------------------
VARIABLES
    up,       \* "down", a step of NewApplication, or "serving"
    live,     \* the database file, its WAL included
    baseline, \* <dbPath>.snapshot
    handle,   \* whether r.db is an open handle on the live file
    writer,   \* identityMu's writer: "free", "pending" (readers drain) or "held"
    job,      \* the exclusive operation of that writer
    pc, op, acct \* each client's place, operation and the account it read

vars == <<up, live, baseline, handle, writer, job, pc, op, acct>>

NoJob == [op |-> "none", account |-> None, kinds |-> {}, step |-> "none", table |-> 0,
          result |-> "none", live |-> NoFile, baseline |-> NoFile]

\* live and baseline in a job are the two files as the lock was taken: an
\* auxiliary record, which no action reads.
Jobs == [op: AdminOps \cup {"identity", "none"}, account: Accounts \cup {None},
         kinds: SUBSET (Kinds \ {"fixture", "minted"}),
         step: {"none", "tx", "tables", "remove", "vacuum", "stat", "close",
                "truncate", "write", "rest", "reopen", "done"},
         table: 0..(Len(resetTables) + 1),
         result: {"none", "ok", "refused", "failed"},
         live: File, baseline: File]

\* Where a client is: "blocked" in RLock; "entry" .. "leave" with identityMu
\* held shared.
Holding == {"entry", "write", "records", "seed", "leave"}
Working == {"write", "records", "seed"}

Init ==
    /\ up = "down"
    /\ live \in OldFiles
    /\ baseline \in OldFiles
    /\ handle = "closed"
    /\ writer = "free"
    /\ job = NoJob
    /\ pc = [c \in Clients |-> "idle"]
    /\ op = [c \in Clients |-> "none"]
    /\ acct = [c \in Clients |-> None]

\* Whether a statement on the handle can succeed.
Readable == handle = "open" /\ live.state = "whole"

-----------------------------------------------------------------------------
\* Boot: repository.New, boot's identity, backfill and seeds.

\* A variant for the runs' mutants: no schema check.
NewUnchecked ==
    /\ up = "down"
    /\ live' = IF live.state \in {"none", "empty"} THEN Fresh ELSE live
    /\ handle' = "open"
    /\ up' = "opened"
    /\ UNCHANGED <<baseline, writer, job, pc, op, acct>>

\* New: refuses a torn file or another schema version (the process exits and
\* stays down), makes a missing or empty one new.
New ==
    /\ up = "down"
    /\ live.state \in {"none", "empty", "whole"}
    /\ live' = IF live.state = "whole" THEN live ELSE Fresh
    /\ handle' = "open"
    /\ up' = "opened"
    /\ UNCHANGED <<baseline, writer, job, pc, op, acct>>

\* The operator's answer to a refused file: "reset or delete the file".
DeleteFile ==
    /\ up = "down"
    /\ live.state \in {"torn", "other"}
    /\ live' = NoFile
    /\ UNCHANGED <<up, baseline, handle, writer, job, pc, op, acct>>

Begin(o, a, ks) ==
    [op |-> o, account |-> a, kinds |-> ks,
     step |-> CASE o = "identity" -> "tx" [] o = "load" -> "tx" [] o = "reset" -> "tables"
                [] o = "snapshot" -> "remove" [] o = "restore" -> "stat",
     table |-> 1, result |-> "none", live |-> live, baseline |-> baseline]

\* -account a: setIdentity, under the lock, before anything is served.
BootIdentity(a) ==
    /\ up = "opened"
    /\ up' = "identified"
    /\ writer' = "held"
    /\ job' = Begin("identity", a, {})
    /\ UNCHANGED <<live, baseline, handle, pc, op, acct>>

\* A refused -account ends the boot, and the process with it.
BootRefused ==
    /\ up = "identified" /\ job.step = "done" /\ job.result # "ok"
    /\ up' = "down"
    /\ handle' = "closed"
    /\ writer' = "free"
    /\ job' = NoJob
    /\ UNCHANGED <<live, baseline, pc, op, acct>>

BootBackfill ==
    /\ up \in {"opened", "identified"} /\ writer = "free"
    /\ live' = Backfilled(live)
    /\ up' = "seeding"
    /\ UNCHANGED <<baseline, handle, writer, job, pc, op, acct>>

BootSeed ==
    /\ up = "seeding"
    /\ live' = IF live.loaded THEN live ELSE Seeded(live, AccountID(live))
    /\ up' = "serving"
    /\ UNCHANGED <<baseline, handle, writer, job, pc, op, acct>>

\* The process dies: files stay, everything in memory goes.
Kill ==
    /\ "kill" \in Faults
    /\ up # "down"
    /\ up' = "down"
    /\ handle' = "closed"
    /\ writer' = "free"
    /\ job' = NoJob
    /\ pc' = [c \in Clients |-> "idle"]
    /\ op' = [c \in Clients |-> "none"]
    /\ acct' = [c \in Clients |-> None]
    /\ UNCHANGED <<live, baseline>>

-----------------------------------------------------------------------------
\* An AWS request: holdIdentity, readAccount, the handler's statements.

\* A variant for the runs' mutants: readers pass a waiting writer.
ArrivePassing(c, o) ==
    /\ up = "serving" /\ pc[c] = "idle"
    /\ op' = [op EXCEPT ![c] = o]
    /\ pc' = [pc EXCEPT ![c] = IF writer # "held" THEN "entry" ELSE "blocked"]
    /\ UNCHANGED <<up, live, baseline, handle, writer, job, acct>>

\* RLock succeeds at once unless a writer is pending or holds the lock.
Arrive(c, o) ==
    /\ up = "serving" /\ pc[c] = "idle"
    /\ op' = [op EXCEPT ![c] = o]
    /\ pc' = [pc EXCEPT ![c] = IF writer = "free" THEN "entry" ELSE "blocked"]
    /\ UNCHANGED <<up, live, baseline, handle, writer, job, acct>>

Goto(c, place) == pc' = [pc EXCEPT ![c] = place]

\* readAccount: an unreadable identity is a 500, never the default account.
ReadAccount(c) ==
    /\ pc[c] = "entry"
    /\ IF Readable
       THEN acct' = [acct EXCEPT ![c] = AccountID(live)] /\ Goto(c, "write")
       ELSE acct' = acct /\ Goto(c, "leave")
    /\ UNCHANGED <<up, live, baseline, handle, writer, job, op>>

\* The statement client c has reached, on the rows of the account it read.
\* Deleting one of several zones or keys leaves the kind present.
Statement(c, place, o, rows, next) ==
    /\ pc[c] = place /\ op[c] = o
    /\ live' = IF Readable THEN [live EXCEPT !.rows = rows] ELSE live
    /\ Goto(c, IF Readable THEN next ELSE "leave")
    /\ UNCHANGED <<up, baseline, handle, writer, job, op, acct>>

Row(c, kind) == {<<kind, acct[c]>>}

\* Repository.CreateHostedZone inserts the zone, then its NS and SOA records,
\* each behind a read of the zone.
CreateHostedZone(c) ==
    \/ Statement(c, "write", "CreateHostedZone", live.rows \cup Row(c, "zone"), "records")
    \/ Statement(c, "records", "CreateHostedZone",
                 IF <<"zone", acct[c]>> \in live.rows THEN live.rows \cup Row(c, "ns") ELSE live.rows,
                 "leave")

DeleteHostedZone(c) ==
    \E rows \in {live.rows, live.rows \ (Row(c, "zone") \cup Row(c, "ns"))} :
        Statement(c, "write", "DeleteHostedZone", rows, "leave")

CreateKey(c) == Statement(c, "write", "CreateKey", live.rows \cup Row(c, "key"), "leave")

\* UpdateKMSKey, one transaction: the row stays, in PendingDeletion.
ScheduleKeyDeletion(c) ==
    /\ <<"key", acct[c]>> \in live.rows
    /\ \E rows \in {live.rows, live.rows \ Row(c, "key")} :
        Statement(c, "write", "ScheduleKeyDeletion", rows \cup Row(c, "pending"), "leave")

NoSuchKey(c) ==
    /\ <<"key", acct[c]>> \notin live.rows
    /\ Statement(c, "write", "ScheduleKeyDeletion", live.rows, "leave")

\* CreateVPCWithDefaults, one transaction.
CreateVpc(c) == Statement(c, "write", "CreateVpc", live.rows \cup Row(c, "vpc"), "leave")

\* ensureAMIFixturesForRegion reads the loaded flag, then seeds.
DescribeImages(c) ==
    \/ Statement(c, "write", "DescribeImages", live.rows, IF live.loaded THEN "leave" ELSE "seed")
    \/ Statement(c, "seed", "DescribeImages", Seeded(live, acct[c]).rows, "leave")

\* RUnlock, once the handler has answered.
Leave(c) ==
    /\ pc[c] = "leave"
    /\ Goto(c, "idle")
    /\ acct' = [acct EXCEPT ![c] = None]
    /\ op' = [op EXCEPT ![c] = "none"]
    /\ UNCHANGED <<up, live, baseline, handle, writer, job>>

-----------------------------------------------------------------------------
\* The exclusive operations.  A writer waits for the readers inside; readers
\* that come while it waits or holds block until it unlocks.

Lock(o, a, ks) ==
    /\ up = "serving" /\ writer = "free"
    /\ writer' = "pending"
    /\ job' = Begin(o, a, ks)
    /\ UNCHANGED <<up, live, baseline, handle, pc, op, acct>>

\* A variant for the runs' mutants: a lock that does not wait for the readers inside.
LockGrantedAtOnce ==
    /\ writer = "pending"
    /\ writer' = "held"
    /\ job' = [job EXCEPT !.live = live, !.baseline = baseline]
    /\ UNCHANGED <<up, live, baseline, handle, pc, op, acct>>

LockGranted ==
    /\ writer = "pending"
    /\ \A c \in Clients : pc[c] \notin Holding
    /\ writer' = "held"
    /\ job' = [job EXCEPT !.live = live, !.baseline = baseline]
    /\ UNCHANGED <<up, live, baseline, handle, pc, op, acct>>

\* Unlock lets every blocked reader in before the next writer.
Unlock ==
    /\ writer = "held" /\ job.step = "done"
    /\ up = "serving" \/ job.result = "ok"
    /\ writer' = "free"
    /\ job' = NoJob
    /\ pc' = [c \in Clients |-> IF pc[c] = "blocked" THEN "entry" ELSE pc[c]]
    /\ UNCHANGED <<up, live, baseline, handle, op, acct>>

At(o, step) == writer = "held" /\ job.op = o /\ job.step = step

Go(step)  == job' = [job EXCEPT !.step = step]
Finish(r) == job' = [job EXCEPT !.step = "done", !.result = r]

\* What every step of an exclusive operation leaves alone.
Others == UNCHANGED <<up, writer, op, acct>>

\* A variant for the runs' mutants: SetIdentity without its empty check.
SetIdentityUnchecked ==
    /\ At("identity", "tx")
    /\ live' = IF Readable THEN StoreIdentity(live, job.account) ELSE live
    /\ Finish(IF Readable THEN "ok" ELSE "failed")
    /\ Others /\ UNCHANGED <<baseline, handle, pc>>

\* Repository.SetIdentity, one transaction.  The stored account with a new
\* region writes the row; with the same region it writes nothing.
SetIdentity ==
    /\ At("identity", "tx")
    /\ \/ ~Readable /\ live' = live /\ Finish("failed")
       \/ /\ Readable /\ AccountID(live) = job.account
          /\ live' \in {live, StoreIdentity(live, job.account)}
          /\ Finish("ok")
       \/ /\ Readable /\ AccountID(live) # job.account /\ Counted(live) = {}
          /\ live' = StoreIdentity(live, job.account)
          /\ Finish("ok")
       \/ /\ Readable /\ AccountID(live) # job.account /\ Counted(live) # {}
          /\ live' = live
          /\ Finish("refused")
    /\ Others /\ UNCHANGED <<baseline, handle, pc>>

\* Repository.Load, one transaction: a refusal or a failure rolls it back.
Load ==
    /\ At("load", "tx")
    /\ \/ Readable /\ live' = LoadedFile(job.account, job.kinds) /\ Finish("ok")
       \/ live' = live /\ Finish("refused")
    /\ Others /\ UNCHANGED <<baseline, handle, pc>>

\* Repository.Reset deletes table by table, each DELETE on its own; a failed
\* one ends it there.
ResetTable ==
    /\ At("reset", "tables")
    /\ \/ /\ Readable
          /\ live' = DeleteTable(live, resetTables[job.table])
          /\ job' = [job EXCEPT !.table = @ + 1,
                               !.step = IF job.table = Len(resetTables) THEN "remove" ELSE @]
       \/ /\ ~Readable \/ "delete" \in Faults
          /\ live' = live /\ Finish("failed")
    /\ Others /\ UNCHANGED <<baseline, handle, pc>>

\* A variant for the runs' mutants: a snapshot written in place, its target created before the VACUUM.
RemoveBaselineInPlace ==
    /\ \/ At("reset", "remove") /\ Finish("ok") /\ baseline' = NoFile
       \/ At("snapshot", "remove") /\ Go("vacuum") /\ baseline' = Blank("empty")
    /\ Others /\ UNCHANGED <<live, handle, pc>>

\* Reset removes the baseline last, Snapshot first.
RemoveBaseline ==
    /\ \/ At("reset", "remove") /\ Finish("ok")
       \/ At("snapshot", "remove") /\ Go("vacuum")
    /\ baseline' = NoFile
    /\ Others /\ UNCHANGED <<live, handle, pc>>

\* VACUUM INTO a .tmp, then rename.
VacuumInto ==
    /\ At("snapshot", "vacuum")
    /\ \/ /\ handle = "open" /\ live.state \in {"empty", "whole"}
          /\ baseline' = live
          /\ Finish("ok")
       \/ /\ "vacuum" \in Faults \/ handle = "closed" \/ live.state = "torn"
          /\ baseline' = baseline
          /\ Finish("failed")
    /\ Others /\ UNCHANGED <<live, handle, pc>>

\* Restore's Stat and stage: 404 without a baseline, 409 for another version.
Stage ==
    /\ At("restore", "stat")
    /\ \/ Stageable(baseline) /\ Go("close")
       \/ ~Stageable(baseline) /\ Finish("refused")
       \/ "copy" \in Faults /\ Finish("failed")
    /\ Others /\ UNCHANGED <<live, baseline, handle, pc>>

CloseLive ==
    /\ At("restore", "close")
    /\ handle' = "closed"
    /\ Go("truncate")
    /\ Others /\ UNCHANGED <<live, baseline, pc>>

\* os.WriteFile of the staged bytes over the live path: truncate, part, all.
CopyOver ==
    /\ \/ At("restore", "truncate") /\ live' = Blank("empty") /\ Go("write")
       \/ At("restore", "write") /\ live' = Blank("torn") /\ Go("rest")
       \/ At("restore", "rest") /\ live' = Staged(baseline) /\ Go("reopen")
    /\ Others /\ UNCHANGED <<baseline, handle, pc>>

\* A failed write tries to reopen what is there.
CopyFails ==
    /\ "copy" \in Faults
    /\ writer = "held" /\ job.step \in {"truncate", "write", "rest"}
    /\ handle' \in {"open", "closed"}
    /\ Finish("failed")
    /\ Others /\ UNCHANGED <<live, baseline, pc>>

Reopen ==
    /\ At("restore", "reopen")
    /\ \/ handle' = "open" /\ Finish("ok")
       \/ "copy" \in Faults /\ handle' = handle /\ Finish("failed")
    /\ Others /\ UNCHANGED <<live, baseline, pc>>

-----------------------------------------------------------------------------
Boot == \/ New \/ DeleteFile \/ BootRefused \/ BootBackfill \/ BootSeed
        \/ \E a \in Accounts : BootIdentity(a)

\* The steps of a request once its handler has been entered.
Serve(c) == \/ ReadAccount(c) \/ CreateHostedZone(c) \/ DeleteHostedZone(c)
            \/ CreateKey(c) \/ ScheduleKeyDeletion(c) \/ NoSuchKey(c)
            \/ CreateVpc(c) \/ DescribeImages(c) \/ Leave(c)

Ask == \E o \in AdminOps : \E a \in Accounts : \E ks \in LoadedKinds :
          /\ o \notin {"identity", "load"} => a = Default
          /\ o # "load" => ks = CHOOSE k \in LoadedKinds : TRUE
          /\ Lock(o, a, ks)

Administer == \/ LockGranted \/ SetIdentity \/ Load \/ ResetTable \/ RemoveBaseline
              \/ VacuumInto \/ Stage \/ CloseLive \/ CopyOver
              \/ CopyFails \/ Reopen \/ Unlock

Next ==
    \/ Boot
    \/ \E c \in Clients : Serve(c)
    \/ \E c \in Clients, o \in ClientOps : Arrive(c, o)
    \/ Ask
    \/ Administer
    \/ Kill

\* Handlers run to their end, and the goroutine that holds or waits for the
\* lock is scheduled; nothing makes a client send or the process live on.
Fairness == /\ \A c \in Clients : WF_vars(Serve(c))
            /\ WF_vars(Administer)

Spec == Init /\ [][Next]_vars
FairSpec == Spec /\ Fairness

-----------------------------------------------------------------------------
\* Properties.

TypeOK ==
    /\ up \in {"down", "opened", "identified", "seeding", "serving"}
    /\ live \in File
    /\ baseline \in File
    /\ handle \in {"open", "closed"}
    /\ writer \in {"free", "pending", "held"}
    /\ job \in Jobs
    /\ pc \in [Clients -> {"idle", "blocked"} \cup Holding]
    /\ op \in [Clients -> ClientOps \cup {"none"}]
    /\ acct \in [Clients -> Accounts \cup {None}]

\* MUST[responses-carry-the-stored-account]: from its account read to its last
\* statement a request works on a database whose stored account is the one it
\* read, whatever admin operations arrive meanwhile.
RequestKeepsItsAccount ==
    \A c \in Clients : pc[c] \in Working => Readable /\ acct[c] = AccountID(live)

\* CRITICAL[identity-change-refused-on-non-empty-db]: whenever requests can see
\* the database, every row isEmpty counts is under the account they are
\* answered as: no row made under one account is stranded under another.
RowsUnderStoredAccount ==
    up = "serving" /\ writer # "held" =>
        \A r \in Counted(live) : r[2] = AccountID(live)

\* CRITICAL[mock-load-never-mints] and MUST[ami-fixtures-not-seeded-when-loaded]:
\* neither a boot, a lazy seed racing the load, nor a snapshot and restore adds
\* a fixture AMI or VPC defaults to what a load stored.
LoadedNeverMints ==
    \A f \in {live, baseline} : f.loaded =>
        \A r \in f.rows : r[1] \notin {"fixture", "minted"}

\* BackfillVPCDefaults at boot and in restore: no request sees a VPC without
\* its defaults, except one a load recorded so.
ServedVPCsHaveDefaults ==
    up = "serving" /\ writer # "held" /\ ~live.loaded =>
        \A a \in Accounts : <<"bare", a>> \in live.rows => <<"minted", a>> \in live.rows

\* handleMockSnapshot: the baseline written is the database between requests,
\* never one that holds half of a request's writes.
SnapshotBetweenRequests ==
    [][baseline'.state = "whole" /\ baseline' # baseline =>
          \A c \in Clients : pc[c] \notin Working]_vars

\* CRITICAL[restore-refuses-other-schema-version]: no step puts a database of
\* another schema version in the live path.
NoOtherVersionGoesLive == [][live'.state = "other" => live.state = "other"]_vars

\* Requests are only let in on a database that can be read: a kill inside a
\* restore's copy leaves a file the next boot refuses or makes new.
ServesReadable == up = "serving" /\ writer # "held" => Readable

\* A request that waits for a writer is let in (or its process dies), and a
\* writer that waits for requests gets the lock.
EveryoneGetsIn ==
    /\ \A c \in Clients : pc[c] = "blocked" ~> pc[c] # "blocked"
    /\ writer = "pending" ~> writer # "pending"

\* As the requests outside see them, the admin operations are atomic: while
\* one holds the lock the files are those it found.
Store == INSTANCE MockStore WITH
    live     <- IF writer = "held" THEN job.live ELSE live,
    baseline <- IF writer = "held" THEN job.baseline ELSE baseline
ImplementsMockStore == Store!Spec
=============================================================================

-------------------------- MODULE AdminPlaneProofs --------------------------
(***************************************************************************)
(* Proofs about Lifecycle, the files and the identity, for any clients,    *)
(* accounts, operations sent and faults; and about Load, the rows, for any *)
(* recordings and any rows they replace.  They share no state: each        *)
(* theorem is of one of the two specifications.                            *)
(***************************************************************************)
EXTENDS Lifecycle, Load, NaturalsInduction, WellFoundedInduction, TLAPS

-----------------------------------------------------------------------------
(* The lifecycle.                                                          *)

\* identityMu: a writer holds the lock alone.
Mutex == writer = "held" => \A c \in Clients : pc[c] \notin Holding

\* Before it serves, a process has no request, and no writer but -account's.
BootAlone ==
    /\ up # "serving" => (\A c \in Clients : pc[c] = "idle") /\ writer # "pending"
    /\ up \in {"down", "opened", "seeding"} => writer = "free"

\* What the exclusive operation under way has been given and has reached.
JobOK ==
    /\ job.op # "none" => job.account \in Accounts
    /\ job.step = "tables" => job.table \in 1..6
    /\ job.op = "restore" /\ job.step \in {"close", "truncate", "write", "rest"} => Stageable(baseline)

\* Lazy seeding has seen the loaded flag unset, and it still is.
SeedsUnloaded == \A c \in Clients : pc[c] = "seed" => ~live.loaded

IInv == /\ TypeOK
        /\ Mutex
        /\ BootAlone
        /\ JobOK
        /\ RequestKeepsItsAccount
        /\ SeedsUnloaded
        /\ LoadedNeverMints

-----------------------------------------------------------------------------
\* What the operators on files preserve.

Unminted(f) == f.loaded => \A r \in f.rows : r[1] \notin {"fixture", "minted"}

\* The stored account, or the default, is an account.
LEMMA AccountIDType == \A f \in File : AccountID(f) \in Accounts
  BY DefaultAssumption DEF AccountID, File

LEMMA BlankType ==
    \A s \in {"none", "empty", "torn", "other", "whole"} :
       /\ Blank(s) \in File
       /\ Unminted(Blank(s))
       /\ Blank(s).state = s
       /\ Blank(s).loaded = FALSE
  BY DEF Blank, File, Unminted

LEMMA StoreIdentityType ==
    ASSUME NEW f \in File, NEW a \in Accounts, Unminted(f)
    PROVE  /\ StoreIdentity(f, a) \in File
           /\ Unminted(StoreIdentity(f, a))
           /\ StoreIdentity(f, a).state = f.state
  BY DEF StoreIdentity, File, Unminted

LEMMA DeleteTableType ==
    ASSUME NEW f \in File, NEW t, Unminted(f)
    PROVE  /\ DeleteTable(f, t) \in File
           /\ Unminted(DeleteTable(f, t))
           /\ DeleteTable(f, t).state = f.state
  BY DEF DeleteTable, File, Unminted

LEMMA BackfilledType ==
    ASSUME NEW f \in File, Unminted(f)
    PROVE  /\ Backfilled(f) \in File
           /\ Unminted(Backfilled(f))
           /\ Backfilled(f).state = f.state
<1>1. CASE f.loaded
  BY <1>1 DEF Backfilled
<1>2. CASE ~f.loaded
  <2> DEFINE M == {<<"minted", a>> : a \in {b \in Accounts : <<"bare", b>> \in f.rows}}
  <2>1. M \subseteq Kinds \X Accounts
    <3>1. SUFFICES ASSUME NEW r \in M PROVE r \in Kinds \X Accounts
      OBVIOUS
    <3>2. PICK a \in {b \in Accounts : <<"bare", b>> \in f.rows} : r = <<"minted", a>>
      OBVIOUS
    <3> QED BY <3>2 DEF Kinds
  <2>2. Backfilled(f) = [f EXCEPT !.rows = @ \cup M]
    BY <1>2 DEF Backfilled, BackfilledAlways
  <2>3. Backfilled(f).loaded = FALSE /\ Backfilled(f).state = f.state /\ Backfilled(f) \in File
    BY <1>2, <2>1, <2>2 DEF File
  <2> QED BY <2>3 DEF Unminted
<1> QED BY <1>1, <1>2 DEF File

LEMMA SeededType ==
    ASSUME NEW f \in File, NEW a \in Accounts, ~f.loaded
    PROVE  /\ Seeded(f, a) \in File
           /\ Unminted(Seeded(f, a))
           /\ Seeded(f, a).state = f.state
           /\ Seeded(f, a).loaded = FALSE
  BY DEF Seeded, File, Unminted, Kinds

LEMMA LoadedFileType ==
    ASSUME NEW a \in Accounts, NEW ks \in SUBSET (Kinds \ {"fixture", "minted"})
    PROVE  /\ LoadedFile(a, ks) \in File
           /\ Unminted(LoadedFile(a, ks))
           /\ LoadedFile(a, ks).state = "whole"
  BY DEF LoadedFile, File, Unminted

LEMMA StagedType ==
    ASSUME NEW f \in File, Stageable(f), Unminted(f)
    PROVE  /\ Staged(f) \in File
           /\ Unminted(Staged(f))
           /\ Staged(f).state = "whole"
<1>1. CASE f.state = "empty"
  BY <1>1, BlankType DEF Staged, Fresh
<1>2. CASE f.state # "empty"
  BY <1>2, BackfilledType DEF Staged, Stageable
<1> QED BY <1>1, <1>2

-----------------------------------------------------------------------------
\* The two shapes of step that change the database while it is served.

\* A statement of c's request: rows of the live file, and c's place.
RequestWrites(c) ==
    /\ pc[c] \in Working
    /\ \/ live' = live
       \/ \E R \in SUBSET (Kinds \X Accounts) :
             /\ live' = [live EXCEPT !.rows = R]
             /\ Unminted(live')
    /\ \E next \in Working \cup {"leave"} :
          /\ pc' = [pc EXCEPT ![c] = next]
          /\ next \in Working => Readable
          /\ next = "seed" => ~live.loaded
    /\ UNCHANGED <<up, baseline, handle, writer, job, op, acct>>

\* A step of the operation that holds the lock.
Exclusive ==
    /\ writer = "held" /\ writer' = "held"
    /\ UNCHANGED <<up, pc, op, acct>>
    /\ handle' \in {"open", "closed"}
    /\ live' \in File /\ Unminted(live')
    /\ baseline' \in File /\ Unminted(baseline')
    /\ job' \in Jobs /\ JobOK'

LEMMA ReadableAccount == TypeOK /\ Readable => AccountID(live) \in Accounts
  BY AccountIDType DEF TypeOK

LEMMA WritesInv ==
    ASSUME IInv, NEW c \in Clients, RequestWrites(c)
    PROVE  IInv'
<1> USE DEF IInv
<1>1. PICK next \in Working \cup {"leave"} :
         /\ pc' = [pc EXCEPT ![c] = next]
         /\ next \in Working => Readable
         /\ next = "seed" => ~live.loaded
  BY DEF RequestWrites
<1>2. /\ live' \in File /\ Unminted(live')
      /\ live'.state = live.state /\ live'.account = live.account /\ live'.loaded = live.loaded
  BY DEF RequestWrites, TypeOK, File, LoadedNeverMints, Unminted
<1>3. up = "serving" /\ writer # "held"
  BY DEF RequestWrites, BootAlone, Mutex, TypeOK, Working, Holding
<1>4. UNCHANGED <<up, baseline, handle, writer, job, op, acct>>
  BY DEF RequestWrites
<1>5. TypeOK'
  BY <1>1, <1>2, <1>4 DEF TypeOK, Working, Holding
<1>6. Mutex' /\ BootAlone'
  BY <1>3, <1>4 DEF Mutex, BootAlone
<1>7. JobOK'
  BY <1>4 DEF JobOK
<1>8. RequestKeepsItsAccount'
  <2>1. AccountID(live)' = AccountID(live)
    BY <1>2 DEF AccountID
  <2>2. Readable' = Readable
    BY <1>2, <1>4 DEF Readable
  <2>3. pc[c] \in Working
    BY DEF RequestWrites
  <2> QED BY <1>1, <1>4, <2>1, <2>2, <2>3 DEF RequestKeepsItsAccount, TypeOK
<1>9. SeedsUnloaded'
  BY <1>1, <1>2 DEF SeedsUnloaded, TypeOK
<1>10. LoadedNeverMints'
  BY <1>2, <1>4 DEF LoadedNeverMints, Unminted
<1> QED BY <1>5, <1>6, <1>7, <1>8, <1>9, <1>10

LEMMA ExclusiveInv ==
    ASSUME IInv, Exclusive
    PROVE  IInv'
<1> USE DEF IInv
<1>1. \A c \in Clients : pc'[c] \notin Holding /\ (pc[c] = "idle" => pc'[c] = "idle")
  BY DEF Exclusive, Mutex, Holding
<1>2. TypeOK'
  BY DEF TypeOK, Exclusive
<1>3. Mutex' /\ BootAlone'
  BY <1>1 DEF Mutex, BootAlone, Exclusive
<1>4. JobOK'
  BY DEF Exclusive
<1>5. RequestKeepsItsAccount' /\ SeedsUnloaded'
  BY <1>1 DEF RequestKeepsItsAccount, SeedsUnloaded, Working, Holding
<1>6. LoadedNeverMints'
  BY DEF Exclusive, LoadedNeverMints, Unminted
<1> QED BY <1>2, <1>3, <1>4, <1>5, <1>6

-----------------------------------------------------------------------------
\* Every statement of a request is a RequestWrites step, every step under the lock
\* an Exclusive one.

LEMMA StatementWrites ==
    ASSUME IInv, NEW c \in Clients, NEW CONSTANT place \in Working, NEW CONSTANT o,
           NEW STATE R, NEW STATE next,
           Statement(c, place, o, R, next),
           R \subseteq Kinds \X Accounts,
           live.loaded => \A r \in R : r \in live.rows \/ r[1] \notin {"fixture", "minted"},
           next \in Working \cup {"leave"},
           next = "seed" => ~live.loaded
    PROVE  RequestWrites(c)
<1>1. pc[c] \in Working /\ UNCHANGED <<up, baseline, handle, writer, job, op, acct>>
  BY DEF Statement
<1>2. live \in File /\ Unminted(live)
  BY DEF IInv, TypeOK, LoadedNeverMints, Unminted
<1>3. live' = live \/ (live' = [live EXCEPT !.rows = R] /\ Unminted(live'))
  BY <1>2 DEF Statement, Unminted, File
<1>4. \E to \in Working \cup {"leave"} :
          /\ pc' = [pc EXCEPT ![c] = to]
          /\ to \in Working => Readable
          /\ to = "seed" => ~live.loaded
  BY DEF Statement, Goto, Working
<1>5. \/ live' = live
      \/ \E S \in SUBSET (Kinds \X Accounts) : live' = [live EXCEPT !.rows = S] /\ Unminted(live')
  BY <1>3
<1> QED BY <1>1, <1>4, <1>5 DEF RequestWrites

\* The rows a statement of c may touch are rows of c's account.
LEMMA RowType ==
    ASSUME IInv, NEW c \in Clients, pc[c] \in Working
    PROVE  /\ \A k \in Kinds : Row(c, k) \subseteq Kinds \X Accounts
           /\ \A k \in Kinds \ {"fixture", "minted"} : \A r \in Row(c, k) : r[1] \notin {"fixture", "minted"}
           /\ live.rows \subseteq Kinds \X Accounts
           /\ live \in File
           /\ acct[c] \in Accounts
<1>1. acct[c] \in Accounts
  BY ReadableAccount DEF RequestKeepsItsAccount, IInv
<1> QED BY <1>1 DEF Row, IInv, TypeOK, File

LEMMA RequestSteps ==
    ASSUME IInv, NEW c \in Clients,
           \/ CreateHostedZone(c) \/ DeleteHostedZone(c) \/ CreateKey(c)
           \/ ScheduleKeyDeletion(c) \/ NoSuchKey(c) \/ CreateVpc(c) \/ DescribeImages(c)
    PROVE  RequestWrites(c)
<1>1. CASE CreateHostedZone(c)
  <2> DEFINE Ns == IF <<"zone", acct[c]>> \in live.rows THEN live.rows \cup Row(c, "ns") ELSE live.rows
  <2>1. CASE Statement(c, "write", "CreateHostedZone", live.rows \cup Row(c, "zone"), "records")
    <3>1. pc[c] \in Working
      BY <2>1 DEF Statement, Working
    <3> QED BY <2>1, <3>1, RowType, StatementWrites DEF Working, Kinds
  <2>2. CASE Statement(c, "records", "CreateHostedZone", Ns, "leave")
    <3>1. pc[c] \in Working
      BY <2>2 DEF Statement, Working
    <3>2. Ns \subseteq Kinds \X Accounts /\ \A r \in Ns : r \in live.rows \/ r[1] \notin {"fixture", "minted"}
      BY <3>1, RowType DEF Kinds
    <3> HIDE DEF Ns
    <3> QED BY <2>2, <3>2, StatementWrites DEF Working
  <2> QED BY <1>1, <2>1, <2>2 DEF CreateHostedZone
<1>2. CASE DeleteHostedZone(c)
  <2>1. PICK rows \in {live.rows, live.rows \ (Row(c, "zone") \cup Row(c, "ns"))} :
           Statement(c, "write", "DeleteHostedZone", rows, "leave")
    BY <1>2 DEF DeleteHostedZone
  <2>2. pc[c] \in Working
    BY <2>1 DEF Statement, Working
  <2> QED BY <2>1, <2>2, RowType, StatementWrites DEF Working
<1>3. CASE CreateKey(c)
  <2>1. pc[c] \in Working
    BY <1>3 DEF CreateKey, Statement, Working
  <2> QED BY <1>3, <2>1, RowType, StatementWrites DEF CreateKey, Working, Kinds
<1>4. CASE ScheduleKeyDeletion(c)
  <2>1. PICK rows \in {live.rows, live.rows \ Row(c, "key")} :
           Statement(c, "write", "ScheduleKeyDeletion", rows \cup Row(c, "pending"), "leave")
    BY <1>4 DEF ScheduleKeyDeletion
  <2>2. pc[c] \in Working
    BY <2>1 DEF Statement, Working
  <2> QED BY <2>1, <2>2, RowType, StatementWrites DEF Working, Kinds
<1>5. CASE NoSuchKey(c)
  <2>1. pc[c] \in Working
    BY <1>5 DEF NoSuchKey, Statement, Working
  <2> QED BY <1>5, <2>1, RowType, StatementWrites DEF NoSuchKey, Working
<1>6. CASE CreateVpc(c)
  <2>1. pc[c] \in Working
    BY <1>6 DEF CreateVpc, Statement, Working
  <2> QED BY <1>6, <2>1, RowType, StatementWrites DEF CreateVpc, Working, Kinds
<1>7. CASE DescribeImages(c)
  <2>1. pc[c] \in Working
    BY <1>7 DEF DescribeImages, Statement, Working
  <2>2. CASE Statement(c, "write", "DescribeImages", live.rows, IF live.loaded THEN "leave" ELSE "seed")
    <3> DEFINE next == IF live.loaded THEN "leave" ELSE "seed"
    <3>1. next \in Working \cup {"leave"} /\ (next = "seed" => ~live.loaded)
      BY DEF Working
    <3> HIDE DEF next
    <3> QED BY <2>1, <2>2, <3>1, RowType, StatementWrites DEF Working
  <2>3. CASE Statement(c, "seed", "DescribeImages", Seeded(live, acct[c]).rows, "leave")
    <3>1. ~live.loaded
      BY <2>3 DEF Statement, SeedsUnloaded, IInv
    <3>2. Seeded(live, acct[c]).rows \subseteq Kinds \X Accounts
      BY <2>1, <3>1, RowType, SeededType DEF File
    <3> QED BY <2>3, <3>1, <3>2, StatementWrites DEF Working
  <2> QED BY <1>7, <2>2, <2>3 DEF DescribeImages
<1> QED BY <1>1, <1>2, <1>3, <1>4, <1>5, <1>6, <1>7

\* The files a step under the lock finds are as IInv says.
LEMMA HeldFiles ==
    ASSUME IInv
    PROVE  /\ live \in File /\ Unminted(live)
           /\ baseline \in File /\ Unminted(baseline)
           /\ handle \in {"open", "closed"} /\ job \in Jobs
           /\ JobOK
  BY DEF IInv, TypeOK, LoadedNeverMints, Unminted

LEMMA TableCount == Len(resetTables) = 6
  BY DEF resetTables

LEMMA AdminSteps ==
    ASSUME IInv,
           \/ SetIdentity \/ Load \/ ResetTable \/ RemoveBaseline \/ VacuumInto
           \/ Stage \/ CloseLive \/ CopyOver \/ CopyFails \/ Reopen
    PROVE  Exclusive
<1> USE HeldFiles
<1>1. \A r \in {"ok", "refused", "failed"} :
         Finish(r) => /\ job' \in Jobs /\ job'.op = job.op /\ job'.account = job.account
                      /\ job'.step = "done"
  BY DEF Finish, Jobs
<1>2. \A s \in {"vacuum", "close", "truncate", "write", "rest", "reopen"} :
         Go(s) => /\ job' \in Jobs /\ job'.op = job.op /\ job'.account = job.account
                  /\ job'.step = s
  BY DEF Go, Jobs
<1>3. CASE SetIdentity
  <2>1. job.account \in Accounts
    BY <1>3 DEF SetIdentity, At, JobOK
  <2>2. StoreIdentity(live, job.account) \in File /\ Unminted(StoreIdentity(live, job.account))
    BY <2>1, StoreIdentityType
  <2>3. live' \in File /\ Unminted(live')
    BY <1>3, <2>2 DEF SetIdentity
  <2>4. \E r \in {"ok", "refused", "failed"} : Finish(r)
    BY <1>3 DEF SetIdentity
  <2> QED BY <1>3, <1>1, <2>1, <2>3, <2>4 DEF SetIdentity, At, Others, Exclusive, JobOK
<1>4. CASE Load
  <2>1. job.account \in Accounts
    BY <1>4 DEF Load, At, JobOK
  <2>2. live' \in File /\ Unminted(live')
    BY <1>4, <2>1, LoadedFileType DEF Load, Jobs
  <2> QED BY <1>4, <1>1, <1>2, <2>1, <2>2 DEF Load, At, Others, Exclusive, JobOK
<1>5. CASE ResetTable
  <2>1. CASE /\ live' = DeleteTable(live, resetTables[job.table])
             /\ job' = [job EXCEPT !.table = @ + 1,
                               !.step = IF job.table = Len(resetTables) THEN "remove" ELSE @]
    <3>1. live' \in File /\ Unminted(live')
      <4>1. PICK t : t = resetTables[job.table]
        OBVIOUS
      <4>2. DeleteTable(live, t) \in File /\ Unminted(DeleteTable(live, t))
        BY DeleteTableType
      <4> QED BY <2>1, <4>1, <4>2
    <3>2. job.op = "reset" /\ job.step = "tables" /\ job.table \in 1..6
      BY <1>5 DEF ResetTable, At, JobOK
    <3>3. job' \in Jobs /\ job'.op = "reset" /\ job'.account = job.account
          /\ (job'.step = "tables" => job'.table \in 1..6)
      <4> DEFINE st == IF job.table = Len(resetTables) THEN "remove" ELSE job.step
      <4>1. job' = [job EXCEPT !.table = job.table + 1, !.step = st]
        BY <2>1
      <4>2. job.table + 1 \in 0..(Len(resetTables) + 1)
        BY <3>2, TableCount
      <4>3. st \in {"tables", "remove"} /\ (st = "tables" => job.table + 1 \in 1..6)
        BY <3>2, TableCount
      <4> HIDE DEF st
      <4> QED BY <3>2, <4>1, <4>2, <4>3 DEF Jobs
    <3> QED BY <1>5, <3>1, <3>2, <3>3 DEF ResetTable, At, Others, Exclusive, JobOK
  <2>2. CASE live' = live /\ Finish("failed")
    BY <1>5, <1>1, <2>2 DEF ResetTable, At, Others, Exclusive, JobOK
  <2> QED BY <1>5, <2>1, <2>2 DEF ResetTable
<1>6. CASE RemoveBaseline
  <2>1. baseline' \in File /\ Unminted(baseline')
    BY <1>6, BlankType DEF RemoveBaseline, NoFile
  <2>2. CASE At("reset", "remove") /\ Finish("ok")
    BY <1>6, <1>1, <2>1, <2>2 DEF RemoveBaseline, At, Others, Exclusive, JobOK
  <2>3. CASE At("snapshot", "remove") /\ Go("vacuum")
    BY <1>6, <1>2, <2>1, <2>3 DEF RemoveBaseline, At, Others, Exclusive, JobOK
  <2> QED BY <1>6, <2>2, <2>3 DEF RemoveBaseline
<1>7. CASE VacuumInto
  BY <1>7, <1>1 DEF VacuumInto, At, Others, Exclusive, JobOK
<1>8. CASE Stage
  BY <1>8, <1>1, <1>2 DEF Stage, At, Others, Exclusive, JobOK
<1>9. CASE CloseLive
  BY <1>9, <1>2 DEF CloseLive, At, Others, Exclusive, JobOK
<1>10. CASE CopyOver
  <2>1. At("restore", "rest") => Staged(baseline) \in File /\ Unminted(Staged(baseline))
    BY StagedType DEF At, JobOK
  <2>2. live' \in File /\ Unminted(live')
    BY <1>10, <2>1, BlankType DEF CopyOver
  <2> QED BY <1>10, <1>2, <2>2 DEF CopyOver, At, Others, Exclusive, JobOK
<1>11. CASE CopyFails
  BY <1>11, <1>1 DEF CopyFails, Others, Exclusive, JobOK
<1>12. CASE Reopen
  BY <1>12, <1>1 DEF Reopen, At, Others, Exclusive, JobOK
<1> QED BY <1>3, <1>4, <1>5, <1>6, <1>7, <1>8, <1>9, <1>10, <1>11, <1>12

-----------------------------------------------------------------------------
\* IInv is inductive.

LEMMA InitIInv == Init => IInv
<1> SUFFICES ASSUME Init PROVE IInv
  OBVIOUS
<1>1. \A f \in OldFiles : f \in File /\ ~f.loaded
  <2>1. \A f \in {NoFile, Blank("other")} : f \in File /\ ~f.loaded
    BY BlankType DEF NoFile
  <2>2. {<<"bare", Default>>} \in SUBSET (Kinds \X Accounts)
    BY DefaultAssumption DEF Kinds
  <2>3. \A R \in SUBSET (Kinds \X Accounts) :
           [Fresh EXCEPT !.rows = R] \in File /\ ~[Fresh EXCEPT !.rows = R].loaded
    BY DEF Fresh, Blank, File
  <2> QED BY <2>1, <2>2, <2>3 DEF OldFiles
<1>2. NoJob \in Jobs
  BY BlankType, TableCount DEF NoJob, Jobs, NoFile
<1>3. TypeOK
  BY <1>1, <1>2 DEF Init, TypeOK
<1>4. Mutex /\ BootAlone /\ RequestKeepsItsAccount /\ SeedsUnloaded
  BY DEF Init, Mutex, BootAlone, RequestKeepsItsAccount, SeedsUnloaded, Working
<1>5. JobOK
  BY DEF Init, JobOK, NoJob
<1>6. LoadedNeverMints
  BY <1>1 DEF Init, LoadedNeverMints
<1> QED BY <1>3, <1>4, <1>5, <1>6 DEF IInv

\* A boot that starts, or an operation that asks for the lock, is well formed.
LEMMA BeginType ==
    ASSUME IInv, NEW o \in {"identity", "reset", "snapshot", "restore", "load"},
           o \in AdminOps \cup {"identity"},
           NEW a \in Accounts, NEW ks \in SUBSET (Kinds \ {"fixture", "minted"})
    PROVE  /\ Begin(o, a, ks) \in Jobs
           /\ Begin(o, a, ks).account = a
           /\ Begin(o, a, ks).table = 1
           /\ Begin(o, a, ks).step \in {"tx", "tables", "remove", "stat"}
<1> DEFINE st == CASE o = "identity" -> "tx" [] o = "load" -> "tx" [] o = "reset" -> "tables"
                   [] o = "snapshot" -> "remove" [] o = "restore" -> "stat"
<1>1. st \in {"tx", "tables", "remove", "stat"}
  OBVIOUS
<1>2. Begin(o, a, ks) = [op |-> o, account |-> a, kinds |-> ks, step |-> st, table |-> 1,
                         result |-> "none", live |-> live, baseline |-> baseline]
  BY DEF Begin
<1> HIDE DEF st
<1> QED BY <1>1, <1>2, HeldFiles, TableCount DEF Jobs

LEMMA NoJobOK == NoJob \in Jobs /\ NoJob.op = "none" /\ NoJob.step = "none"
  BY BlankType, TableCount DEF NoJob, Jobs, NoFile

LEMMA BootStep ==
    ASSUME IInv, Boot \/ Kill
    PROVE  IInv'
<1> USE DEF IInv
<1>1. CASE New
  <2>1. live' \in File /\ Unminted(live')
    BY <1>1, HeldFiles, BlankType DEF New, Fresh
  <2>2. TypeOK'
    BY <1>1, <2>1 DEF New, TypeOK
  <2>3. \A c \in Clients : pc[c] = "idle"
    BY <1>1 DEF New, BootAlone
  <2> QED BY <1>1, <2>1, <2>2, <2>3 DEF New, Mutex, BootAlone, JobOK, RequestKeepsItsAccount,
            SeedsUnloaded, LoadedNeverMints, Unminted, Working, Holding
<1>2. CASE DeleteFile
  <2>1. live' \in File /\ Unminted(live')
    BY <1>2, BlankType DEF DeleteFile, NoFile
  <2>2. TypeOK'
    BY <1>2, <2>1 DEF DeleteFile, TypeOK
  <2>3. \A c \in Clients : pc[c] = "idle"
    BY <1>2 DEF DeleteFile, BootAlone
  <2> QED BY <1>2, <2>1, <2>2, <2>3 DEF DeleteFile, Mutex, BootAlone, JobOK, RequestKeepsItsAccount,
            SeedsUnloaded, LoadedNeverMints, Unminted, Working, Holding
<1>3. CASE BootRefused
  <2>1. TypeOK'
    BY <1>3, NoJobOK DEF BootRefused, TypeOK
  <2>2. \A c \in Clients : pc[c] = "idle"
    BY <1>3 DEF BootRefused, BootAlone
  <2> QED BY <1>3, <2>1, <2>2, NoJobOK DEF BootRefused, Mutex, BootAlone, JobOK, RequestKeepsItsAccount,
            SeedsUnloaded, LoadedNeverMints, Working, Holding
<1>4. CASE BootBackfill
  <2>1. live' \in File /\ Unminted(live')
    BY <1>4, HeldFiles, BackfilledType DEF BootBackfill
  <2>2. TypeOK'
    BY <1>4, <2>1 DEF BootBackfill, TypeOK
  <2>3. \A c \in Clients : pc[c] = "idle"
    BY <1>4 DEF BootBackfill, BootAlone
  <2> QED BY <1>4, <2>1, <2>2, <2>3 DEF BootBackfill, Mutex, BootAlone, JobOK, RequestKeepsItsAccount,
            SeedsUnloaded, LoadedNeverMints, Unminted, Working, Holding
<1>5. CASE BootSeed
  <2>1. live' \in File /\ Unminted(live')
    BY <1>5, HeldFiles, SeededType, AccountIDType DEF BootSeed
  <2>2. TypeOK'
    BY <1>5, <2>1 DEF BootSeed, TypeOK
  <2>3. (\A c \in Clients : pc[c] = "idle") /\ writer = "free"
    BY <1>5 DEF BootSeed, BootAlone
  <2> QED BY <1>5, <2>1, <2>2, <2>3 DEF BootSeed, Mutex, BootAlone, JobOK, RequestKeepsItsAccount,
            SeedsUnloaded, LoadedNeverMints, Unminted, Working, Holding
<1>6. ASSUME NEW a \in Accounts, BootIdentity(a) PROVE IInv'
  <2>1. job' \in Jobs /\ job'.account = a /\ job'.table = 1
        /\ job'.step \in {"tx", "tables", "remove", "stat"}
    BY <1>6, BeginType DEF BootIdentity
  <2>2. TypeOK'
    BY <1>6, <2>1 DEF BootIdentity, TypeOK
  <2>3. \A c \in Clients : pc[c] = "idle"
    BY <1>6 DEF BootIdentity, BootAlone
  <2>4. JobOK'
    BY <2>1 DEF JobOK
  <2> QED BY <1>6, <2>2, <2>3, <2>4 DEF BootIdentity, Mutex, BootAlone, RequestKeepsItsAccount,
            SeedsUnloaded, LoadedNeverMints, Working, Holding
<1>7. CASE Kill
  <2>1. TypeOK'
    BY <1>7, NoJobOK DEF Kill, TypeOK
  <2>2. \A c \in Clients : pc'[c] = "idle"
    BY <1>7 DEF Kill
  <2> QED BY <1>7, <2>1, <2>2, NoJobOK DEF Kill, Mutex, BootAlone, JobOK, RequestKeepsItsAccount,
            SeedsUnloaded, LoadedNeverMints, Working, Holding
<1> QED BY <1>1, <1>2, <1>3, <1>4, <1>5, <1>6, <1>7 DEF Boot

LEMMA ServeStep ==
    ASSUME IInv, NEW c \in Clients, Serve(c)
    PROVE  IInv'
<1> USE DEF IInv
<1>1. CASE ReadAccount(c)
  <2>1. up = "serving" /\ writer # "held"
    BY <1>1 DEF ReadAccount, BootAlone, Mutex, TypeOK, Holding
  <2>2. CASE Readable
    <3>1. acct' = [acct EXCEPT ![c] = AccountID(live)] /\ pc' = [pc EXCEPT ![c] = "write"]
      BY <1>1, <2>2 DEF ReadAccount, Goto
    <3>2. TypeOK'
      BY <1>1, <2>2, <3>1, ReadableAccount DEF ReadAccount, TypeOK, Holding
    <3>3. RequestKeepsItsAccount'
      BY <1>1, <2>2, <3>1 DEF ReadAccount, RequestKeepsItsAccount, TypeOK, Readable, AccountID, Working
    <3> QED BY <1>1, <2>1, <3>1, <3>2, <3>3 DEF ReadAccount, Mutex, BootAlone, JobOK,
              SeedsUnloaded, LoadedNeverMints, TypeOK
  <2>3. CASE ~Readable
    <3>1. acct' = acct /\ pc' = [pc EXCEPT ![c] = "leave"]
      BY <1>1, <2>3 DEF ReadAccount, Goto
    <3>2. TypeOK'
      BY <1>1, <3>1 DEF ReadAccount, TypeOK, Holding
    <3>3. RequestKeepsItsAccount'
      BY <1>1, <3>1 DEF ReadAccount, RequestKeepsItsAccount, TypeOK, Readable, AccountID, Working
    <3> QED BY <1>1, <2>1, <3>1, <3>2, <3>3 DEF ReadAccount, Mutex, BootAlone, JobOK,
              SeedsUnloaded, LoadedNeverMints, TypeOK
  <2> QED BY <2>2, <2>3
<1>2. CASE \/ CreateHostedZone(c) \/ DeleteHostedZone(c) \/ CreateKey(c)
           \/ ScheduleKeyDeletion(c) \/ NoSuchKey(c) \/ CreateVpc(c) \/ DescribeImages(c)
  BY <1>2, RequestSteps, WritesInv
<1>3. CASE Leave(c)
  <2>1. up = "serving"
    BY <1>3 DEF Leave, BootAlone
  <2>2. TypeOK'
    BY <1>3 DEF Leave, Goto, TypeOK
  <2>3. RequestKeepsItsAccount'
    BY <1>3 DEF Leave, Goto, RequestKeepsItsAccount, TypeOK, Readable, AccountID, Working
  <2> QED BY <1>3, <2>1, <2>2, <2>3 DEF Leave, Goto, Mutex, BootAlone, JobOK,
            SeedsUnloaded, LoadedNeverMints, TypeOK, Holding
<1> QED BY <1>1, <1>2, <1>3 DEF Serve

LEMMA LockStep ==
    ASSUME IInv, LockGranted \/ Unlock \/ Ask
    PROVE  IInv'
<1> USE DEF IInv
<1>1. CASE LockGranted
  <2>1. job' \in Jobs /\ job'.op = job.op /\ job'.account = job.account
        /\ job'.step = job.step /\ job'.table = job.table
    BY <1>1, HeldFiles DEF LockGranted, Jobs
  <2>2. TypeOK'
    BY <1>1, <2>1 DEF LockGranted, TypeOK
  <2>3. up = "serving"
    BY <1>1 DEF LockGranted, BootAlone
  <2> QED BY <1>1, <2>1, <2>2, <2>3 DEF LockGranted, Mutex, BootAlone, JobOK,
            RequestKeepsItsAccount, SeedsUnloaded, LoadedNeverMints, Readable, AccountID
<1>2. CASE Unlock
  <2>1. \A c \in Clients : pc[c] \notin Working /\ pc'[c] \notin Working
                           /\ (pc[c] = "idle" => pc'[c] = "idle")
    BY <1>2 DEF Unlock, Mutex, Holding, Working
  <2>2. TypeOK'
    BY <1>2, NoJobOK DEF Unlock, TypeOK, Holding
  <2> QED BY <1>2, <2>1, <2>2, NoJobOK DEF Unlock, Mutex, BootAlone, JobOK,
            RequestKeepsItsAccount, SeedsUnloaded, LoadedNeverMints, Working
<1>3. CASE Ask
  <2>1. PICK o \in AdminOps, a \in Accounts, ks \in LoadedKinds : Lock(o, a, ks)
    BY <1>3 DEF Ask
  <2>2. job' \in Jobs /\ job'.account = a /\ job'.table = 1
        /\ job'.step \in {"tx", "tables", "remove", "stat"}
    BY <2>1, BeginType, OpsAssumption DEF Lock
  <2>3. TypeOK'
    BY <2>1, <2>2 DEF Lock, TypeOK
  <2>4. JobOK'
    BY <2>2 DEF JobOK
  <2> QED BY <2>1, <2>3, <2>4 DEF Lock, Mutex, BootAlone,
            RequestKeepsItsAccount, SeedsUnloaded, LoadedNeverMints, Readable, AccountID
<1> QED BY <1>1, <1>2, <1>3

LEMMA ArriveStep ==
    ASSUME IInv, NEW c \in Clients, NEW o \in ClientOps, Arrive(c, o)
    PROVE  IInv'
<1> USE DEF IInv
<1>1. pc' = [pc EXCEPT ![c] = IF writer = "free" THEN "entry" ELSE "blocked"] /\ up = "serving"
  BY DEF Arrive
<1>2. TypeOK'
  BY <1>1 DEF Arrive, TypeOK, Holding
<1>3. Mutex' /\ BootAlone'
  BY <1>1 DEF Arrive, Mutex, BootAlone, TypeOK, Holding
<1>4. RequestKeepsItsAccount' /\ SeedsUnloaded'
  BY <1>1 DEF Arrive, RequestKeepsItsAccount, SeedsUnloaded, TypeOK, Readable, AccountID, Working
<1> QED BY <1>2, <1>3, <1>4 DEF Arrive, JobOK, LoadedNeverMints

LEMMA NextIInv == IInv /\ [Next]_vars => IInv'
<1> SUFFICES ASSUME IInv, [Next]_vars PROVE IInv'
  OBVIOUS
<1>1. CASE Boot \/ Kill
  BY <1>1, BootStep
<1>2. CASE \E c \in Clients : Serve(c)
  BY <1>2, ServeStep
<1>3. CASE \E c \in Clients, o \in ClientOps : Arrive(c, o)
  BY <1>3, ArriveStep
<1>4. CASE Ask
  BY <1>4, LockStep
<1>5. CASE Administer
  BY <1>5, LockStep, AdminSteps, ExclusiveInv DEF Administer
<1>6. CASE UNCHANGED vars
  BY <1>6 DEF vars, IInv, TypeOK, Mutex, BootAlone, JobOK, RequestKeepsItsAccount,
              SeedsUnloaded, LoadedNeverMints, Readable, AccountID, Stageable
<1> QED BY <1>1, <1>2, <1>3, <1>4, <1>5, <1>6 DEF Next

-----------------------------------------------------------------------------
\* IInv holds of every behaviour of the process.
THEOREM Invariance == Spec => []IInv
  BY InitIInv, NextIInv, PTL DEF Spec

\* The state of the process is well typed: the lock, the files and every
\* request's place are among those the code has.
THEOREM TypeCorrect == Spec => []TypeOK
<1>1. IInv => TypeOK
  BY DEF IInv
<1> QED BY <1>1, Invariance, PTL

\* MUST[responses-carry-the-stored-account]: no admin operation, boot or kill
\* changes the stored account, or closes the database, under a request that
\* has read the account.
THEOREM AccountKept == Spec => []RequestKeepsItsAccount
<1>1. IInv => RequestKeepsItsAccount
  BY DEF IInv
<1> QED BY <1>1, Invariance, PTL

\* CRITICAL[mock-load-never-mints]: no fixture and no VPC default is ever in a
\* loaded database or baseline.
THEOREM NothingMinted == Spec => []LoadedNeverMints
<1>1. IInv => LoadedNeverMints
  BY DEF IInv
<1> QED BY <1>1, Invariance, PTL

-----------------------------------------------------------------------------
\* Only Snapshot's rename makes a baseline, and it holds the lock.
LEMMA BaselineStep ==
    ASSUME IInv, [Next]_vars, baseline'.state = "whole", baseline' # baseline
    PROVE  \A c \in Clients : pc[c] \notin Working
<1>1. NoFile.state # "whole"
  BY BlankType DEF NoFile
<1>2. ~(Boot \/ Kill)
  BY DEF Boot, New, DeleteFile, BootRefused, BootBackfill, BootSeed, BootIdentity, Kill
<1>3. ASSUME NEW c \in Clients, Serve(c) PROVE FALSE
  <2>1. CASE ReadAccount(c) \/ Leave(c)
    BY <2>1 DEF ReadAccount, Leave
  <2>2. CASE ~(ReadAccount(c) \/ Leave(c))
    BY <1>3, <2>2, RequestSteps DEF Serve, RequestWrites
  <2> QED BY <2>1, <2>2
<1>4. ~(Ask \/ UNCHANGED vars \/ \E c \in Clients, o \in ClientOps : Arrive(c, o))
  BY DEF Ask, Lock, vars, Arrive
<1>5. Administer
  BY <1>2, <1>3, <1>4 DEF Next
<1>6. writer = "held"
  BY <1>5, <1>1, AdminSteps DEF Administer, LockGranted, Unlock, Exclusive
<1> QED BY <1>6 DEF IInv, Mutex, Working, Holding

\* handleMockSnapshot: no baseline is ever written while a request is between
\* its account read and its last statement.
THEOREM SnapshotWhole == Spec => SnapshotBetweenRequests
<1>1. IInv /\ [Next]_vars =>
        [baseline'.state = "whole" /\ baseline' # baseline =>
            \A c \in Clients : pc[c] \notin Working]_vars
  BY BaselineStep
<1> QED BY <1>1, Invariance, PTL DEF Spec, SnapshotBetweenRequests

\* Every step that writes the live path keeps its state or makes it whole,
\* empty, torn or none.
LEMMA LiveStep ==
    ASSUME IInv, [Next]_vars, live'.state = "other"
    PROVE  live.state = "other"
<1> USE HeldFiles
<1>1. CASE Boot
  <2>1. ASSUME New \/ DeleteFile PROVE FALSE
    BY <2>1, BlankType DEF New, DeleteFile, NoFile, Fresh
  <2>2. CASE BootBackfill
    BY <2>2, BackfilledType DEF BootBackfill
  <2>3. CASE BootSeed
    BY <2>3, SeededType, AccountIDType DEF BootSeed
  <2>4. CASE BootRefused \/ \E a \in Accounts : BootIdentity(a)
    BY <2>4 DEF BootRefused, BootIdentity
  <2> QED BY <1>1, <2>1, <2>2, <2>3, <2>4 DEF Boot
<1>2. ASSUME NEW c \in Clients, Serve(c) PROVE live.state = "other"
  <2>1. CASE ReadAccount(c) \/ Leave(c)
    BY <2>1 DEF ReadAccount, Leave
  <2>2. CASE ~(ReadAccount(c) \/ Leave(c))
    BY <1>2, <2>2, RequestSteps DEF Serve, RequestWrites, File
  <2> QED BY <2>1, <2>2
<1>3. CASE Kill \/ Ask \/ UNCHANGED vars \/ \E c \in Clients, o \in ClientOps : Arrive(c, o)
  BY <1>3 DEF Kill, Ask, Lock, vars, Arrive
<1>4. CASE Administer
  <2>1. CASE SetIdentity
    <3>1. job.account \in Accounts
      BY <2>1 DEF SetIdentity, At, JobOK
    <3> QED BY <2>1, <3>1, StoreIdentityType DEF SetIdentity
  <2>2. CASE Load
    <3>1. job.account \in Accounts /\ job.kinds \in SUBSET (Kinds \ {"fixture", "minted"})
      BY <2>2 DEF Load, At, JobOK, Jobs
    <3> QED BY <2>2, <3>1, LoadedFileType DEF Load
  <2>3. CASE ResetTable
    <3>1. PICK t : t = resetTables[job.table]
      OBVIOUS
    <3>2. DeleteTable(live, t).state = live.state
      BY DeleteTableType
    <3> QED BY <2>3, <3>1, <3>2 DEF ResetTable
  <2>4. CASE CopyOver
    <3>1. At("restore", "rest") => Staged(baseline).state = "whole"
      BY StagedType DEF At, JobOK
    <3> QED BY <2>4, <3>1, BlankType DEF CopyOver
  <2>5. CASE \/ RemoveBaseline \/ VacuumInto \/ Stage \/ CloseLive
             \/ CopyFails \/ Reopen \/ LockGranted \/ Unlock
    BY <2>5 DEF RemoveBaseline, VacuumInto, Stage, CloseLive, CopyFails, Reopen,
                LockGranted, Unlock
  <2> QED BY <1>4, <2>1, <2>2, <2>3, <2>4, <2>5 DEF Administer
<1> QED BY <1>1, <1>2, <1>3, <1>4 DEF Next

\* CRITICAL[restore-refuses-other-schema-version]: whatever baseline is found,
\* no step puts a database of another schema version in the live path.
THEOREM OtherVersionStaysOut == Spec => NoOtherVersionGoesLive
<1>1. IInv /\ [Next]_vars => [live'.state = "other" => live.state = "other"]_vars
  BY LiveStep
<1> QED BY <1>1, Invariance, PTL DEF Spec, NoOtherVersionGoesLive

-----------------------------------------------------------------------------
\* Whether what is served can be read.

\* Restore closes the file to write it over, and has it open and whole as it ends.
Restoring == job.op = "restore" /\ job.step \in {"truncate", "write", "rest", "reopen"}

ReadInv ==
    /\ up # "down" /\ ~Restoring => Readable
    /\ job.op = "restore" /\ job.step = "reopen" => live.state = "whole"
    /\ writer # "held" => job.step \in {"none", "tx", "tables", "remove", "stat"}

\* A statement of a request leaves the file whole, the handle and the job alone.
LEMMA ServeKeeps ==
    ASSUME IInv, NEW c \in Clients, Serve(c)
    PROVE  /\ UNCHANGED <<up, baseline, handle, writer, job>>
           /\ live'.state = live.state /\ live'.account = live.account /\ live'.loaded = live.loaded
<1>1. CASE ReadAccount(c) \/ Leave(c)
  BY <1>1 DEF ReadAccount, Leave
<1>2. CASE ~(ReadAccount(c) \/ Leave(c))
  <2>1. RequestWrites(c)
    BY <1>2, RequestSteps DEF Serve
  <2> QED BY <2>1, HeldFiles DEF RequestWrites, File
<1> QED BY <1>1, <1>2

LEMMA InitReadInv == Init => ReadInv
  BY NoJobOK DEF Init, ReadInv, Restoring

LEMMA NextReadInv ==
    ASSUME IInv, ReadInv, [Next]_vars, "copy" \notin Faults
    PROVE  ReadInv'
<1> USE HeldFiles
<1>1. CASE Boot \/ Kill
  <2>1. CASE New
    <3>1. live'.state = "whole"
      BY <2>1, BlankType DEF New, Fresh
    <3> QED BY <2>1, <3>1 DEF New, ReadInv, Restoring, Readable
  <2>2. CASE DeleteFile
    BY <2>2 DEF DeleteFile, ReadInv, Restoring, BootAlone, IInv, TypeOK
  <2>3. CASE BootRefused \/ Kill
    BY <2>3, NoJobOK DEF BootRefused, Kill, ReadInv, Restoring
  <2>4. CASE BootBackfill
    <3>1. live'.state = live.state
      BY <2>4, BackfilledType DEF BootBackfill
    <3> QED BY <2>4, <3>1 DEF BootBackfill, ReadInv, Restoring, Readable
  <2>5. CASE BootSeed
    <3>1. live'.state = live.state
      BY <2>5, SeededType, AccountIDType DEF BootSeed
    <3> QED BY <2>5, <3>1 DEF BootSeed, ReadInv, Restoring, Readable
  <2>6. ASSUME NEW a \in Accounts, BootIdentity(a) PROVE ReadInv'
    <3>1. job'.step \in {"tx", "tables", "remove", "stat"}
      BY <2>6, BeginType DEF BootIdentity
    <3>2. ~Restoring
      BY <2>6 DEF BootIdentity, ReadInv, Restoring, IInv, BootAlone
    <3> QED BY <2>6, <3>1, <3>2 DEF BootIdentity, ReadInv, Restoring, Readable
  <2> QED BY <1>1, <2>1, <2>2, <2>3, <2>4, <2>5, <2>6 DEF Boot
<1>2. ASSUME NEW c \in Clients, Serve(c) PROVE ReadInv'
  BY <1>2, ServeKeeps DEF ReadInv, Restoring, Readable
<1>3. CASE UNCHANGED vars \/ \E c \in Clients, o \in ClientOps : Arrive(c, o)
  BY <1>3 DEF vars, Arrive, ReadInv, Restoring, Readable
<1>4. CASE Ask
  <2>1. PICK o \in AdminOps, a \in Accounts, ks \in LoadedKinds : Lock(o, a, ks)
    BY <1>4 DEF Ask
  <2>2. job'.step \in {"tx", "tables", "remove", "stat"}
    BY <2>1, BeginType, OpsAssumption DEF Lock
  <2>3. ~Restoring
    BY <2>1 DEF Lock, ReadInv, Restoring
  <2> QED BY <2>1, <2>2, <2>3 DEF Lock, ReadInv, Restoring, Readable
<1>5. CASE LockGranted \/ Unlock
  <2>1. CASE LockGranted
    <3>1. job'.op = job.op /\ job'.step = job.step
      BY <2>1 DEF LockGranted, Jobs
    <3> QED BY <2>1, <3>1 DEF LockGranted, ReadInv, Restoring, Readable
  <2>2. CASE Unlock
    BY <2>2, NoJobOK DEF Unlock, ReadInv, Restoring, Readable
  <2> QED BY <1>5, <2>1, <2>2
<1>6. \A r \in {"ok", "refused", "failed"} : Finish(r) => job'.op = job.op /\ job'.step = "done"
  BY DEF Finish, Jobs
<1>7. \A t \in {"vacuum", "close", "truncate", "write", "rest", "reopen"} : Go(t) => job'.op = job.op /\ job'.step = t
  BY DEF Go, Jobs
<1>8. CASE SetIdentity \/ Load \/ ResetTable \/ RemoveBaseline \/ VacuumInto \/ Stage
  <2>1. writer = "held" /\ writer' = "held" /\ ~Restoring /\ UNCHANGED <<up, handle>>
    BY <1>8 DEF SetIdentity, Load, ResetTable, RemoveBaseline, VacuumInto, Stage, At, Others, Restoring
  <2>2. live'.state = live.state \/ live'.state = "whole"
    <3>1. CASE SetIdentity
      <4>1. job.account \in Accounts
        BY <3>1 DEF SetIdentity, At, JobOK
      <4> QED BY <3>1, <4>1, StoreIdentityType DEF SetIdentity
    <3>2. CASE Load
      <4>1. job.account \in Accounts /\ job.kinds \in SUBSET (Kinds \ {"fixture", "minted"})
        BY <3>2 DEF Load, At, JobOK, Jobs
      <4> QED BY <3>2, <4>1, LoadedFileType DEF Load
    <3>3. CASE ResetTable
      <4>1. PICK t : t = resetTables[job.table]
        OBVIOUS
      <4> QED BY <3>3, <4>1, DeleteTableType DEF ResetTable
    <3>4. CASE RemoveBaseline \/ VacuumInto \/ Stage
      BY <3>4 DEF RemoveBaseline, VacuumInto, Stage
    <3> QED BY <1>8, <3>1, <3>2, <3>3, <3>4
  <2>3. ~Restoring' /\ ~(job'.op = "restore" /\ job'.step = "reopen")
    <3>1. CASE ResetTable
      <4>1. job'.op = "reset"
        BY <1>6, <3>1 DEF ResetTable, At, Jobs
      <4> QED BY <4>1 DEF Restoring
    <3>2. CASE SetIdentity \/ Load
      BY <1>6, <3>2 DEF SetIdentity, Load, Restoring
    <3>3. CASE RemoveBaseline \/ VacuumInto \/ Stage
      BY <1>6, <1>7, <3>3 DEF RemoveBaseline, VacuumInto, Stage, Restoring
    <3> QED BY <1>8, <3>1, <3>2, <3>3
  <2> QED BY <2>1, <2>2, <2>3 DEF ReadInv, Readable
<1>9. CASE CloseLive
  BY <1>7, <1>9 DEF CloseLive, At, Others, ReadInv, Restoring
<1>10. CASE CopyOver
  <2>1. /\ writer = "held" /\ writer' = "held" /\ job.op = "restore" /\ job'.op = "restore"
        /\ job'.step \in {"write", "rest", "reopen"}
        /\ job'.step = "reopen" => job.step = "rest" /\ live' = Staged(baseline)
    BY <1>7, <1>10 DEF CopyOver, At, Others
  <2>2. job'.step = "reopen" => live'.state = "whole"
    BY <2>1, StagedType DEF JobOK
  <2> QED BY <2>1, <2>2 DEF ReadInv, Restoring
<1>11. CASE Reopen
  <2>1. live.state = "whole" /\ handle' = "open" /\ job'.step = "done" /\ live' = live /\ writer' = "held"
    BY <1>6, <1>11 DEF Reopen, At, Others, ReadInv
  <2> QED BY <2>1 DEF ReadInv, Restoring, Readable
<1>12. ~CopyFails
  BY DEF CopyFails
<1> QED BY <1>1, <1>2, <1>3, <1>4, <1>5, <1>8, <1>9, <1>10, <1>11, <1>12 DEF Next, Administer

\* As long as no copy fails, requests are only let in on a database that can be
\* read, whatever kills fell into a restore before.
THEOREM ServedIsReadable ==
    ASSUME "copy" \notin Faults
    PROVE  Spec => []ServesReadable
<1>1. ReadInv => ServesReadable
  BY DEF ReadInv, ServesReadable, Restoring
<1>2. IInv /\ ReadInv /\ [Next]_vars => ReadInv'
  BY NextReadInv
<1> QED BY <1>1, <1>2, InitReadInv, Invariance, PTL DEF Spec

-----------------------------------------------------------------------------
\* How far a reset has come. Past the table that holds the identity, and before the
\* VPCs' goes, the rows left are under an account that is stored no more, and a VPC
\* may have lost its defaults.
MidReset == job.op = "reset" /\ job.step = "tables" /\ job.table > 3

EmptiedInv ==
    /\ writer = "free" => job = NoJob
    /\ job.op = "reset" /\ job.step = "tables" =>
          /\ job.table > 1 => writer = "held" /\ Readable /\ \A r \in live.rows : r[1] \notin {"zone", "ns"}
          /\ job.table > 2 => \A r \in live.rows : r[1] \notin {"key", "pending"}
          /\ job.table > 4 => \A r \in live.rows : r[1] # "fixture"
          /\ job.table > 5 => \A r \in live.rows : r[1] # "minted"
    /\ job.op = "reset" /\ job.step = "remove" => writer = "held" /\ live.rows = {}

\* What a reset's step does, but for a DELETE that fails.
LEMMA ResetTableIs ==
    ASSUME IInv, EmptiedInv, ResetTable, Readable,
           live' = DeleteTable(live, resetTables[job.table]),
           job' = [job EXCEPT !.table = @ + 1, !.step = IF job.table = Len(resetTables) THEN "remove" ELSE @]
    PROVE  /\ job'.op = "reset" /\ Readable' /\ EmptiedInv'
           /\ \/ MidReset'
              \/ live'.rows = {} /\ ~MidReset'
              \/ /\ ~MidReset /\ ~MidReset' /\ live'.account = live.account /\ live'.loaded = live.loaded
                 /\ live'.rows \subseteq live.rows
                 /\ \A r \in live.rows : r[1] \in {"bare", "minted"} => r \in live'.rows
<1> USE HeldFiles
<1>1. job.op = "reset" /\ job.step = "tables" /\ job.table \in 1 .. 6 /\ writer = "held" /\ writer' = "held"
      /\ handle' = handle
  BY DEF ResetTable, At, Others, JobOK
<1>2. job'.op = "reset" /\ job'.table = job.table + 1 /\ job'.step = IF job.table = 6 THEN "remove" ELSE "tables"
  BY <1>1, TableCount DEF Jobs
<1>3. live'.state = live.state
  <2>1. PICK t : t = resetTables[job.table]
    OBVIOUS
  <2> QED BY <2>1, DeleteTableType
<1>4. Readable'
  BY <1>1, <1>3 DEF Readable
<1>5. live.rows \subseteq Kinds \X Accounts
  BY DEF File
<1>6. CASE job.table = 1
  <2>1. live' = [live EXCEPT !.rows = {r \in live.rows : r[1] \notin {"zone", "ns"}}]
    BY <1>6 DEF resetTables, DeleteTable
  <2>2. /\ live'.rows = {r \in live.rows : r[1] \notin {"zone", "ns"}} /\ live'.account = live.account
        /\ live'.loaded = live.loaded
    BY <2>1 DEF File
  <2> QED BY <1>1, <1>2, <1>4, <1>6, <2>2 DEF EmptiedInv, MidReset
<1>7. CASE job.table = 2
  <2>1. live' = [live EXCEPT !.rows = {r \in live.rows : r[1] \notin {"key", "pending"}}]
    BY <1>7 DEF resetTables, DeleteTable
  <2>2. /\ live'.rows = {r \in live.rows : r[1] \notin {"key", "pending"}} /\ live'.account = live.account
        /\ live'.loaded = live.loaded
    BY <2>1 DEF File
  <2> QED BY <1>1, <1>2, <1>4, <1>7, <2>2 DEF EmptiedInv, MidReset
<1>8. CASE job.table = 3
  <2>1. live'.rows = live.rows
    BY <1>8 DEF resetTables, DeleteTable, File
  <2> QED BY <1>1, <1>2, <1>4, <1>8, <2>1 DEF EmptiedInv, MidReset
<1>9. CASE job.table = 4
  <2>1. live' = [live EXCEPT !.rows = {r \in live.rows : r[1] \notin {"fixture"}}]
    BY <1>9 DEF resetTables, DeleteTable
  <2>2. live'.rows = {r \in live.rows : r[1] \notin {"fixture"}}
    BY <2>1 DEF File
  <2> QED BY <1>1, <1>2, <1>4, <1>9, <2>2 DEF EmptiedInv, MidReset
<1>10. CASE job.table = 5
  <2>1. live' = [live EXCEPT !.rows = {r \in live.rows : r[1] \notin {"minted"}}]
    BY <1>10 DEF resetTables, DeleteTable
  <2>2. live'.rows = {r \in live.rows : r[1] \notin {"minted"}}
    BY <2>1 DEF File
  <2> QED BY <1>1, <1>2, <1>4, <1>10, <2>2 DEF EmptiedInv, MidReset
<1>11. CASE job.table = 6
  <2>1. live' = [live EXCEPT !.rows = {r \in live.rows : r[1] \notin {"vpc", "bare"}}]
    BY <1>11 DEF resetTables, DeleteTable
  <2>2. live'.rows = {r \in live.rows : r[1] \notin {"vpc", "bare"}}
    BY <2>1 DEF File
  <2>3. \A r \in live.rows : r[1] \in {"vpc", "bare"}
    BY <1>1, <1>5, <1>11 DEF EmptiedInv, Kinds
  <2> QED BY <1>1, <1>2, <1>4, <1>11, <2>2, <2>3 DEF EmptiedInv, MidReset
<1> QED BY <1>1, <1>6, <1>7, <1>8, <1>9, <1>10, <1>11

LEMMA BeginIs ==
    ASSUME NEW o \in {"identity", "reset", "snapshot", "restore", "load"}, NEW a, NEW ks
    PROVE  Begin(o, a, ks).op = o /\ Begin(o, a, ks).table = 1 /\ (o = "reset" => Begin(o, a, ks).step = "tables")
  BY DEF Begin

LEMMA NextEmptiedInv ==
    ASSUME IInv, EmptiedInv, [Next]_vars
    PROVE  EmptiedInv'
<1> USE HeldFiles
<1>1. CASE Boot \/ Kill
  <2>1. CASE New \/ DeleteFile \/ BootBackfill \/ BootSeed
    <3>1. writer = "free" /\ writer' = "free" /\ job' = NoJob
      BY <2>1 DEF New, DeleteFile, BootBackfill, BootSeed, BootAlone, IInv, EmptiedInv
    <3> QED BY <3>1, NoJobOK DEF EmptiedInv
  <2>2. CASE BootRefused \/ Kill
    BY <2>2, NoJobOK DEF BootRefused, Kill, EmptiedInv
  <2>3. ASSUME NEW a \in Accounts, BootIdentity(a) PROVE EmptiedInv'
    BY <2>3, BeginIs DEF BootIdentity, EmptiedInv
  <2> QED BY <1>1, <2>1, <2>2, <2>3 DEF Boot
<1>2. ASSUME NEW c \in Clients, Serve(c) PROVE EmptiedInv'
  <2>1. pc[c] \in Holding
    <3>1. CASE ReadAccount(c) \/ Leave(c)
      BY <3>1 DEF ReadAccount, Leave, Holding
    <3>2. CASE ~(ReadAccount(c) \/ Leave(c))
      BY <1>2, <3>2, RequestSteps DEF Serve, RequestWrites, Working, Holding
    <3> QED BY <3>1, <3>2
  <2>2. writer # "held"
    BY <2>1 DEF IInv, Mutex
  <2> QED BY <1>2, <2>2, ServeKeeps DEF EmptiedInv, JobOK
<1>3. CASE UNCHANGED vars \/ \E c \in Clients, o \in ClientOps : Arrive(c, o)
  BY <1>3 DEF vars, Arrive, EmptiedInv, Readable
<1>4. CASE Ask
  <2>1. PICK o \in AdminOps, a \in Accounts, ks \in LoadedKinds : Lock(o, a, ks)
    BY <1>4 DEF Ask
  <2> QED BY <2>1, BeginIs, OpsAssumption DEF Lock, EmptiedInv
<1>5. CASE LockGranted
  <2>1. job'.op = job.op /\ job'.step = job.step /\ job'.table = job.table
    BY <1>5 DEF LockGranted, Jobs
  <2> QED BY <1>5, <2>1 DEF LockGranted, EmptiedInv, Readable
<1>6. CASE Unlock
  BY <1>6, NoJobOK DEF Unlock, EmptiedInv
<1>7. \A r \in {"ok", "refused", "failed"} : Finish(r) => job'.op = job.op /\ job'.step = "done"
  BY DEF Finish, Jobs
<1>8. \A t \in {"vacuum", "close", "truncate", "write", "rest", "reopen"} : Go(t) => job'.op = job.op /\ job'.step = t
  BY DEF Go, Jobs
<1>9. CASE ResetTable
  <2>1. CASE Readable /\ live' = DeleteTable(live, resetTables[job.table])
             /\ job' = [job EXCEPT !.table = @ + 1, !.step = IF job.table = Len(resetTables) THEN "remove" ELSE @]
    BY <1>9, <2>1, ResetTableIs
  <2>2. CASE Finish("failed")
    BY <1>7, <1>9, <2>2 DEF ResetTable, At, Others, EmptiedInv
  <2> QED BY <1>9, <2>1, <2>2 DEF ResetTable
<1>10. CASE SetIdentity \/ Load \/ RemoveBaseline \/ VacuumInto \/ Stage \/ CloseLive \/ CopyFails \/ Reopen
  <2>1. writer = "held" /\ writer' = "held"
    BY <1>10 DEF SetIdentity, Load, RemoveBaseline, VacuumInto, Stage, CloseLive, CopyFails, Reopen, At, Others
  <2>2. job'.step \notin {"tables", "remove"}
    <3>1. CASE SetIdentity \/ Load \/ VacuumInto \/ CopyFails
      BY <1>7, <3>1 DEF SetIdentity, Load, VacuumInto, CopyFails
    <3>2. CASE RemoveBaseline \/ Stage \/ CloseLive \/ Reopen
      BY <1>7, <1>8, <3>2 DEF RemoveBaseline, Stage, CloseLive, Reopen
    <3> QED BY <1>10, <3>1, <3>2
  <2> QED BY <2>1, <2>2 DEF EmptiedInv
<1>11. CASE CopyOver
  <2>1. writer' = "held" /\ job'.step \in {"write", "rest", "reopen"}
    BY <1>8, <1>11 DEF CopyOver, At, Others
  <2> QED BY <2>1 DEF EmptiedInv
<1> QED BY <1>1, <1>2, <1>3, <1>4, <1>5, <1>6, <1>9, <1>10, <1>11 DEF Next, Administer

-----------------------------------------------------------------------------
\* What a request adds or deletes is under the stored account, and of a kind it may
\* write: no VPC of another build, and no fixture where a load owns the AMIs.

Grown(rows, a) ==
    /\ \A r \in rows : r \in live.rows
                       \/ (r[2] = a /\ r[1] \notin {"bare", "minted"} /\ (r[1] = "fixture" => ~live.loaded))
    /\ \A r \in live.rows : r \in rows \/ (r[2] = a /\ r[1] \in {"zone", "ns", "key"})

LEMMA StatementGrows ==
    ASSUME IInv, NEW c \in Clients, NEW CONSTANT place \in Working, NEW CONSTANT o, NEW STATE R, NEW STATE next,
           Statement(c, place, o, R, next), Grown(R, acct[c])
    PROVE  Grown(live'.rows, AccountID(live))
<1>1. acct[c] = AccountID(live)
  BY DEF Statement, IInv, RequestKeepsItsAccount
<1>2. live'.rows = R \/ live'.rows = live.rows
  BY HeldFiles DEF Statement, File
<1> QED BY <1>1, <1>2 DEF Grown

LEMMA ServeRows ==
    ASSUME IInv, NEW c \in Clients, Serve(c)
    PROVE  Grown(live'.rows, AccountID(live))
<1> DEFINE a == acct[c]
<1>1. Row(c, "zone") = {<<"zone", a>>} /\ Row(c, "ns") = {<<"ns", a>>} /\ Row(c, "key") = {<<"key", a>>}
      /\ Row(c, "pending") = {<<"pending", a>>} /\ Row(c, "vpc") = {<<"vpc", a>>}
  BY DEF Row
<1>2. CASE ReadAccount(c) \/ Leave(c)
  BY <1>2 DEF ReadAccount, Leave, Grown
<1>3. CASE CreateHostedZone(c)
  <2> DEFINE Ns == IF <<"zone", acct[c]>> \in live.rows THEN live.rows \cup Row(c, "ns") ELSE live.rows
  <2>1. Grown(live.rows \cup Row(c, "zone"), a) /\ Grown(Ns, a)
    BY <1>1 DEF Grown
  <2>2. CASE Statement(c, "write", "CreateHostedZone", live.rows \cup Row(c, "zone"), "records")
    BY <2>1, <2>2, StatementGrows DEF Working
  <2>3. CASE Statement(c, "records", "CreateHostedZone", Ns, "leave")
    <3> HIDE DEF Ns
    <3> QED BY <2>1, <2>3, StatementGrows DEF Working
  <2> QED BY <1>3, <2>2, <2>3 DEF CreateHostedZone
<1>4. CASE DeleteHostedZone(c)
  <2>1. PICK rows \in {live.rows, live.rows \ (Row(c, "zone") \cup Row(c, "ns"))} :
           Statement(c, "write", "DeleteHostedZone", rows, "leave")
    BY <1>4 DEF DeleteHostedZone
  <2>2. Grown(rows, a)
    BY <1>1 DEF Grown
  <2> QED BY <2>1, <2>2, StatementGrows DEF Working
<1>5. CASE CreateKey(c)
  <2>1. Grown(live.rows \cup Row(c, "key"), a)
    BY <1>1 DEF Grown
  <2> QED BY <1>5, <2>1, StatementGrows DEF CreateKey, Working
<1>6. CASE ScheduleKeyDeletion(c)
  <2>1. PICK rows \in {live.rows, live.rows \ Row(c, "key")} :
           Statement(c, "write", "ScheduleKeyDeletion", rows \cup Row(c, "pending"), "leave")
    BY <1>6 DEF ScheduleKeyDeletion
  <2>2. Grown(rows \cup Row(c, "pending"), a)
    BY <1>1 DEF Grown
  <2> QED BY <2>1, <2>2, StatementGrows DEF Working
<1>7. CASE NoSuchKey(c)
  <2>1. Grown(live.rows, a)
    BY DEF Grown
  <2> QED BY <1>7, <2>1, StatementGrows DEF NoSuchKey, Working
<1>8. CASE CreateVpc(c)
  <2>1. Grown(live.rows \cup Row(c, "vpc"), a)
    BY <1>1 DEF Grown
  <2> QED BY <1>8, <2>1, StatementGrows DEF CreateVpc, Working
<1>9. CASE DescribeImages(c)
  <2>1. Grown(live.rows, a)
    BY DEF Grown
  <2>2. Seeded(live, acct[c]).rows = live.rows \cup {<<"fixture", a>>}
    BY HeldFiles DEF Seeded, File
  <2>3. ~live.loaded => Grown(Seeded(live, acct[c]).rows, a)
    BY <2>2 DEF Grown
  <2>4. CASE Statement(c, "write", "DescribeImages", live.rows, IF live.loaded THEN "leave" ELSE "seed")
    <3> DEFINE next == IF live.loaded THEN "leave" ELSE "seed"
    <3>1. Statement(c, "write", "DescribeImages", live.rows, next)
      BY <2>4
    <3> HIDE DEF next
    <3> QED BY <2>1, <3>1, StatementGrows DEF Working
  <2>5. CASE Statement(c, "seed", "DescribeImages", Seeded(live, acct[c]).rows, "leave")
    <3>1. ~live.loaded
      BY <2>5 DEF Statement, SeedsUnloaded, IInv
    <3> QED BY <2>3, <2>5, <3>1, StatementGrows DEF Working
  <2> QED BY <1>9, <2>4, <2>5 DEF DescribeImages
<1> QED BY <1>2, <1>3, <1>4, <1>5, <1>6, <1>7, <1>8, <1>9 DEF Serve

-----------------------------------------------------------------------------
\* Whether what is served has the defaults of its VPCs.

Filled(f) == ~f.loaded => \A a \in Accounts : <<"bare", a>> \in f.rows => <<"minted", a>> \in f.rows

FilledInv == up \in {"seeding", "serving"} /\ ~MidReset => Filled(live)

LEMMA FilledFiles ==
    /\ Filled(NoFile) /\ \A s : Filled(Blank(s))
    /\ \A f \in File : Filled(Backfilled(f)) /\ (Stageable(f) => Filled(Staged(f)))
    /\ \A f \in File, a \in Accounts : Filled(f) => Filled(StoreIdentity(f, a)) /\ Filled(Seeded(f, a))
    /\ \A ks : \A a \in Accounts : Filled(LoadedFile(a, ks))
<1>1. Filled(NoFile) /\ \A s : Filled(Blank(s))
  BY DEF Filled, NoFile, Blank
<1>2. ASSUME NEW f \in File PROVE Filled(Backfilled(f)) /\ (Stageable(f) => Filled(Staged(f)))
  <2> DEFINE after == Backfilled(f)
  <2>1. ASSUME f.loaded PROVE Filled(after)
    <3>1. after = f
      BY <2>1 DEF Backfilled
    <3> HIDE DEF after
    <3> QED BY <2>1, <3>1 DEF Filled
  <2>2. ASSUME ~f.loaded PROVE Filled(after)
    <3> DEFINE M == {<<"minted", a>> : a \in {b \in Accounts : <<"bare", b>> \in f.rows}}
    <3>1. after.rows = f.rows \cup M
      BY <2>2 DEF Backfilled, BackfilledAlways, File
    <3>2. \A a \in Accounts : <<"bare", a>> \in f.rows => <<"minted", a>> \in M
      OBVIOUS
    <3>3. ASSUME NEW r \in M PROVE r[1] = "minted"
      <4>1. PICK a \in {b \in Accounts : <<"bare", b>> \in f.rows} : r = <<"minted", a>>
        OBVIOUS
      <4> QED BY <4>1
    <3> HIDE DEF M, after
    <3>4. \A a \in Accounts : <<"bare", a>> \in f.rows \cup M => <<"minted", a>> \in f.rows \cup M
      BY <3>2, <3>3
    <3> QED BY <3>1, <3>4 DEF Filled
  <2>3. Filled(after)
    BY <2>1, <2>2
  <2> QED BY <1>1, <2>3 DEF Staged, Fresh
<1>3. ASSUME NEW f \in File, NEW a \in Accounts, Filled(f) PROVE Filled(StoreIdentity(f, a)) /\ Filled(Seeded(f, a))
  <2>1. StoreIdentity(f, a).rows = f.rows /\ StoreIdentity(f, a).loaded = f.loaded
    BY DEF StoreIdentity, File
  <2>2. Seeded(f, a).rows = f.rows \cup {<<"fixture", a>>} /\ Seeded(f, a).loaded = f.loaded
    BY DEF Seeded, File
  <2> QED BY <1>3, <2>1, <2>2 DEF Filled
<1>4. ASSUME NEW a \in Accounts, NEW ks PROVE Filled(LoadedFile(a, ks))
  BY DEF Filled, LoadedFile
<1> QED BY <1>1, <1>2, <1>3, <1>4

\* What a reset's step can be when no DELETE fails of itself.
LEMMA ResetTableCases ==
    ASSUME IInv, EmptiedInv, ResetTable, "delete" \notin Faults
    PROVE  /\ UNCHANGED <<up, baseline>>
           /\ \/ MidReset'
              \/ live'.rows = {}
              \/ /\ ~MidReset /\ live'.account = live.account /\ live'.loaded = live.loaded
                 /\ live'.rows \subseteq live.rows
                 /\ \A r \in live.rows : r[1] \in {"bare", "minted"} => r \in live'.rows
<1>1. UNCHANGED <<up, baseline>>
  BY DEF ResetTable, Others
<1>2. CASE Readable /\ live' = DeleteTable(live, resetTables[job.table])
           /\ job' = [job EXCEPT !.table = @ + 1, !.step = IF job.table = Len(resetTables) THEN "remove" ELSE @]
  BY <1>1, <1>2, ResetTableIs
<1>3. CASE ~Readable /\ live' = live
  <2>1. ~MidReset
    BY <1>3, HeldFiles DEF EmptiedInv, MidReset, JobOK
  <2> QED BY <1>1, <1>3, <2>1
<1> QED BY <1>2, <1>3 DEF ResetTable

\* Every other step under the lock is of no reset past the identity.
LEMMA NotMidReset ==
    ASSUME IInv, \/ SetIdentity \/ Load \/ RemoveBaseline \/ VacuumInto \/ Stage \/ CloseLive \/ CopyOver
                 \/ CopyFails \/ Reopen \/ Unlock
    PROVE  ~MidReset
  BY DEF SetIdentity, Load, RemoveBaseline, VacuumInto, Stage, CloseLive, CopyOver, CopyFails, Reopen, Unlock,
         At, MidReset

LEMMA NextFilledInv ==
    ASSUME IInv, EmptiedInv, FilledInv, [Next]_vars, "delete" \notin Faults
    PROVE  FilledInv'
<1> USE HeldFiles
<1>1. CASE Boot \/ Kill
  <2>1. CASE New \/ DeleteFile \/ BootRefused \/ Kill \/ \E a \in Accounts : BootIdentity(a)
    BY <2>1 DEF New, DeleteFile, BootRefused, Kill, BootIdentity, FilledInv
  <2>2. CASE BootBackfill
    BY <2>2, FilledFiles DEF BootBackfill, FilledInv
  <2>3. CASE BootSeed
    <3>1. ~MidReset /\ Filled(live)
      BY <2>3, NoJobOK DEF BootSeed, IInv, BootAlone, EmptiedInv, MidReset, FilledInv
    <3>2. Filled(Seeded(live, AccountID(live)))
      BY <3>1, FilledFiles, AccountIDType
    <3> QED BY <2>3, <3>1, <3>2 DEF BootSeed, FilledInv
  <2> QED BY <1>1, <2>1, <2>2, <2>3 DEF Boot
<1>2. ASSUME NEW c \in Clients, Serve(c) PROVE FilledInv'
  <2>1. UNCHANGED <<up, job>> /\ live'.loaded = live.loaded
    BY <1>2, ServeKeeps
  <2>2. Grown(live'.rows, AccountID(live))
    BY <1>2, ServeRows
  <2>3. \A a \in Accounts : (<<"bare", a>> \in live'.rows => <<"bare", a>> \in live.rows)
                          /\ (<<"minted", a>> \in live.rows => <<"minted", a>> \in live'.rows)
    BY <2>2 DEF Grown
  <2> QED BY <2>1, <2>3 DEF FilledInv, Filled, MidReset
<1>3. CASE UNCHANGED vars \/ \E c \in Clients, o \in ClientOps : Arrive(c, o)
  BY <1>3 DEF vars, Arrive, FilledInv, MidReset
<1>4. CASE Ask
  <2>1. UNCHANGED <<up, live>> /\ writer = "free"
    BY <1>4 DEF Ask, Lock
  <2>2. ~MidReset
    BY <2>1, NoJobOK DEF EmptiedInv, MidReset
  <2> QED BY <2>1, <2>2 DEF FilledInv
<1>5. CASE LockGranted
  <2>1. job'.op = job.op /\ job'.step = job.step /\ job'.table = job.table
    BY <1>5 DEF LockGranted, Jobs
  <2> QED BY <1>5, <2>1 DEF LockGranted, FilledInv, MidReset
<1>6. CASE ResetTable
  <2>1. CASE ~MidReset /\ live'.loaded = live.loaded /\ live'.rows \subseteq live.rows
             /\ \A r \in live.rows : r[1] \in {"bare", "minted"} => r \in live'.rows
    <3>1. \A a \in Accounts : <<"minted", a>> \in live.rows => <<"minted", a>> \in live'.rows
      BY <2>1
    <3> QED BY <1>6, <2>1, <3>1, ResetTableCases DEF FilledInv, Filled
  <2>2. CASE MidReset'
    BY <2>2 DEF FilledInv
  <2>3. CASE live'.rows = {}
    BY <2>3 DEF FilledInv, Filled
  <2> QED BY <1>6, <2>1, <2>2, <2>3, ResetTableCases
<1>7. CASE SetIdentity \/ Load \/ RemoveBaseline \/ VacuumInto \/ Stage \/ CloseLive \/ CopyOver
           \/ CopyFails \/ Reopen \/ Unlock
  <2>1. ~MidReset /\ up' = up
    BY <1>7, NotMidReset DEF SetIdentity, Load, RemoveBaseline, VacuumInto, Stage, CloseLive, CopyOver, CopyFails,
                             Reopen, Unlock, Others
  <2>2. ASSUME Filled(live) PROVE Filled(live')
    <3>1. CASE SetIdentity
      <4>1. job.account \in Accounts
        BY <3>1 DEF SetIdentity, At, JobOK
      <4>2. live' = live \/ live' = StoreIdentity(live, job.account)
        BY <3>1 DEF SetIdentity
      <4>3. Filled(StoreIdentity(live, job.account))
        BY <2>2, <4>1, FilledFiles
      <4> QED BY <2>2, <4>2, <4>3
    <3>2. CASE Load
      <4>1. job.account \in Accounts
        BY <3>2 DEF Load, At, JobOK
      <4>2. live' = live \/ live' = LoadedFile(job.account, job.kinds)
        BY <3>2 DEF Load
      <4>3. Filled(LoadedFile(job.account, job.kinds))
        BY <4>1, FilledFiles
      <4> QED BY <2>2, <4>2, <4>3
    <3>3. CASE CopyOver
      <4>1. live' = Blank("empty") \/ live' = Blank("torn") \/ (Stageable(baseline) /\ live' = Staged(baseline))
        BY <3>3 DEF CopyOver, At, JobOK
      <4>2. Filled(Blank("empty")) /\ Filled(Blank("torn")) /\ (Stageable(baseline) => Filled(Staged(baseline)))
        BY FilledFiles
      <4> QED BY <4>1, <4>2
    <3>4. CASE RemoveBaseline \/ VacuumInto \/ Stage \/ CloseLive \/ CopyFails \/ Reopen \/ Unlock
      BY <2>2, <3>4 DEF RemoveBaseline, VacuumInto, Stage, CloseLive, CopyFails, Reopen, Unlock
    <3> QED BY <1>7, <3>1, <3>2, <3>3, <3>4
  <2> QED BY <2>1, <2>2 DEF FilledInv
<1> QED BY <1>1, <1>2, <1>3, <1>4, <1>5, <1>6, <1>7 DEF Next, Administer

\* As long as no DELETE of a reset fails, no request sees a VPC without its defaults
\* but one a load recorded so, wherever a kill cut a reset or a restore short.
THEOREM ServedHaveDefaults ==
    ASSUME "delete" \notin Faults
    PROVE  Spec => []ServedVPCsHaveDefaults
<1>1. IInv /\ EmptiedInv /\ FilledInv => ServedVPCsHaveDefaults
  <2>1. IInv /\ EmptiedInv /\ writer # "held" => ~MidReset
    BY HeldFiles DEF EmptiedInv, MidReset, JobOK
  <2> QED BY <2>1 DEF FilledInv, Filled, ServedVPCsHaveDefaults
<1>2. Init => EmptiedInv /\ FilledInv
  BY NoJobOK DEF Init, EmptiedInv, FilledInv
<1>3. IInv /\ EmptiedInv /\ FilledInv /\ [Next]_vars => EmptiedInv' /\ FilledInv'
  BY NextEmptiedInv, NextFilledInv
<1> QED BY <1>1, <1>2, <1>3, Invariance, PTL DEF Spec

-----------------------------------------------------------------------------
\* Whether what is served is of the account that is stored.

UnderOneAccount(f) == \A r \in Counted(f) : r[2] = AccountID(f)

UnderInv == UnderOneAccount(baseline) /\ (~MidReset => UnderOneAccount(live))

LEMMA UnderFiles ==
    /\ UnderOneAccount(NoFile) /\ \A s : UnderOneAccount(Blank(s))
    /\ \A f \in File : UnderOneAccount(f) =>
          /\ UnderOneAccount(Backfilled(f)) /\ (Stageable(f) => UnderOneAccount(Staged(f)))
          /\ \A a \in Accounts : UnderOneAccount(Seeded(f, a))
    /\ \A f \in File, a \in Accounts : Counted(f) = {} \/ (UnderOneAccount(f) /\ AccountID(f) = a) => UnderOneAccount(StoreIdentity(f, a))
    /\ \A ks : \A a \in Accounts : UnderOneAccount(LoadedFile(a, ks))
<1>1. UnderOneAccount(NoFile) /\ \A s : UnderOneAccount(Blank(s))
  BY DEF UnderOneAccount, NoFile, Blank, Counted
<1>2. ASSUME NEW f \in File, UnderOneAccount(f)
      PROVE  UnderOneAccount(Backfilled(f)) /\ (Stageable(f) => UnderOneAccount(Staged(f))) /\ \A a \in Accounts : UnderOneAccount(Seeded(f, a))
  <2> DEFINE after == Backfilled(f)
  <2>1. ASSUME f.loaded PROVE UnderOneAccount(after)
    <3>1. after = f
      BY <2>1 DEF Backfilled
    <3> HIDE DEF after
    <3> QED BY <1>2, <3>1
  <2>2. ASSUME ~f.loaded PROVE UnderOneAccount(after)
    <3> DEFINE M == {<<"minted", a>> : a \in {b \in Accounts : <<"bare", b>> \in f.rows}}
    <3>1. after.rows = f.rows \cup M /\ after.account = f.account
      BY <2>2 DEF Backfilled, BackfilledAlways, File
    <3>2. \A a : <<"bare", a>> \in f.rows => a = AccountID(f)
      BY <1>2 DEF UnderOneAccount, Counted, emptyExclusions
    <3>3. ASSUME NEW r \in M PROVE r[2] = AccountID(f)
      <4>1. PICK a \in {b \in Accounts : <<"bare", b>> \in f.rows} : r = <<"minted", a>>
        OBVIOUS
      <4> QED BY <3>2, <4>1
    <3> HIDE DEF M, after
    <3>4. AccountID(after) = AccountID(f)
      BY <3>1 DEF AccountID
    <3> QED BY <1>2, <3>1, <3>3, <3>4 DEF UnderOneAccount, Counted
  <2>3. UnderOneAccount(after)
    BY <2>1, <2>2
  <2>4. ASSUME NEW a \in Accounts PROVE UnderOneAccount(Seeded(f, a))
    <3> DEFINE seeded == Seeded(f, a)
    <3>1. seeded.rows = f.rows \cup {<<"fixture", a>>} /\ seeded.account = f.account
      BY DEF Seeded, File
    <3> HIDE DEF seeded
    <3>2. AccountID(seeded) = AccountID(f)
      BY <3>1 DEF AccountID
    <3>3. UnderOneAccount(seeded)
      BY <1>2, <3>1, <3>2 DEF UnderOneAccount, Counted, emptyExclusions
    <3> QED BY <3>3 DEF seeded
  <2> QED BY <1>1, <2>3, <2>4 DEF Staged, Fresh
<1>3. ASSUME NEW f \in File, NEW a \in Accounts, Counted(f) = {} \/ (UnderOneAccount(f) /\ AccountID(f) = a)
      PROVE  UnderOneAccount(StoreIdentity(f, a))
  <2>1. StoreIdentity(f, a).rows = f.rows /\ StoreIdentity(f, a).account = a
    BY DEF StoreIdentity, File
  <2>2. AccountID(StoreIdentity(f, a)) = a
    BY <2>1, DefaultAssumption DEF AccountID
  <2> QED BY <1>3, <2>1, <2>2 DEF UnderOneAccount, Counted
<1>4. ASSUME NEW a \in Accounts, NEW ks PROVE UnderOneAccount(LoadedFile(a, ks))
  <2>1. LoadedFile(a, ks).rows = ks \X {a} /\ LoadedFile(a, ks).account = a
    BY DEF LoadedFile
  <2>2. AccountID(LoadedFile(a, ks)) = a
    BY <2>1, DefaultAssumption DEF AccountID
  <2> QED BY <2>1, <2>2 DEF UnderOneAccount, Counted
<1> QED BY <1>1, <1>2, <1>3, <1>4

LEMMA InitUnderInv == Init => UnderInv
<1> SUFFICES ASSUME Init PROVE UnderInv
  OBVIOUS
<1>1. ASSUME NEW f \in OldFiles PROVE UnderOneAccount(f)
  <2> DEFINE old == [Fresh EXCEPT !.rows = {<<"bare", Default>>}]
  <2>1. old.rows = {<<"bare", Default>>} /\ old.account = None
    BY DEF Fresh, Blank
  <2>2. UnderOneAccount(old)
    <3> HIDE DEF old
    <3> QED BY <2>1 DEF UnderOneAccount, Counted, AccountID
  <2>3. f \in {NoFile, Blank("other"), old}
    BY DEF OldFiles
  <2> HIDE DEF old
  <2> QED BY <2>2, <2>3, UnderFiles
<1> QED BY <1>1 DEF Init, UnderInv

LEMMA NextUnderInv ==
    ASSUME IInv, EmptiedInv, UnderInv, [Next]_vars, Faults \cap {"kill", "delete"} = {}
    PROVE  UnderInv'
<1> USE HeldFiles
<1>1. CASE Boot
  <2>1. CASE New \/ DeleteFile \/ BootBackfill \/ BootSeed
    <3>1. ~MidReset /\ UnderOneAccount(live) /\ UnderOneAccount(baseline) /\ baseline' = baseline
      BY <2>1, NoJobOK DEF New, DeleteFile, BootBackfill, BootSeed, IInv, BootAlone, EmptiedInv, MidReset, UnderInv
    <3>2. \/ live' \in {live, Blank("whole"), NoFile}
          \/ live' = Backfilled(live)
          \/ live' = Seeded(live, AccountID(live))
      BY <2>1 DEF New, DeleteFile, BootBackfill, BootSeed, Fresh
    <3>3. /\ UnderOneAccount(Blank("whole")) /\ UnderOneAccount(NoFile) /\ UnderOneAccount(Backfilled(live)) /\ UnderOneAccount(Seeded(live, AccountID(live)))
      BY <3>1, UnderFiles, AccountIDType
    <3> QED BY <3>1, <3>2, <3>3 DEF UnderInv
  <2>2. CASE BootRefused
    <3>1. ~MidReset
      BY <2>2 DEF BootRefused, MidReset
    <3> QED BY <2>2, <3>1 DEF BootRefused, UnderInv
  <2>3. ASSUME NEW a \in Accounts, BootIdentity(a) PROVE UnderInv'
    <3>1. ~MidReset
      BY <2>3, NoJobOK DEF BootIdentity, IInv, BootAlone, EmptiedInv, MidReset
    <3> QED BY <2>3, <3>1 DEF BootIdentity, UnderInv
  <2> QED BY <1>1, <2>1, <2>2, <2>3 DEF Boot
<1>2. ASSUME NEW c \in Clients, Serve(c) PROVE UnderInv'
  <2>1. UNCHANGED <<job, baseline>> /\ live'.account = live.account
    BY <1>2, ServeKeeps
  <2>2. Grown(live'.rows, AccountID(live))
    BY <1>2, ServeRows
  <2>3. \A r \in live'.rows : r \in live.rows \/ r[2] = AccountID(live)
    BY <2>2 DEF Grown
  <2>4. AccountID(live') = AccountID(live)
    BY <2>1 DEF AccountID
  <2>5. UnderOneAccount(live) => UnderOneAccount(live')
    BY <2>3, <2>4 DEF UnderOneAccount, Counted
  <2> QED BY <2>1, <2>5 DEF UnderInv, MidReset
<1>3. CASE UNCHANGED vars \/ \E c \in Clients, o \in ClientOps : Arrive(c, o)
  BY <1>3 DEF vars, Arrive, UnderInv, MidReset
<1>4. CASE Ask
  <2>1. UNCHANGED <<live, baseline>> /\ writer = "free"
    BY <1>4 DEF Ask, Lock
  <2>2. ~MidReset
    BY <2>1, NoJobOK DEF EmptiedInv, MidReset
  <2> QED BY <2>1, <2>2 DEF UnderInv
<1>5. CASE LockGranted
  <2>1. job'.op = job.op /\ job'.step = job.step /\ job'.table = job.table
    BY <1>5 DEF LockGranted, Jobs
  <2> QED BY <1>5, <2>1 DEF LockGranted, UnderInv, MidReset
<1>6. CASE ResetTable
  <2>1. baseline' = baseline
    BY <1>6, ResetTableCases
  <2>2. CASE ~MidReset /\ live'.account = live.account /\ live'.rows \subseteq live.rows
    <3>1. AccountID(live') = AccountID(live)
      BY <2>2 DEF AccountID
    <3>2. UnderOneAccount(live')
      BY <2>2, <3>1 DEF UnderInv, UnderOneAccount, Counted
    <3> QED BY <2>1, <3>2 DEF UnderInv
  <2>3. CASE MidReset'
    BY <2>1, <2>3 DEF UnderInv
  <2>4. CASE live'.rows = {}
    <3>1. UnderOneAccount(live')
      BY <2>4 DEF UnderOneAccount, Counted
    <3> QED BY <2>1, <3>1 DEF UnderInv
  <2> QED BY <1>6, <2>2, <2>3, <2>4, ResetTableCases
<1>7. CASE SetIdentity \/ Load \/ RemoveBaseline \/ VacuumInto \/ Stage \/ CloseLive \/ CopyOver
           \/ CopyFails \/ Reopen \/ Unlock
  <2>1. UnderOneAccount(live) /\ UnderOneAccount(baseline)
    BY <1>7, NotMidReset DEF UnderInv
  <2>2. UnderOneAccount(live')
    <3>1. CASE SetIdentity
      <4>1. job.account \in Accounts
        BY <3>1 DEF SetIdentity, At, JobOK
      <4>2. \/ live' = live
            \/ /\ live' = StoreIdentity(live, job.account)
               /\ Counted(live) = {} \/ AccountID(live) = job.account
        BY <3>1 DEF SetIdentity
      <4>3. Counted(live) = {} \/ AccountID(live) = job.account => UnderOneAccount(StoreIdentity(live, job.account))
        BY <2>1, <4>1, UnderFiles
      <4> QED BY <2>1, <4>2, <4>3
    <3>2. CASE Load
      <4>1. job.account \in Accounts
        BY <3>2 DEF Load, At, JobOK
      <4>2. live' = live \/ live' = LoadedFile(job.account, job.kinds)
        BY <3>2 DEF Load
      <4>3. UnderOneAccount(LoadedFile(job.account, job.kinds))
        BY <4>1, UnderFiles
      <4> QED BY <2>1, <4>2, <4>3
    <3>3. CASE CopyOver
      <4>1. live' = Blank("empty") \/ live' = Blank("torn") \/ (Stageable(baseline) /\ live' = Staged(baseline))
        BY <3>3 DEF CopyOver, At, JobOK
      <4>2. UnderOneAccount(Blank("empty")) /\ UnderOneAccount(Blank("torn")) /\ (Stageable(baseline) => UnderOneAccount(Staged(baseline)))
        BY <2>1, UnderFiles
      <4> QED BY <4>1, <4>2
    <3>4. CASE RemoveBaseline \/ VacuumInto \/ Stage \/ CloseLive \/ CopyFails \/ Reopen \/ Unlock
      BY <2>1, <3>4 DEF RemoveBaseline, VacuumInto, Stage, CloseLive, CopyFails, Reopen, Unlock
    <3> QED BY <1>7, <3>1, <3>2, <3>3, <3>4
  <2>3. baseline' \in {baseline, NoFile, live}
    BY <1>7 DEF SetIdentity, Load, RemoveBaseline, VacuumInto, Stage, CloseLive, CopyOver, CopyFails, Reopen, Unlock
  <2>4. UnderOneAccount(baseline')
    BY <2>1, <2>3, UnderFiles
  <2> QED BY <2>2, <2>4 DEF UnderInv
<1>8. ~Kill
  BY DEF Kill
<1> QED BY <1>1, <1>2, <1>3, <1>4, <1>5, <1>6, <1>7, <1>8 DEF Next, Administer

\* CRITICAL[identity-change-refused-on-non-empty-db]: as long as every reset comes to
\* its end, whatever requests can see is under the account they are answered as.
THEOREM RowsStayUnderTheAccount ==
    ASSUME Faults \cap {"kill", "delete"} = {}
    PROVE  Spec => []RowsUnderStoredAccount
<1>1. IInv /\ EmptiedInv /\ UnderInv => RowsUnderStoredAccount
  <2>1. IInv /\ EmptiedInv /\ writer # "held" => ~MidReset
    BY HeldFiles DEF EmptiedInv, MidReset, JobOK
  <2> QED BY <2>1 DEF UnderInv, UnderOneAccount, RowsUnderStoredAccount
<1>2. Init => EmptiedInv /\ UnderInv
  BY NoJobOK, InitUnderInv DEF Init, EmptiedInv
<1>3. IInv /\ EmptiedInv /\ UnderInv /\ [Next]_vars => EmptiedInv' /\ UnderInv'
  BY NextEmptiedInv, NextUnderInv
<1> QED BY <1>1, <1>2, <1>3, Invariance, PTL DEF Spec
-----------------------------------------------------------------------------
\* Lifecycle implements MockStore: what it abstracts from is the operation under way,
\* whose effect a client sees, whole or cut, as the lock is let go.

LEMMA StoreSame ==
    /\ Store!NoFile = NoFile /\ Store!Fresh = Fresh /\ \A s : Store!Blank(s) = Blank(s)
    /\ \A f : /\ Store!AccountID(f) = AccountID(f) /\ Store!Counted(f) = Counted(f)
              /\ Store!Backfilled(f) = Backfilled(f) /\ Store!Staged(f) = Staged(f)
              /\ Store!Stageable(f) <=> Stageable(f)
    /\ \A f, a : /\ Store!Seeded(f, a) = Seeded(f, a)
                 /\ Store!StoreIdentity(f, a) = StoreIdentity(f, a)
                 /\ Store!LoadedFile(a, f) = LoadedFile(a, f)
    /\ Store!OldFiles = OldFiles
<1>1. /\ Store!NoFile = NoFile /\ Store!Fresh = Fresh /\ \A s : Store!Blank(s) = Blank(s)
  BY DEF Store!NoFile, Store!Fresh, Store!Blank, NoFile, Fresh, Blank
<1>2. \A f : /\ Store!AccountID(f) = AccountID(f) /\ Store!Counted(f) = Counted(f)
             /\ Store!Stageable(f) <=> Stageable(f)
  BY DEF Store!AccountID, AccountID, Store!Counted, Counted, Store!emptyExclusions, emptyExclusions,
         Store!Stageable, Stageable
<1>3. \A f : Store!Backfilled(f) = Backfilled(f)
  BY DEF Store!Backfilled, Backfilled, Store!BackfilledAlways, BackfilledAlways
<1>4. \A f : Store!Staged(f) = Staged(f)
  BY <1>1, <1>3 DEF Store!Staged, Staged
<1>5. \A f, a : /\ Store!Seeded(f, a) = Seeded(f, a)
                /\ Store!StoreIdentity(f, a) = StoreIdentity(f, a)
                /\ Store!LoadedFile(a, f) = LoadedFile(a, f)
  BY DEF Store!Seeded, Seeded, Store!StoreIdentity, StoreIdentity, Store!LoadedFile, LoadedFile
<1>6. Store!OldFiles = OldFiles
  BY <1>1 DEF Store!OldFiles, OldFiles
<1> QED BY <1>1, <1>2, <1>3, <1>4, <1>5, <1>6

\* Table by table a reset empties what Emptied says: nothing, one table more, everything.
LEMMA EmptiedIs ==
    ASSUME NEW f \in File
    PROVE  /\ Store!Emptied(f, 0) = f
           /\ \A k \in 1..6 : DeleteTable(Store!Emptied(f, k - 1), resetTables[k]) = Store!Emptied(f, k)
           /\ f.state = "whole" => Store!Emptied(f, 6) = Fresh
           /\ \A k \in 0..6 : Store!Emptied(f, k).state = f.state
<1> DEFINE gone(k)     == UNION {resetTables[i] : i \in 1..k}
           rows(k)     == {r \in f.rows : r[1] \notin gone(k)}
           account(k)  == IF k < 3 THEN f.account ELSE None
           loaded(k)   == IF k < 3 THEN f.loaded ELSE FALSE
           record(k)   == [state |-> f.state, account |-> account(k), loaded |-> loaded(k), rows |-> rows(k)]
<1>1. /\ resetTables[1] = {"zone", "ns"} /\ resetTables[2] = {"key", "pending"} /\ resetTables[3] = {"identity"}
      /\ resetTables[4] = {"fixture"} /\ resetTables[5] = {"minted"} /\ resetTables[6] = {"vpc", "bare"}
  BY DEF resetTables
<1>2. Store!resetTables = resetTables
  BY DEF Store!resetTables, resetTables
<1>3. ASSUME NEW k \in 0..6 PROVE Store!Emptied(f, k) = record(k)
  <2>1. (\E i \in 1..k : resetTables[i] = {"identity"}) <=> k >= 3
    <3>1. \A i \in 1..6 : resetTables[i] = {"identity"} <=> i = 3
      <4>1. \A i \in 1..6 : i = 1 \/ i = 2 \/ i = 3 \/ i = 4 \/ i = 5 \/ i = 6
        OBVIOUS
      <4>2. /\ "zone" # "identity" /\ "key" # "identity" /\ "fixture" # "identity" /\ "minted" # "identity"
            /\ "vpc" # "identity"
        OBVIOUS
      <4> QED BY <1>1, <4>1, <4>2
    <3> QED BY <3>1
  <2>2. {r \in f.rows : \A i \in 1..k : r[1] \notin resetTables[i]} = rows(k)
    OBVIOUS
  <2>3. Store!Emptied(f, k) =
          [f EXCEPT !.rows    = {r \in f.rows : \A i \in 1..k : r[1] \notin resetTables[i]},
                    !.account = IF \E i \in 1..k : resetTables[i] = {"identity"} THEN None ELSE f.account,
                    !.loaded  = f.loaded /\ \A i \in 1..k : resetTables[i] # {"identity"}]
    BY <1>2 DEF Store!Emptied
  <2>4. Store!Emptied(f, k) = [f EXCEPT !.rows = rows(k), !.account = account(k), !.loaded = loaded(k)]
    <3>1. (IF \E i \in 1..k : resetTables[i] = {"identity"} THEN None ELSE f.account) = account(k)
      BY <2>1
    <3>2. (f.loaded /\ \A i \in 1..k : resetTables[i] # {"identity"}) <=> loaded(k)
      BY <2>1
    <3>3. f.loaded \in BOOLEAN
      BY DEF File
    <3> HIDE DEF rows, account
    <3> QED BY <2>2, <2>3, <3>1, <3>2, <3>3
  <2> HIDE DEF rows, account, loaded
  <2> QED BY <2>4 DEF File
<1>4. gone(0) = {} /\ \A k \in 1..6 : gone(k) = gone(k - 1) \cup resetTables[k]
  OBVIOUS
<1>5. f.rows \subseteq Kinds \X Accounts /\ f.loaded \in BOOLEAN
      /\ f = [state |-> f.state, account |-> f.account, loaded |-> f.loaded, rows |-> f.rows]
  BY DEF File
<1> HIDE DEF gone
<1>6. record(0) = f
  <2>1. rows(0) = f.rows
    BY <1>4
  <2> HIDE DEF rows
  <2> QED BY <1>5, <2>1
<1>7. ASSUME NEW k \in 1..6 PROVE DeleteTable(record(k - 1), resetTables[k]) = record(k)
  <2>1. CASE k = 3
    <3>1. rows(3) = rows(2)
      <4>1. \A r \in f.rows : r[1] # "identity"
        BY <1>5 DEF Kinds
      <4> QED BY <1>1, <1>4, <4>1
    <3>2. account(3) = None /\ loaded(3) = FALSE
      OBVIOUS
    <3>3. DeleteTable(record(2), {"identity"}) = [record(2) EXCEPT !.account = None, !.loaded = FALSE]
      BY DEF DeleteTable
    <3> HIDE DEF rows, account, loaded
    <3>4. DeleteTable(record(2), {"identity"}) = record(3)
      BY <3>1, <3>2, <3>3
    <3> HIDE DEF record
    <3> QED BY <1>1, <2>1, <3>4
  <2>2. CASE k # 3
    <3>1. resetTables[k] # {"identity"}
      <4>1. k = 1 \/ k = 2 \/ k = 4 \/ k = 5 \/ k = 6
        BY <2>2
      <4>2. /\ "zone" # "identity" /\ "key" # "identity" /\ "fixture" # "identity" /\ "minted" # "identity"
            /\ "vpc" # "identity"
        OBVIOUS
      <4> QED BY <1>1, <4>1, <4>2
    <3>2. rows(k) = {r \in rows(k - 1) : r[1] \notin resetTables[k]}
      BY <1>4
    <3>3. account(k) = account(k - 1) /\ loaded(k) = loaded(k - 1)
      <4>1. k < 3 <=> k - 1 < 3
        BY <2>2
      <4>2. CASE k < 3
        BY <4>1, <4>2
      <4>3. CASE ~(k < 3)
        BY <4>1, <4>3
      <4> QED BY <4>2, <4>3
    <3>4. DeleteTable(record(k - 1), resetTables[k]) =
             [record(k - 1) EXCEPT !.rows = {r \in rows(k - 1) : r[1] \notin resetTables[k]}]
      BY <3>1 DEF DeleteTable
    <3> HIDE DEF rows, account, loaded
    <3> QED BY <3>2, <3>3, <3>4
  <2> QED BY <2>1, <2>2
<1>8. f.state = "whole" => record(6) = Fresh
  <2>1. gone(6) = resetTables[1] \cup resetTables[2] \cup resetTables[3] \cup resetTables[4] \cup resetTables[5]
                  \cup resetTables[6]
    BY <1>4
  <2>2. Kinds \subseteq gone(6)
    BY <1>1, <2>1 DEF Kinds
  <2>3. rows(6) = {}
    BY <1>5, <2>2
  <2>4. account(6) = None /\ loaded(6) = FALSE
    OBVIOUS
  <2> HIDE DEF rows, account, loaded
  <2> QED BY <2>3, <2>4 DEF Fresh, Blank
<1>9. \A k \in 0..6 : record(k).state = f.state
  OBVIOUS
<1> HIDE DEF record
<1> QED BY <1>3, <1>6, <1>7, <1>8, <1>9

\* What each exclusive operation has done so far to the files it found.
Was == live = job.live /\ baseline = job.baseline

IdentityUnderWay ==
    /\ job.op = "identity" /\ job.step \in {"tx", "done"} /\ baseline = job.baseline
    /\ \/ live = job.live
       \/ /\ job.step = "done" /\ job.result = "ok" /\ job.live.state = "whole"
          /\ job.account = AccountID(job.live) \/ Counted(job.live) = {}
          /\ live = StoreIdentity(job.live, job.account)

LoadUnderWay ==
    /\ job.op = "load" /\ job.step \in {"tx", "done"} /\ baseline = job.baseline /\ job.kinds \in LoadedKinds
    /\ \/ live = job.live
       \/ job.step = "done" /\ job.live.state = "whole" /\ live = LoadedFile(job.account, job.kinds)

ResetUnderWay ==
    /\ job.op = "reset"
    /\ \/ /\ job.step = "tables" /\ baseline = job.baseline
          /\ live = Store!Emptied(job.live, job.table - 1) /\ (job.table > 1 => job.live.state = "whole")
       \/ job.step = "remove" /\ baseline = job.baseline /\ job.live.state = "whole" /\ live = Fresh
       \/ job.step = "done" /\ baseline = NoFile /\ job.live.state = "whole" /\ live = Fresh
       \/ job.step = "done" /\ Was
       \/ /\ job.step = "done" /\ baseline = job.baseline /\ "delete" \in Faults /\ job.live.state = "whole"
          /\ \E k \in 1..6 : live = Store!Emptied(job.live, k)

SnapshotUnderWay ==
    /\ job.op = "snapshot" /\ live = job.live
    /\ \/ job.step = "remove" /\ baseline = job.baseline
       \/ job.step = "vacuum" /\ baseline = NoFile
       \/ job.step = "done" /\ live.state \in {"empty", "whole"} /\ baseline = live
       \/ job.step = "done" /\ baseline = NoFile /\ Faults \cap {"vacuum", "copy"} # {}

RestoreUnderWay ==
    /\ job.op = "restore" /\ baseline = job.baseline
    /\ \/ job.step \in {"stat", "close", "truncate", "done"} /\ live = job.live
       \/ job.step = "write" /\ live = Blank("empty")
       \/ job.step = "rest" /\ live = Blank("torn")
       \/ job.step \in {"reopen", "done"} /\ Stageable(baseline) /\ live = Staged(baseline)
       \/ job.step = "done" /\ Stageable(baseline) /\ "copy" \in Faults /\ live \in {Blank("empty"), Blank("torn")}

\* An operation that waits for the lock has done nothing.
Starting ==
    /\ job.table = 1
    /\ \/ job.op = "identity" /\ job.step = "tx"
       \/ job.op = "load" /\ job.step = "tx" /\ job.kinds \in LoadedKinds
       \/ job.op = "reset" /\ job.step = "tables"
       \/ job.op = "snapshot" /\ job.step = "remove"
       \/ job.op = "restore" /\ job.step = "stat"

StoreInv ==
    /\ writer = "held" =>
          IdentityUnderWay \/ LoadUnderWay \/ ResetUnderWay \/ SnapshotUnderWay \/ RestoreUnderWay
    /\ writer = "pending" => Starting
    /\ up \in {"opened", "identified", "seeding"} =>
          live.state = "whole" /\ (writer = "held" => job.op = "identity")
    /\ "copy" \notin Faults => ReadInv

\* A request's step finds the lock in no writer's hands.
LEMMA ServesFree ==
    ASSUME IInv, NEW c \in Clients, Serve(c)
    PROVE  writer # "held"
<1>1. pc[c] \in Holding
  <2>1. CASE ReadAccount(c) \/ Leave(c)
    BY <2>1 DEF ReadAccount, Leave, Holding
  <2>2. CASE ~(ReadAccount(c) \/ Leave(c))
    BY <2>2, RequestSteps DEF Serve, RequestWrites, Working, Holding
  <2> QED BY <2>1, <2>2
<1> QED BY <1>1 DEF IInv, Mutex

LEMMA InitStoreInv == Init => StoreInv
  BY InitReadInv DEF Init, StoreInv

LEMMA BeginStarts ==
    ASSUME NEW o \in {"identity", "reset", "snapshot", "restore", "load"}, NEW a, NEW ks \in LoadedKinds,
           job' = Begin(o, a, ks)
    PROVE  Starting'
  BY DEF Begin, Starting

LEMMA HeldJob ==
    ASSUME IInv
    PROVE  /\ \A r \in {"ok", "refused", "failed"} :
                 Finish(r) => /\ job'.step = "done" /\ job'.result = r
                              /\ UNCHANGED <<job.op, job.account, job.kinds, job.live, job.baseline>>
           /\ \A s \in {"vacuum", "close", "truncate", "write", "rest", "reopen"} :
                 Go(s) => /\ job'.step = s
                          /\ UNCHANGED <<job.op, job.account, job.kinds, job.live, job.baseline>>
<1> USE HeldFiles
<1>1. ASSUME NEW r \in {"ok", "refused", "failed"}, Finish(r)
      PROVE  /\ job'.step = "done" /\ job'.result = r
             /\ UNCHANGED <<job.op, job.account, job.kinds, job.live, job.baseline>>
  BY <1>1 DEF Finish, Jobs
<1>2. ASSUME NEW s \in {"vacuum", "close", "truncate", "write", "rest", "reopen"}, Go(s)
      PROVE  job'.step = s /\ UNCHANGED <<job.op, job.account, job.kinds, job.live, job.baseline>>
  BY <1>2 DEF Go, Jobs
<1> QED BY <1>1, <1>2

\* A step of the operation that holds the lock takes it on.
LEMMA StaysUnderWay ==
    ASSUME IInv, EmptiedInv, StoreInv,
           \/ SetIdentity \/ Load \/ ResetTable \/ RemoveBaseline \/ VacuumInto
           \/ Stage \/ CloseLive \/ CopyOver \/ CopyFails \/ Reopen
    PROVE  /\ writer = "held" /\ writer' = "held" /\ job'.live = job.live /\ job'.baseline = job.baseline
           /\ (IdentityUnderWay \/ LoadUnderWay \/ ResetUnderWay \/ SnapshotUnderWay \/ RestoreUnderWay)'
           /\ job'.op = job.op
<1> USE HeldFiles, HeldJob
<1>1. writer = "held" /\ writer' = "held"
  BY DEF SetIdentity, Load, ResetTable, RemoveBaseline, VacuumInto, Stage, CloseLive, CopyOver, CopyFails, Reopen,
         At, Others
<1>2. IdentityUnderWay \/ LoadUnderWay \/ ResetUnderWay \/ SnapshotUnderWay \/ RestoreUnderWay
  BY <1>1 DEF StoreInv
<1>3. CASE SetIdentity
  <2>1. job.op = "identity" /\ job.step = "tx" /\ live = job.live /\ baseline = job.baseline /\ baseline' = baseline
    BY <1>2, <1>3 DEF SetIdentity, At, IdentityUnderWay, LoadUnderWay, ResetUnderWay, SnapshotUnderWay,
                      RestoreUnderWay
  <2>2. \E r \in {"ok", "refused", "failed"} : Finish(r) /\ (live' = live
           \/ /\ r = "ok" /\ live.state = "whole" /\ (job.account = AccountID(live) \/ Counted(live) = {})
              /\ live' = StoreIdentity(live, job.account))
    BY <1>3 DEF SetIdentity, Readable
  <2> QED BY <1>1, <2>1, <2>2 DEF IdentityUnderWay
<1>4. CASE Load
  <2>1. /\ job.op = "load" /\ job.step = "tx" /\ live = job.live /\ baseline = job.baseline /\ baseline' = baseline
        /\ job.kinds \in LoadedKinds
    BY <1>2, <1>4 DEF Load, At, IdentityUnderWay, LoadUnderWay, ResetUnderWay, SnapshotUnderWay, RestoreUnderWay
  <2>2. CASE Readable /\ live' = LoadedFile(job.account, job.kinds) /\ Finish("ok")
    BY <1>1, <2>1, <2>2 DEF LoadUnderWay, Readable
  <2>3. CASE live' = live /\ Finish("refused")
    BY <1>1, <2>1, <2>3 DEF LoadUnderWay
  <2> QED BY <1>4, <2>2, <2>3 DEF Load
<1>5. CASE ResetTable
  <2>1. /\ job.op = "reset" /\ job.step = "tables" /\ job.table \in 1..6 /\ baseline' = baseline
        /\ baseline = job.baseline /\ live = Store!Emptied(job.live, job.table - 1)
        /\ job.table > 1 => job.live.state = "whole" /\ Readable
    BY <1>2, <1>5 DEF ResetTable, At, JobOK, EmptiedInv, IdentityUnderWay, LoadUnderWay, ResetUnderWay,
                      SnapshotUnderWay, RestoreUnderWay
  <2>2. job.live \in File
    BY DEF Jobs
  <2>3. CASE /\ Readable /\ live' = DeleteTable(live, resetTables[job.table])
             /\ job' = [job EXCEPT !.table = @ + 1, !.step = IF job.table = Len(resetTables) THEN "remove" ELSE @]
    <3>1. live' = Store!Emptied(job.live, job.table)
      BY <2>1, <2>2, <2>3, EmptiedIs
    <3>2. job.live.state = "whole"
      <4>1. Store!Emptied(job.live, job.table - 1).state = job.live.state
        BY <2>1, <2>2, EmptiedIs
      <4> QED BY <2>1, <2>3, <4>1 DEF Readable
    <3>3. /\ job'.op = job.op /\ job'.live = job.live /\ job'.baseline = job.baseline /\ job'.table = job.table + 1
          /\ job'.step = IF job.table = 6 THEN "remove" ELSE "tables"
      BY <2>1, <2>3, TableCount DEF Jobs
    <3>4. job.table = 6 => live' = Fresh
      BY <2>2, <3>1, <3>2, EmptiedIs
    <3>5. job.table # 6 => live' = Store!Emptied(job'.live, job'.table - 1)
      BY <2>1, <3>1, <3>3
    <3>6. ResetUnderWay'
      <4>1. CASE job.table = 6
        BY <2>1, <3>2, <3>3, <3>4, <4>1 DEF ResetUnderWay
      <4>2. CASE job.table # 6
        BY <2>1, <3>2, <3>3, <3>5, <4>2 DEF ResetUnderWay
      <4> QED BY <4>1, <4>2
    <3> QED BY <1>1, <3>3, <3>6
  <2>4. CASE (~Readable \/ "delete" \in Faults) /\ live' = live /\ Finish("failed")
    <3>1. CASE job.table = 1
      BY <1>1, <2>1, <2>2, <2>4, <3>1, EmptiedIs DEF ResetUnderWay, Was
    <3>2. CASE job.table # 1
      <4>1. job.table - 1 \in 1..6 /\ job.live.state = "whole" /\ "delete" \in Faults
        BY <2>1, <2>4, <3>2
      <4> QED BY <1>1, <2>1, <2>4, <4>1 DEF ResetUnderWay
    <3> QED BY <3>1, <3>2
  <2> QED BY <1>5, <2>3, <2>4 DEF ResetTable
<1>6. CASE RemoveBaseline
  <2>1. CASE At("reset", "remove") /\ Finish("ok")
    BY <1>1, <1>2, <1>6, <2>1 DEF RemoveBaseline, At, IdentityUnderWay, LoadUnderWay, ResetUnderWay,
                                 SnapshotUnderWay, RestoreUnderWay
  <2>2. CASE At("snapshot", "remove") /\ Go("vacuum")
    BY <1>1, <1>2, <1>6, <2>2 DEF RemoveBaseline, At, IdentityUnderWay, LoadUnderWay, ResetUnderWay,
                                 SnapshotUnderWay, RestoreUnderWay
  <2> QED BY <1>6, <2>1, <2>2 DEF RemoveBaseline
<1>7. CASE VacuumInto
  <2>1. job.op = "snapshot" /\ job.step = "vacuum" /\ live = job.live /\ live' = live /\ baseline = NoFile
    BY <1>2, <1>7 DEF VacuumInto, At, IdentityUnderWay, LoadUnderWay, ResetUnderWay, SnapshotUnderWay,
                      RestoreUnderWay
  <2>2. CASE live.state \in {"empty", "whole"} /\ baseline' = live /\ Finish("ok")
    BY <1>1, <2>1, <2>2 DEF SnapshotUnderWay
  <2>3. CASE /\ "vacuum" \in Faults \/ handle = "closed" \/ live.state = "torn"
             /\ baseline' = baseline /\ Finish("failed")
    <3>1. "copy" \notin Faults => Readable
      BY <1>1, <2>1 DEF StoreInv, ReadInv, Restoring, IInv, BootAlone
    <3>2. Faults \cap {"vacuum", "copy"} # {}
      BY <2>3, <3>1 DEF Readable
    <3> QED BY <1>1, <2>1, <2>3, <3>2 DEF SnapshotUnderWay
  <2> QED BY <1>7, <2>2, <2>3 DEF VacuumInto
<1>8. CASE Stage
  <2>1. job.op = "restore" /\ job.step = "stat" /\ live = job.live /\ live' = live /\ baseline = job.baseline
        /\ baseline' = baseline
    BY <1>2, <1>8 DEF Stage, At, IdentityUnderWay, LoadUnderWay, ResetUnderWay, SnapshotUnderWay, RestoreUnderWay
  <2> QED BY <1>1, <1>8, <2>1 DEF Stage, RestoreUnderWay
<1>9. CASE CloseLive
  <2>1. job.op = "restore" /\ job.step = "close" /\ live = job.live /\ live' = live /\ baseline = job.baseline
        /\ baseline' = baseline
    BY <1>2, <1>9 DEF CloseLive, At, IdentityUnderWay, LoadUnderWay, ResetUnderWay, SnapshotUnderWay,
                      RestoreUnderWay
  <2> QED BY <1>1, <1>9, <2>1 DEF CloseLive, RestoreUnderWay
<1>10. CASE CopyOver
  <2>1. job.op = "restore" /\ baseline = job.baseline /\ baseline' = baseline
    BY <1>2, <1>10 DEF CopyOver, At, IdentityUnderWay, LoadUnderWay, ResetUnderWay, SnapshotUnderWay,
                       RestoreUnderWay
  <2>2. CASE At("restore", "truncate") /\ live' = Blank("empty") /\ Go("write")
    BY <1>1, <2>1, <2>2 DEF RestoreUnderWay
  <2>3. CASE At("restore", "write") /\ live' = Blank("torn") /\ Go("rest")
    BY <1>1, <2>1, <2>3 DEF RestoreUnderWay
  <2>4. CASE At("restore", "rest") /\ live' = Staged(baseline) /\ Go("reopen")
    <3>1. Stageable(baseline)
      BY <2>4 DEF At, JobOK
    <3>2. Stageable(baseline') /\ live' = Staged(baseline')
      BY <2>1, <2>4, <3>1
    <3> QED BY <1>1, <2>1, <2>4, <3>2 DEF RestoreUnderWay
  <2> QED BY <1>10, <2>2, <2>3, <2>4 DEF CopyOver
<1>11. CASE CopyFails
  <2>1. /\ job.op = "restore" /\ baseline = job.baseline /\ baseline' = baseline /\ live' = live
        /\ live = job.live \/ live \in {Blank("empty"), Blank("torn")}
    BY <1>2, <1>11 DEF CopyFails, IdentityUnderWay, LoadUnderWay, ResetUnderWay, SnapshotUnderWay, RestoreUnderWay
  <2>2. Stageable(baseline)
    BY <1>11, <2>1 DEF CopyFails, JobOK
  <2>3. Stageable(baseline')
    BY <2>1, <2>2
  <2> QED BY <1>1, <1>11, <2>1, <2>3 DEF CopyFails, RestoreUnderWay
<1>12. CASE Reopen
  <2>1. /\ job.op = "restore" /\ baseline = job.baseline /\ baseline' = baseline /\ live' = live
        /\ Stageable(baseline) /\ live = Staged(baseline)
    BY <1>2, <1>12 DEF Reopen, At, IdentityUnderWay, LoadUnderWay, ResetUnderWay, SnapshotUnderWay, RestoreUnderWay
  <2>2. Stageable(baseline') /\ live' = Staged(baseline')
    BY <2>1
  <2>3. \E r \in {"ok", "failed"} : Finish(r)
    BY <1>12 DEF Reopen
  <2> QED BY <1>1, <2>1, <2>2, <2>3 DEF RestoreUnderWay
<1> QED BY <1>3, <1>4, <1>5, <1>6, <1>7, <1>8, <1>9, <1>10, <1>11, <1>12

LEMMA NextStoreInv ==
    ASSUME IInv, EmptiedInv, StoreInv, [Next]_vars
    PROVE  StoreInv'
<1> USE HeldFiles
<1>1. "copy" \notin Faults => ReadInv'
  BY NextReadInv DEF StoreInv
<1>2. CASE Boot \/ Kill
  <2>1. CASE New \/ BootBackfill \/ BootSeed
    <3>1. writer = "free" /\ writer' = "free"
      BY <2>1 DEF New, BootBackfill, BootSeed, IInv, BootAlone
    <3>2. live'.state = "whole"
      <4>1. CASE New
        BY <4>1, BlankType DEF New, Fresh
      <4>2. CASE BootBackfill
        BY <4>2, BackfilledType DEF BootBackfill, StoreInv
      <4>3. CASE BootSeed
        BY <4>3, SeededType, AccountIDType DEF BootSeed, StoreInv
      <4> QED BY <2>1, <4>1, <4>2, <4>3
    <3> QED BY <1>1, <3>1, <3>2 DEF StoreInv
  <2>2. CASE DeleteFile \/ BootRefused \/ Kill
    <3>1. writer' = "free" /\ up' = "down"
      BY <2>2 DEF DeleteFile, BootRefused, Kill, IInv, BootAlone
    <3> QED BY <1>1, <3>1 DEF StoreInv
  <2>3. ASSUME NEW a \in Accounts, BootIdentity(a) PROVE StoreInv'
    <3>1. job' = Begin("identity", a, {}) /\ writer' = "held" /\ UNCHANGED <<live, baseline>>
          /\ live.state = "whole"
      BY <2>3 DEF BootIdentity, StoreInv
    <3>2. job'.op = "identity" /\ job'.step = "tx" /\ job'.live = live /\ job'.baseline = baseline
      BY <3>1 DEF Begin
    <3>3. IdentityUnderWay'
      BY <3>1, <3>2 DEF IdentityUnderWay
    <3> QED BY <1>1, <3>1, <3>2, <3>3 DEF StoreInv
  <2> QED BY <1>2, <2>1, <2>2, <2>3 DEF Boot
<1>3. ASSUME NEW c \in Clients, Serve(c) PROVE StoreInv'
  <2>1. UNCHANGED <<up, writer, job>> /\ live'.state = live.state
    BY <1>3, ServeKeeps
  <2>2. writer # "held"
    BY <1>3, ServesFree
  <2>3. Starting => Starting'
    BY <2>1 DEF Starting
  <2> QED BY <1>1, <2>1, <2>2, <2>3 DEF StoreInv
<1>4. CASE UNCHANGED vars \/ \E c \in Clients, o \in ClientOps : Arrive(c, o)
  <2>1. UNCHANGED <<up, live, baseline, writer, job>>
    BY <1>4 DEF vars, Arrive
  <2>2. /\ IdentityUnderWay => IdentityUnderWay'
        /\ LoadUnderWay => LoadUnderWay'
        /\ ResetUnderWay => ResetUnderWay'
        /\ SnapshotUnderWay => SnapshotUnderWay'
        /\ RestoreUnderWay => RestoreUnderWay'
        /\ Starting => Starting'
    BY <2>1 DEF IdentityUnderWay, LoadUnderWay, ResetUnderWay, Was, SnapshotUnderWay, RestoreUnderWay, Starting,
                Stageable
  <2> QED BY <1>1, <2>1, <2>2 DEF StoreInv
<1>5. CASE Ask
  <2>1. PICK o \in AdminOps, a \in Accounts, ks \in LoadedKinds : Lock(o, a, ks)
    BY <1>5 DEF Ask
  <2>2. Starting'
    BY <2>1, BeginStarts, OpsAssumption DEF Lock
  <2> QED BY <1>1, <2>1, <2>2 DEF Lock, StoreInv
<1>6. CASE LockGranted
  <2>1. Starting /\ up = "serving" /\ up' = up /\ writer' = "held" /\ UNCHANGED <<live, baseline>>
    BY <1>6 DEF LockGranted, StoreInv, IInv, BootAlone
  <2>2. /\ job'.live = live /\ job'.baseline = baseline
        /\ UNCHANGED <<job.op, job.step, job.table, job.account, job.kinds, job.result>>
    BY <1>6 DEF LockGranted, Jobs
  <2>3. (IdentityUnderWay \/ LoadUnderWay \/ ResetUnderWay \/ SnapshotUnderWay \/ RestoreUnderWay)'
    <3>1. CASE job.op = "identity" /\ job.step = "tx"
      BY <2>1, <2>2, <3>1 DEF IdentityUnderWay
    <3>2. CASE job.op = "load" /\ job.step = "tx" /\ job.kinds \in LoadedKinds
      BY <2>1, <2>2, <3>2 DEF LoadUnderWay
    <3>3. CASE job.op = "reset" /\ job.step = "tables"
      <4>1. job'.table = 1 /\ live' = Store!Emptied(job'.live, 0)
        BY <2>1, <2>2, EmptiedIs DEF Starting
      <4>2. live' = Store!Emptied(job'.live, job'.table - 1)
        BY <4>1
      <4> QED BY <2>1, <2>2, <3>3, <4>1, <4>2 DEF ResetUnderWay
    <3>4. CASE job.op = "snapshot" /\ job.step = "remove"
      BY <2>1, <2>2, <3>4 DEF SnapshotUnderWay
    <3>5. CASE job.op = "restore" /\ job.step = "stat"
      BY <2>1, <2>2, <3>5 DEF RestoreUnderWay
    <3> QED BY <2>1, <3>1, <3>2, <3>3, <3>4, <3>5 DEF Starting
  <2> QED BY <1>1, <2>1, <2>3 DEF StoreInv
<1>7. CASE Unlock
  <2>1. writer' = "free" /\ up' = up /\ live' = live
    BY <1>7 DEF Unlock
  <2> QED BY <1>1, <2>1 DEF StoreInv
<1>8. CASE \/ SetIdentity \/ Load \/ ResetTable \/ RemoveBaseline \/ VacuumInto
           \/ Stage \/ CloseLive \/ CopyOver \/ CopyFails \/ Reopen
  <2>1. /\ writer = "held" /\ writer' = "held" /\ job'.op = job.op
        /\ (IdentityUnderWay \/ LoadUnderWay \/ ResetUnderWay \/ SnapshotUnderWay \/ RestoreUnderWay)'
    BY <1>8, StaysUnderWay
  <2>2. up' = up
    BY <1>8, AdminSteps DEF Exclusive
  <2>3. up \in {"opened", "identified", "seeding"} => live'.state = "whole"
    <3>1. ASSUME up \in {"opened", "identified", "seeding"} PROVE live'.state = "whole"
      <4>1. job.op = "identity" /\ live.state = "whole"
        BY <2>1, <3>1 DEF StoreInv
      <4>2. CASE SetIdentity
        <5>1. job.account \in Accounts
          BY <4>2 DEF SetIdentity, At, JobOK
        <5> QED BY <4>1, <4>2, <5>1, StoreIdentityType DEF SetIdentity
      <4>3. CASE ~SetIdentity
        <5>1. live' = live
          BY <1>8, <4>1, <4>3 DEF Load, ResetTable, RemoveBaseline, VacuumInto, Stage, CloseLive, CopyOver, CopyFails,
                                  Reopen, At
        <5> QED BY <4>1, <5>1
      <4> QED BY <4>2, <4>3
    <3> QED BY <3>1
  <2> QED BY <1>1, <2>1, <2>2, <2>3 DEF StoreInv
<1> QED BY <1>2, <1>3, <1>4, <1>5, <1>6, <1>7, <1>8 DEF Next, Administer

\* The files a client sees, before a step and after it.
LEMMA Seen ==
    ASSUME NEW l, NEW b, NEW m, NEW d,
           l = IF writer = "held" THEN job.live ELSE live,
           b = IF writer = "held" THEN job.baseline ELSE baseline,
           m = (IF writer = "held" THEN job.live ELSE live)',
           d = (IF writer = "held" THEN job.baseline ELSE baseline)'
    PROVE  /\ l = m /\ b = d => UNCHANGED Store!files
           /\ l.state \in {"none", "empty"} /\ m = Fresh /\ d = b => Store!Create
           /\ l.state \in {"torn", "other"} /\ m = NoFile /\ d = b => Store!Delete
           /\ l.state = "whole" /\ ~l.loaded /\ m \in {Backfilled(l), Seeded(l, AccountID(l))} /\ d = b =>
                 Store!Complete
           /\ \A a \in Accounts :
                 /\ l.state = "whole" /\ (a = AccountID(l) \/ Counted(l) = {}) /\ m = StoreIdentity(l, a) /\ d = b =>
                       Store!SetIdentity
                 /\ \A ks \in LoadedKinds : l.state = "whole" /\ m = LoadedFile(a, ks) /\ d = b => Store!Load
           /\ l.state = "whole" /\ m = Fresh /\ d = NoFile => Store!Reset
           /\ l.state \in {"empty", "whole"} /\ d = l /\ m = l => Store!Snapshot
           /\ Stageable(b) /\ m = Staged(b) /\ d = b => Store!Restore
           /\ Faults \cap {"kill", "vacuum", "copy"} # {} /\ d = NoFile /\ m = l => Store!CutSnapshot
           /\ /\ Faults \cap {"kill", "copy"} # {} /\ Stageable(b) /\ d = b
              /\ m \in {Blank("empty"), Blank("torn"), Staged(b)}
              => Store!CutRestore
           /\ \A k \in 1..6 :
                 Faults \cap {"kill", "delete"} # {} /\ l.state = "whole" /\ m = Store!Emptied(l, k) /\ d = b =>
                    Store!CutReset
<1> USE StoreSame
<1>1. l = m /\ b = d => UNCHANGED Store!files
  BY DEF Store!files
<1>2. l.state \in {"none", "empty"} /\ m = Fresh /\ d = b => Store!Create
  BY DEF Store!Create
<1>3. l.state \in {"torn", "other"} /\ m = NoFile /\ d = b => Store!Delete
  BY DEF Store!Delete
<1>4. l.state = "whole" /\ ~l.loaded /\ m \in {Backfilled(l), Seeded(l, AccountID(l))} /\ d = b => Store!Complete
  BY DEF Store!Complete
<1>5. ASSUME NEW a \in Accounts, l.state = "whole", a = AccountID(l) \/ Counted(l) = {}, m = StoreIdentity(l, a), d = b
      PROVE  Store!SetIdentity
  BY <1>5 DEF Store!SetIdentity
<1>6. ASSUME NEW a \in Accounts, NEW ks \in LoadedKinds, l.state = "whole", m = LoadedFile(a, ks), d = b
      PROVE  Store!Load
  BY <1>6 DEF Store!Load
<1>7. l.state = "whole" /\ m = Fresh /\ d = NoFile => Store!Reset
  BY DEF Store!Reset
<1>8. l.state \in {"empty", "whole"} /\ d = l /\ m = l => Store!Snapshot
  BY DEF Store!Snapshot
<1>9. Stageable(b) /\ m = Staged(b) /\ d = b => Store!Restore
  BY DEF Store!Restore
<1>10. Faults \cap {"kill", "vacuum", "copy"} # {} /\ d = NoFile /\ m = l => Store!CutSnapshot
  BY DEF Store!CutSnapshot
<1>11. /\ Faults \cap {"kill", "copy"} # {} /\ Stageable(b) /\ d = b
       /\ m \in {Blank("empty"), Blank("torn"), Staged(b)}
       => Store!CutRestore
  BY DEF Store!CutRestore
<1>12. ASSUME NEW k \in 1..6, Faults \cap {"kill", "delete"} # {}, l.state = "whole", m = Store!Emptied(l, k), d = b
       PROVE  Store!CutReset
  <2>1. Len(Store!resetTables) = 6
    BY DEF Store!resetTables
  <2> QED BY <1>12, <2>1 DEF Store!CutReset
<1> QED BY <1>1, <1>2, <1>3, <1>4, <1>5, <1>6, <1>7, <1>8, <1>9, <1>10, <1>11, <1>12

\* Once it is let go, an operation has been one step of MockStore, or has been cut where
\* it may be.
LEMMA Released ==
    ASSUME IInv, StoreInv, writer = "held", writer' # "held", UNCHANGED <<live, baseline>>,
           job.step = "done" \/ "kill" \in Faults
    PROVE  Store!Next \/ UNCHANGED Store!files
<1> USE HeldFiles
<1> DEFINE l == job.live
           b == job.baseline
<1>1. /\ l = (IF writer = "held" THEN job.live ELSE live) /\ live = (IF writer = "held" THEN job.live ELSE live)'
      /\ b = (IF writer = "held" THEN job.baseline ELSE baseline)
      /\ baseline = (IF writer = "held" THEN job.baseline ELSE baseline)'
      /\ l \in File
  BY DEF Jobs
<1> HIDE DEF l, b
<1>2. CASE IdentityUnderWay
  <2>1. \/ l = live /\ b = baseline
        \/ /\ l.state = "whole" /\ (job.account = AccountID(l) \/ Counted(l) = {})
           /\ live = StoreIdentity(l, job.account) /\ baseline = b
    BY <1>2 DEF IdentityUnderWay, l, b
  <2>2. job.account \in Accounts
    BY <1>2 DEF IdentityUnderWay, JobOK
  <2> QED BY <1>1, <2>1, <2>2, Seen DEF Store!Next
<1>3. CASE LoadUnderWay
  <2>1. \/ l = live /\ b = baseline
        \/ l.state = "whole" /\ live = LoadedFile(job.account, job.kinds) /\ baseline = b
    <3>1. CASE live = job.live
      BY <1>3, <3>1 DEF LoadUnderWay, l, b
    <3>2. CASE job.live.state = "whole" /\ live = LoadedFile(job.account, job.kinds)
      BY <1>3, <3>2 DEF LoadUnderWay, l, b
    <3> QED BY <1>3, <3>1, <3>2 DEF LoadUnderWay
  <2>2. job.account \in Accounts /\ job.kinds \in LoadedKinds
    BY <1>3 DEF LoadUnderWay, JobOK
  <2> QED BY <1>1, <2>1, <2>2, Seen DEF Store!Next
<1>4. CASE ResetUnderWay
  <2>1. \/ l = live /\ b = baseline
        \/ l.state = "whole" /\ live = Fresh /\ baseline = NoFile
        \/ /\ Faults \cap {"kill", "delete"} # {} /\ l.state = "whole" /\ baseline = b
           /\ \E k \in 1..6 : live = Store!Emptied(l, k)
    <3>1. CASE job.step = "done"
      BY <1>4, <3>1 DEF ResetUnderWay, Was, l, b
    <3>2. CASE job.step = "remove" /\ "kill" \in Faults
      <4>1. baseline = b /\ l.state = "whole" /\ live = Fresh
        BY <1>4, <3>2 DEF ResetUnderWay, l, b
      <4>2. live = Store!Emptied(l, 6)
        BY <1>1, <4>1, EmptiedIs
      <4> QED BY <3>2, <4>1, <4>2
    <3>3. CASE job.step = "tables" /\ "kill" \in Faults
      <4>1. baseline = b /\ live = Store!Emptied(l, job.table - 1) /\ (job.table > 1 => l.state = "whole")
            /\ job.table \in 1..6
        BY <1>4, <3>3 DEF ResetUnderWay, JobOK, l, b
      <4>2. CASE job.table = 1
        BY <1>1, <4>1, <4>2, EmptiedIs
      <4>3. CASE job.table # 1
        <5>1. job.table - 1 \in 1..6
          BY <4>1, <4>3
        <5> QED BY <3>3, <4>1, <4>3, <5>1
      <4> QED BY <4>2, <4>3
    <3> QED BY <1>4, <3>1, <3>2, <3>3 DEF ResetUnderWay
  <2> QED BY <1>1, <2>1, Seen DEF Store!Next
<1>5. CASE SnapshotUnderWay
  <2>1. /\ live = l
        /\ \/ baseline = b
           \/ l.state \in {"empty", "whole"} /\ baseline = l
           \/ baseline = NoFile /\ Faults \cap {"kill", "vacuum", "copy"} # {}
    BY <1>5 DEF SnapshotUnderWay, l, b
  <2> QED BY <1>1, <2>1, Seen DEF Store!Next
<1>6. CASE RestoreUnderWay
  <2>1. /\ baseline = b
        /\ \/ live = l
           \/ Stageable(b) /\ live = Staged(b)
           \/ Faults \cap {"kill", "copy"} # {} /\ Stageable(b) /\ live \in {Blank("empty"), Blank("torn")}
    BY <1>6 DEF RestoreUnderWay, JobOK, l, b
  <2> QED BY <1>1, <2>1, Seen DEF Store!Next
<1> QED BY <1>2, <1>3, <1>4, <1>5, <1>6 DEF StoreInv

\* A request's statement changes rows MockStore lets it change.
LEMMA ServesAsStore ==
    ASSUME IInv, NEW c \in Clients, Serve(c)
    PROVE  Store!Next \/ UNCHANGED Store!files
<1> USE HeldFiles
<1>1. writer # "held" /\ writer' # "held" /\ baseline' = baseline
  BY ServesFree, ServeKeeps
<1>2. CASE live' = live
  BY <1>1, <1>2, Seen
<1>3. CASE live' # live
  <2> DEFINE own == ({"zone", "ns", "key", "pending", "vpc"} \cup (IF live.loaded THEN {} ELSE {"fixture"}))
                    \X {AccountID(live)}
             R   == live'.rows \cap own
  <2>1. RequestWrites(c)
    <3>1. ~(ReadAccount(c) \/ Leave(c))
      BY <1>3 DEF ReadAccount, Leave
    <3> QED BY <3>1, RequestSteps DEF Serve
  <2>2. live.state = "whole"
    BY <2>1 DEF RequestWrites, IInv, RequestKeepsItsAccount, Readable
  <2>3. PICK S \in SUBSET (Kinds \X Accounts) : live' = [live EXCEPT !.rows = S]
    BY <1>3, <2>1 DEF RequestWrites
  <2>4. live'.rows = S
    BY <2>3 DEF File
  <2>5. Grown(S, AccountID(live))
    BY <2>4, ServeRows
  <2>6. live.rows \subseteq Kinds \X Accounts
    BY DEF File
  <2>7. S = (live.rows \ own) \cup R
    <3>1. ASSUME NEW r \in Kinds \X Accounts, r \in S, r \notin live.rows PROVE r \in own
      BY <2>5, <3>1 DEF Grown, Kinds
    <3>2. ASSUME NEW r \in Kinds \X Accounts, r \in live.rows, r \notin S PROVE r \in own
      BY <2>5, <3>2 DEF Grown
    <3> HIDE DEF own
    <3> QED BY <2>4, <2>6, <3>1, <3>2
  <2> HIDE DEF R
  <2>8. live' = [live EXCEPT !.rows = (live.rows \ own) \cup R] /\ R \in SUBSET own
    BY <2>3, <2>7 DEF R
  <2>9. Store!Request
    BY <1>1, <2>2, <2>8, StoreSame DEF Store!Request
  <2> QED BY <2>9 DEF Store!Next
<1> QED BY <1>2, <1>3

LEMMA StoreInit == Init => Store!Init
  BY StoreSame DEF Init, Store!Init

LEMMA StoreStep ==
    ASSUME IInv, EmptiedInv, StoreInv, [Next]_vars
    PROVE  Store!Next \/ UNCHANGED Store!files
<1> USE HeldFiles
<1>1. CASE New \/ DeleteFile \/ BootBackfill \/ BootSeed
  <2>1. writer = "free" /\ writer' = "free" /\ baseline' = baseline
    BY <1>1 DEF New, DeleteFile, BootBackfill, BootSeed, IInv, BootAlone
  <2>2. \/ live' = live
        \/ live.state \in {"none", "empty"} /\ live' = Fresh
        \/ live.state \in {"torn", "other"} /\ live' = NoFile
        \/ live.state = "whole" /\ ~live.loaded /\ live' \in {Backfilled(live), Seeded(live, AccountID(live))}
    <3>1. CASE New \/ DeleteFile
      BY <3>1 DEF New, DeleteFile
    <3>2. CASE BootBackfill
      BY <3>2 DEF BootBackfill, Backfilled, StoreInv
    <3>3. CASE BootSeed
      BY <3>3 DEF BootSeed, StoreInv
    <3> QED BY <1>1, <3>1, <3>2, <3>3
  <2> QED BY <2>1, <2>2, Seen DEF Store!Next
<1>2. CASE BootRefused
  <2>1. writer = "held"
    BY <1>2, NoJobOK DEF BootRefused, IInv, BootAlone, TypeOK, EmptiedInv
  <2> QED BY <1>2, <2>1, Released DEF BootRefused
<1>3. CASE \E a \in Accounts : BootIdentity(a)
  <2>1. /\ writer = "free" /\ writer' = "held" /\ UNCHANGED <<live, baseline>>
        /\ job'.live = live /\ job'.baseline = baseline
    BY <1>3 DEF BootIdentity, IInv, BootAlone, Begin
  <2> QED BY <2>1, Seen
<1>4. CASE Kill
  <2>1. CASE writer = "held"
    BY <1>4, <2>1, Released DEF Kill
  <2>2. CASE writer # "held"
    BY <1>4, <2>2, Seen DEF Kill
  <2> QED BY <2>1, <2>2
<1>5. CASE \E c \in Clients : Serve(c)
  BY <1>5, ServesAsStore
<1>6. CASE UNCHANGED vars \/ \E c \in Clients, o \in ClientOps : Arrive(c, o)
  BY <1>6, Seen DEF vars, Arrive
<1>7. CASE Ask
  BY <1>7, Seen DEF Ask, Lock
<1>8. CASE LockGranted
  <2>1. writer = "pending" /\ writer' = "held" /\ job'.live = live /\ job'.baseline = baseline
        /\ UNCHANGED <<live, baseline>>
    BY <1>8 DEF LockGranted, Jobs
  <2> QED BY <2>1, Seen
<1>9. CASE Unlock
  BY <1>9, Released DEF Unlock
<1>10. CASE \/ SetIdentity \/ Load \/ ResetTable \/ RemoveBaseline \/ VacuumInto
            \/ Stage \/ CloseLive \/ CopyOver \/ CopyFails \/ Reopen
  <2>1. writer = "held" /\ writer' = "held" /\ job'.live = job.live /\ job'.baseline = job.baseline
    BY <1>10, StaysUnderWay
  <2> QED BY <2>1, Seen
<1> QED BY <1>1, <1>2, <1>3, <1>4, <1>5, <1>6, <1>7, <1>8, <1>9, <1>10 DEF Next, Boot, Administer

\* Every admin operation is, to whoever is outside, one step on the database and its
\* baseline, or is cut where MockStore says it may be; every other step is one of
\* MockStore's or changes neither file, under any faults.
THEOREM Implementation == Spec => ImplementsMockStore
<1>1. Init => Store!Init /\ EmptiedInv /\ StoreInv
  BY StoreInit, InitStoreInv, NoJobOK DEF Init, EmptiedInv
<1>2. IInv /\ EmptiedInv /\ StoreInv /\ [Next]_vars => EmptiedInv' /\ StoreInv'
  BY NextEmptiedInv, NextStoreInv
<1>3. IInv /\ EmptiedInv /\ StoreInv /\ [Next]_vars => [Store!Next]_(Store!files)
  BY StoreStep
<1> QED BY <1>1, <1>2, <1>3, Invariance, PTL DEF Spec, ImplementsMockStore, Store!Spec

-----------------------------------------------------------------------------
\* The load's transaction.

\* Once SQLite has ended a load's transaction nothing was written since, and a
\* failed statement leaves no step open but the guard's and the rollback.
TxInv ==
    /\ tx \in {"none", "open", "ended"}
    /\ (step = "idle") = (tx = "none")
    /\ step = "idle" => undo = db
    /\ tx = "ended" => db = undo /\ failed
    /\ failed \in BOOLEAN
    /\ failed => step \in {"guard", "check guard", "abort"}
    /\ got = "error" => step \in {"guard", "check guard", "abort"}
    /\ step = "check guard" => failed

\* Initially no load is under way, and what is stored is what there was.
LEMMA TxInvInit == LoadInit => TxInv
  BY DEF LoadInit, TxInv

\* A load step keeps TxInv: a statement that failed is followed by Stops, whatever
\* its loader returned.
LEMMA TxInvStep == TxInv /\ [LoadNext]_pipelineVars => TxInv'
<1> SUFFICES ASSUME TxInv, [LoadNext]_pipelineVars PROVE TxInv'
  OBVIOUS
<1> USE DEF TxInv
<1>1. ASSUME NEW r \in Recordings[mix], BeginLoad(r) PROVE TxInv'
  BY <1>1 DEF BeginLoad
<1>2. CASE Link
  BY <1>2 DEF Link
<1>3. CASE Decode
  BY <1>3 DEF Decode
<1>4. CASE EndExchange
  BY <1>4 DEF EndExchange
<1>5. CASE RepeatItem
  BY <1>5 DEF RepeatItem
<1>6. CASE WriteItem
  BY <1>6 DEF WriteItem, Fails
<1>7. CASE GuardItem
  <2>1. CASE Stops
    BY <1>7, <2>1 DEF GuardItem, Abort
  <2>2. CASE ~Stops
    BY <1>7, <2>2 DEF GuardItem, Stops
  <2> QED BY <2>1, <2>2
<1>8. CASE Check
  <2>1. CASE Fails
    BY <1>8, <2>1 DEF Check, Fails
  <2>2. CASE UNCHANGED <<db, tx, failed, got>> /\ step' = "end"
    BY <1>8, <2>2 DEF Check
  <2> QED BY <1>8, <2>1, <2>2 DEF Check
<1>9. CASE GuardCheck
  <2>1. CASE Stops
    BY <1>9, <2>1 DEF GuardCheck, Abort
  <2>2. CASE ~Stops
    BY <1>9, <2>2 DEF GuardCheck, Stops
  <2> QED BY <2>1, <2>2
<1>10. CASE Rollback
  BY <1>10 DEF Rollback, Forget
<1>11. CASE Commit
  BY <1>11 DEF Commit, Forget
<1>12. CASE Reset
  BY <1>12 DEF Reset
<1>13. CASE ClearRequests
  BY <1>13 DEF ClearRequests, loadVars
<1>14. ASSUME NEW c \in Callers, Caller(c) PROVE TxInv'
  BY <1>14 DEF Caller, loadVars
<1>15. CASE UNCHANGED pipelineVars
  BY <1>15 DEF pipelineVars, loadVars
<1> QED
  BY <1>1, <1>2, <1>3, <1>4, <1>5, <1>6, <1>7, <1>8, <1>9, <1>10, <1>11, <1>12, <1>13, <1>14, <1>15
     DEF LoadNext

\* TxInv holds of every state of the pipeline.
LEMMA LoadKeepsTxInv == LoadSpec => []TxInv
  BY TxInvInit, TxInvStep, PTL DEF LoadSpec

\* Only a rollback ends a load otherwise than well.
LEMMA EndsByRollback ==
    ASSUME [LoadNext]_pipelineVars, Ends("refused") \/ Ends("failed")
    PROVE  Rollback
<1> USE DEF Ends
<1>1. ASSUME NEW r \in Recordings[mix], BeginLoad(r) PROVE FALSE
  BY <1>1 DEF BeginLoad
<1>2. CASE Link \/ Decode \/ EndExchange \/ RepeatItem \/ WriteItem \/ GuardItem \/ Check \/ GuardCheck
  BY <1>2 DEF Link, Decode, EndExchange, RepeatItem, WriteItem, GuardItem, Check, GuardCheck, Abort
<1>3. CASE Commit \/ Reset
  BY <1>3 DEF Commit, Reset, Forget
<1>4. CASE ClearRequests \/ (\E c \in Callers : Caller(c)) \/ UNCHANGED pipelineVars
  BY <1>4 DEF ClearRequests, Caller, pipelineVars, loadVars
<1> QED BY <1>1, <1>2, <1>3, <1>4 DEF LoadNext

\* [mock-load-refusal-changes-nothing]: whatever the recording, whichever statement
\* fails and whatever SQLite does about it, a load that ends refused or failed
\* leaves the rows it found, and the request log.
THEOREM ARefusedLoadChangesNothing == LoadSpec => RefusedLoadChangesNothing
<1>1. TxInv /\ [LoadNext]_pipelineVars =>
        [Ends("refused") \/ Ends("failed") => db' = undo /\ UNCHANGED log]_pipelineVars
  <2> SUFFICES ASSUME TxInv, [LoadNext]_pipelineVars, Ends("refused") \/ Ends("failed")
               PROVE  db' = undo /\ UNCHANGED log
    OBVIOUS
  <2>1. Rollback /\ step # "idle"
    BY EndsByRollback DEF Ends
  <2> QED BY <2>1 DEF Rollback, TxInv, logVars
<1> QED BY <1>1, LoadKeepsTxInv, PTL DEF LoadSpec, RefusedLoadChangesNothing

-----------------------------------------------------------------------------
\* The request log.

Pending(c) == at[c] \in {"returned", "panicked"}

\* Whose rows a request is of: while its handler runs no load does, so its era is
\* the rows'; and a failure is either written as one or a panic's.
LogInv ==
    /\ LogTypeOK
    /\ NoFailureLooksAnswered
    /\ \A c \in Callers : at[c] = "handler" => step = "idle" /\ ranIn[c] = era
    /\ ~late => (\A m \in 1..Len(log) : log[m].era = era)
    /\ ~late => (\A c \in Callers : Pending(c) => ranIn[c] = era)
    /\ \A c \in Callers : wire[c] = "failed" => rw[c].status >= 500 \/ at[c] = "panicked"
    /\ late \in BOOLEAN

\* Initially nothing is logged and nobody has called.
LEMMA LogInvInit == LoadInit => LogInv
<1> SUFFICES ASSUME LoadInit PROVE LogInv
  OBVIOUS
<1> USE DEF LoadInit, LogInit
<1>1. Len(log) = 0
  OBVIOUS
<1>2. LogTypeOK
  BY <1>1, CallsAssumption DEF LogTypeOK, NewWriter
<1>3. \A c \in Callers : at[c] = "idle" /\ wire[c] = "none"
  OBVIOUS
<1>4. late \in BOOLEAN
  OBVIOUS
<1>5. \A m \in 1..Len(log) : FALSE
  BY <1>1
<1> HIDE DEF LoadInit, LogInit
<1> QED BY <1>2, <1>3, <1>4, <1>5 DEF LogInv, NoFailureLooksAnswered, Pending

\* A caller's step keeps LogInv.
LEMMA LogInvCaller ==
    ASSUME LogInv, NEW c \in Callers, Caller(c)
    PROVE  LogInv'
<1> USE CallsAssumption DEF LogInv, LogTypeOK, Caller, loadVars, Pending
<1>1. CASE Call(c)
  BY <1>1 DEF Call, NewWriter, NoFailureLooksAnswered
<1>2. CASE Return(c)
  BY <1>2 DEF Return, NoFailureLooksAnswered
<1>3. CASE Panic(c)
  BY <1>3 DEF Panic, NoFailureLooksAnswered
<1>4. CASE \E s \in Statuses : WriteHeader(c, s)
  <2> PICK s \in Statuses : WriteHeader(c, s)
    BY <1>4
  <2>1. s \in Nat /\ at[c] = "handler" /\ step = "idle"
    BY DEF Statuses, WriteHeader
  <2>2. LogTypeOK'
    BY <2>1 DEF WriteHeader
  <2>3. \A d \in Callers : wire'[d] = "failed" => rw'[d].status >= 500 \/ at'[d] = "panicked"
    BY <2>1 DEF WriteHeader
  <2> QED BY <2>1, <2>2, <2>3 DEF WriteHeader, NoFailureLooksAnswered
<1>5. CASE \E m \in Marks : Mark(c, m)
  BY <1>5 DEF Mark, NoFailureLooksAnswered
<1>6. CASE LogAppend(c)
  <2> DEFINE entry == [class |-> Classification(Settled(c)), failed |-> wire[c] = "failed", era |-> ranIn[c]]
  <2>1. entry \in [class: Classes, failed: BOOLEAN, era: Nat]
    BY DEF Classification, Settled, Classes, Marks, Statuses
  <2>2. entry.failed => entry.class # "answered-from-rows"
    <3> SUFFICES ASSUME wire[c] = "failed" PROVE Classification(Settled(c)) # "answered-from-rows"
      OBVIOUS
    <3>1. CASE at[c] = "panicked"
      BY <3>1 DEF Classification, Settled
    <3>2. CASE at[c] # "panicked"
      <4>1. rw[c].status >= 500 /\ rw[c].status # 0 /\ rw[c].class \in Marks \cup {"none"}
        BY <3>2 DEF Statuses
      <4> QED BY <3>2, <4>1 DEF Classification, Settled, Marks
    <3> QED BY <3>1, <3>2
  <2>3. ~late => entry.era = era
    BY <1>6 DEF LogAppend
  <2> HIDE DEF entry
  <2>4. log' = Append(log, entry)
    BY <1>6 DEF LogAppend, entry
  <2>5. \A m \in 1..Len(log') : log'[m] = entry \/ (m \in 1..Len(log) /\ log'[m] = log[m])
    BY <2>4
  <2> QED BY <1>6, <2>1, <2>2, <2>3, <2>5 DEF LogAppend, NewWriter, NoFailureLooksAnswered
<1> QED BY <1>1, <1>2, <1>3, <1>4, <1>5, <1>6 DEF LogNext

\* Rows are replaced, and the log cleared, while no handler runs.
LEMMA ClearedLog ==
    ASSUME LogInv, ClearLog, NobodyHolds
    PROVE  LogInv'
  BY DEF LogInv, LogTypeOK, ClearLog, NobodyHolds, NoFailureLooksAnswered, Pending

\* A step of the pipeline keeps LogInv.
LEMMA LogInvStep == LogInv /\ [LoadNext]_pipelineVars => LogInv'
<1> SUFFICES ASSUME LogInv, [LoadNext]_pipelineVars PROVE LogInv'
  OBVIOUS
<1>1. ASSUME NobodyHolds, UNCHANGED <<logVars, late>> PROVE LogInv'
  BY <1>1 DEF LogInv, LogTypeOK, logVars, NobodyHolds, NoFailureLooksAnswered, Pending
<1>2. step # "idle" => NobodyHolds
  BY DEF LogInv, NobodyHolds
<1>3. ASSUME NEW r \in Recordings[mix], BeginLoad(r) PROVE LogInv'
  BY <1>1, <1>3 DEF BeginLoad
<1>4. CASE Link \/ Decode \/ EndExchange \/ RepeatItem \/ WriteItem
  BY <1>1, <1>2, <1>4 DEF Link, Decode, EndExchange, RepeatItem, WriteItem
<1>5. CASE GuardItem \/ Check \/ GuardCheck \/ Rollback
  BY <1>1, <1>2, <1>5 DEF GuardItem, Check, GuardCheck, Abort, Rollback
<1>6. CASE Commit
  BY <1>2, <1>6, ClearedLog DEF Commit, CommitClears
<1>7. CASE Reset
  BY <1>7, ClearedLog DEF Reset
<1>8. CASE ClearRequests
  BY <1>8 DEF ClearRequests, loadVars, LogInv, LogTypeOK, NoFailureLooksAnswered, Pending
<1>9. CASE \E c \in Callers : Caller(c)
  BY <1>9, LogInvCaller
<1>10. CASE UNCHANGED pipelineVars
  BY <1>10 DEF pipelineVars, loadVars, logVars, LogInv, LogTypeOK, NoFailureLooksAnswered, Pending
<1> QED BY <1>3, <1>4, <1>5, <1>6, <1>7, <1>8, <1>9, <1>10 DEF LoadNext

\* LogInv holds of every state of the pipeline.
LEMMA LoadKeepsLogInv == LoadSpec => []LogInv
  BY LogInvInit, LogInvStep, PTL DEF LoadSpec

\* However loads, resets, clears and requests interleave, the log cleared with the
\* rows holds only what was against the rows since, unless a request was still to
\* be logged when they were replaced; and no failure in it, a panic's included,
\* looks answered from rows.
THEOREM TheLogIsOfTheseRows == LoadSpec => []LogIsOfTheseRows
<1>1. LogInv => LogIsOfTheseRows
  BY DEF LogInv, LogIsOfTheseRows
<1> QED BY <1>1, LoadKeepsLogInv, PTL

-----------------------------------------------------------------------------
\* What a load has done.

InExchange == step \in {"item", "guard"}
Loading    == step \in {"link", "exchange", "item", "guard", "end"}

Places == UNION {{k} \X (1..Len(rec[k].items)) : k \in Good(rec)}
ItemAt(p)  == rec[p[1]].items[p[2]]

\* The load is past place p of its recording.
Passed(p) == p[1] \in done \/ (InExchange /\ p[1] = NextExchange /\ p[2] < n)

\* Where the load is.
ProgressInv ==
    /\ mix \in Mixes
    /\ step = "idle" => rec = << >>
    /\ step # "idle" => rec \in Recordings[mix]
    /\ step \in {"idle", "link"} => done = {} /\ held = {} /\ ~refused
    /\ step = "idle" => n = 1
    /\ done \subseteq Good(rec) /\ n \in Nat \ {0}
    /\ InExchange => NextExchange \in Good(rec) \ done
    /\ step = "guard" => n <= Len(rec[NextExchange].items) /\ Held(Item) = {}
    /\ step = "guard" /\ ~failed => got \in {"nil", "refusal"}
    /\ step = "end" => Good(rec) \ done = {}
    /\ refused \in BOOLEAN
    /\ got \in {"none", "nil", "refusal", "error"}
    /\ step \in {"idle", "link", "exchange", "item", "guard", "check guard", "end", "abort"}
    /\ loads \in 0..MaxLoads[mix]
    /\ ans \in {"none", "ok", "refused", "failed"}

\* What is held is of places passed; and so are the chains it was seen in.
HeldInv ==
    /\ \A h \in held :
          /\ h = [item |-> h.item, exchange |-> h.exchange, seen |-> h.seen]
          /\ h.exchange \in Good(rec) /\ h.seen \subseteq Good(rec)
    /\ \A g, h \in held : Ref(g.item) = Ref(h.item) => g = h
    /\ Loading => \A h \in held :
          /\ \E p \in Places : Passed(p) /\ ItemAt(p) = h.item
          /\ \A s \in h.seen :
                \E p \in Places : Passed(p) /\ Ref(ItemAt(p)) = Ref(h.item) /\ s = Chain(rec)[p[1]]

\* A load that refused nothing holds all it passed.
TakenInv ==
    Loading /\ ~refused /\ ~failed =>
        \A p \in Places : Passed(p) => ItemAt(p) \in HeldItems

\* What X's rows were written on is in X, and agrees with it.
Written(X) ==
    /\ \A x \in X : Under(x) \subseteq RefsOf(X) /\ (x.type = "volume" => VolumeFits(X, x))
    /\ \A t, u \in OfType(X, "route-table") :
          t.vpc = u.vpc /\ t.mains > 0 /\ u.mains > 0 => t = u /\ t.mains = 1

\* What is written is what is held, the item at the guard included.
Kept == HeldItems \cup (IF step = "guard" /\ got = "nil" THEN {Item} ELSE {})

RowsInv ==
    /\ tx = "open" => db = [rows |-> db.rows, loaded |-> TRUE]
    /\ Loading /\ ~failed => db.rows = {x \in Kept : Writes(x)} /\ Written(db.rows)

\* What link, and resolve and diff, found of a load that refused nothing.
FoundInv ==
    /\ step \notin {"idle", "link"} /\ ~refused => ~LinkRefuses(rec)
    /\ step = "end" /\ ~refused => \A x \in HeldItems : Accepted(HeldItems, x)

\* The rows a load found, and so those of no load under way.
UndoInv == undo.loaded \in BOOLEAN /\ (undo.loaded => SoundRows(undo.rows))

LoadInv == ProgressInv /\ HeldInv /\ TakenInv /\ RowsInv /\ FoundInv /\ UndoInv

\* A recording that holds together is refused by nothing but a failed statement,
\* and nothing else aborts its load.
SoundInv ==
    /\ step # "idle" /\ Sound(rec) /\ ~failed => ~refused /\ got # "refusal"
    /\ step = "abort" => failed \/ ~Sound(rec)
    /\ step = "idle" => got = "none"

-----------------------------------------------------------------------------
\* The order exchanges load in.

\* A set of naturals that is not empty has a least member.
LEMMA HasLeast ==
    ASSUME NEW S, S \subseteq Nat, S # {}
    PROVE  \E x \in S : \A y \in S : x <= y
<1> DEFINE R == OpToRel(<, Nat)
<1>1. \A x, y \in Nat : <<x, y>> \in R <=> x < y
  BY DEF OpToRel
<1>2. IsWellFoundedOn(R, Nat)
  BY NatLessThanWellFounded
<1> HIDE DEF R
<1>3. \E x \in S : \A y \in S : ~ (<<y, x>> \in R)
  BY <1>2, WFMin
<1>4. \A x, y \in Nat : ~(y < x) => x <= y
  OBVIOUS
<1> QED BY <1>1, <1>3, <1>4

\* One bounded above has a greatest.
LEMMA HasGreatest ==
    ASSUME NEW N \in Nat, NEW S, S \subseteq 1..N, S # {}
    PROVE  \E x \in S : \A y \in S : y <= x
<1> DEFINE T == {N - x : x \in S}
<1>1. T \subseteq Nat /\ T # {}
  <2>1. ASSUME NEW x \in S PROVE N - x \in Nat
    <3>1. x \in Int /\ 1 <= x /\ x <= N
      OBVIOUS
    <3> QED BY <3>1
  <2> QED BY <2>1
<1>2. PICK t \in T : \A u \in T : t <= u
  BY <1>1, HasLeast
<1>3. PICK x \in S : t = N - x
  BY <1>2
<1>4. \A y \in S : t <= N - y
  BY <1>2
<1> QED BY <1>3, <1>4

\* Every type has its rank.
LEMMA Ranks ==
    /\ Len(LoadOrder) = 21
    /\ \A t \in Types : Rank(t) \in 1..21 /\ LoadOrder[Rank(t)] = t
<1>1. Len(LoadOrder) = 21
  BY DEF LoadOrder
<1>2. ASSUME NEW t \in Types PROVE Rank(t) \in 1..21 /\ LoadOrder[Rank(t)] = t
  <2>1. \E k \in 1..Len(LoadOrder) : LoadOrder[k] = t
    BY DEF Types
  <2> QED BY <1>1, <2>1 DEF Rank
<1> QED BY <1>1, <1>2

\* The exchanges still to load have a first.
LEMMA NextIsFirst ==
    ASSUME IsRecording(rec), Good(rec) \ done # {}
    PROVE  /\ NextExchange \in Good(rec) \ done
           /\ \A m \in Good(rec) \ done : m = NextExchange \/ Precedes(rec, NextExchange, m)
<1> DEFINE left == Good(rec) \ done
           rank(k) == Rank(rec[k].key)
           ranks == {rank(k) : k \in left}
<1>1. left \subseteq Nat /\ left # {}
  BY DEF Good, Of, IsRecording
<1>2. \A k \in left : rank(k) \in Nat
  <2> SUFFICES ASSUME NEW k \in left PROVE rank(k) \in Nat
    OBVIOUS
  <2>1. k \in 1..Len(rec)
    BY DEF Good, Of
  <2>2. rec[k].key \in Types
    BY <2>1 DEF IsRecording
  <2> QED BY <2>2, Ranks
<1>3. PICK a \in ranks : \A b \in ranks : a <= b
  <2>1. ranks \subseteq Nat /\ ranks # {}
    BY <1>1, <1>2
  <2> HIDE DEF ranks
  <2> QED BY <2>1, HasLeast
<1> DEFINE best == {k \in left : rank(k) = a}
<1>4. PICK k \in best : \A m \in best : k <= m
  <2>1. best \subseteq Nat /\ best # {}
    BY <1>1, <1>3
  <2> HIDE DEF best
  <2> QED BY <2>1, HasLeast
<1>5. \A m \in left : m = k \/ Precedes(rec, k, m)
  <2> SUFFICES ASSUME NEW m \in left, m # k PROVE Precedes(rec, k, m)
    OBVIOUS
  <2>1. k \in Nat /\ m \in Nat /\ k # m /\ rank(k) \in Nat /\ rank(m) \in Nat
    BY <1>1, <1>2, <1>4
  <2>2. rank(k) <= rank(m)
    BY <1>3, <1>4
  <2>3. rank(k) = rank(m) => k <= m
    BY <1>4
  <2> QED BY <2>1, <2>2, <2>3 DEF Precedes
<1>6. k \in left
  BY <1>4
<1> HIDE DEF best, ranks
<1> QED BY <1>5, <1>6 DEF NextExchange

-----------------------------------------------------------------------------
\* The pages of one read.

\* A page whose token an earlier page answered continues the latest such.
LEMMA ContinuesEarlier ==
    ASSUME NEW r, Len(r) \in Nat, NEW k \in Nat, Earlier(r, k) # {}
    PROVE  Continues(r, k) \in Earlier(r, k) /\ \A q \in Earlier(r, k) : q <= Continues(r, k)
<1>1. Earlier(r, k) \subseteq 1..Len(r)
  BY DEF Earlier, Read, Good, Of
<1>2. \E p \in Earlier(r, k) : \A q \in Earlier(r, k) : q <= p
  BY <1>1, HasGreatest
<1> QED BY <1>2 DEF Continues

\* Each page's first page, where f has those of the pages before it.
FirstPage(r, f, k) == IF k \in Good(r) /\ Earlier(r, k) # {} THEN f[Continues(r, k)] ELSE k

\* Every page is in a chain.
LEMMA ChainUnfolds ==
    ASSUME NEW r, Len(r) \in Nat
    PROVE  \A k \in 1..Len(r) : Chain(r)[k] = FirstPage(r, Chain(r), k)
<1> DEFINE Chained(f, j) == f = [k \in 1..j |-> FirstPage(r, f, k)]
           Bad == {j \in Nat : ~\E f : Chained(f, j)}
<1>1. ASSUME Bad # {} PROVE FALSE
  <2>1. PICK j \in Bad : \A y \in Bad : j <= y
    <3>1. Bad \subseteq Nat
      OBVIOUS
    <3> HIDE DEF Bad
    <3> QED BY <1>1, <3>1, HasLeast
  <2>2. CASE j = 0
    <3> DEFINE f == [k \in 1..0 |-> k]
    <3>1. f = [k \in 1..0 |-> FirstPage(r, f, k)]
      OBVIOUS
    <3> HIDE DEF f
    <3> QED BY <2>1, <2>2, <3>1
  <2>3. CASE j # 0
    <3>1. j \in Nat /\ j - 1 \in Nat /\ j - 1 \notin Bad
      BY <2>1, <2>3
    <3>2. PICK f : Chained(f, j - 1)
      BY <3>1
    <3> DEFINE g == [k \in 1..j |-> FirstPage(r, f, k)]
    <3>3. ASSUME NEW k \in 1..j, k \in Good(r), Earlier(r, k) # {}
          PROVE  Continues(r, k) \in 1..(j - 1)
      <4>1. Continues(r, k) \in Earlier(r, k)
        BY <3>1, <3>3, ContinuesEarlier
      <4>2. Continues(r, k) \in 1..Len(r) /\ Continues(r, k) < k
        BY <4>1 DEF Earlier, Read, Good, Of
      <4> QED BY <3>1, <4>2
    <3>4. ASSUME NEW k \in 1..(j - 1) PROVE g[k] = f[k]
      <4>1. k \in 1..j
        BY <3>1
      <4>2. f[k] = FirstPage(r, f, k)
        BY <3>2
      <4> QED BY <4>1, <4>2
    <3>5. \A k \in 1..j : FirstPage(r, f, k) = FirstPage(r, g, k)
      BY <3>3, <3>4 DEF FirstPage
    <3>6. g = [k \in 1..j |-> FirstPage(r, g, k)]
      BY <3>5
    <3> HIDE DEF g
    <3> QED BY <2>1, <3>6
  <2> QED BY <2>2, <2>3
<1>2. \E f : f = [k \in 1..Len(r) |-> FirstPage(r, f, k)]
  BY <1>1
<1> HIDE DEF Bad, Chained
<1> DEFINE c == CHOOSE f : f = [k \in 1..Len(r) |-> FirstPage(r, f, k)]
<1>3. c = [k \in 1..Len(r) |-> FirstPage(r, c, k)]
  BY <1>2
<1>4. Chain(r) = c
  BY DEF Chain, FirstPage
<1> HIDE DEF c
<1> QED BY <1>3, <1>4

\* A chain's first page is a page that was answered, of the read its pages are of.
LEMMA ChainWithinRead ==
    ASSUME NEW r, Len(r) \in Nat, NEW k \in Good(r)
    PROVE  Chain(r)[k] \in Read(r, k)
<1> DEFINE Bad == {j \in Good(r) : Chain(r)[j] \notin Read(r, j)}
<1>1. Good(r) \subseteq 1..Len(r)
  BY DEF Good, Of
<1>2. ASSUME Bad # {} PROVE FALSE
  <2>1. PICK j \in Bad : \A y \in Bad : j <= y
    <3>1. Bad \subseteq Nat
      BY <1>1
    <3> HIDE DEF Bad
    <3> QED BY <1>2, <3>1, HasLeast
  <2>2. j \in Good(r) /\ j \in 1..Len(r) /\ j \in Nat
    BY <1>1
  <2>3. Chain(r)[j] = FirstPage(r, Chain(r), j)
    BY <2>2, ChainUnfolds
  <2>4. Earlier(r, j) # {}
    BY <2>1, <2>2, <2>3 DEF FirstPage, Read
  <2>5. Continues(r, j) \in Earlier(r, j)
    BY <2>2, <2>4, ContinuesEarlier
  <2>6. Continues(r, j) \in Read(r, j) /\ Continues(r, j) < j /\ Continues(r, j) \in Nat
    BY <1>1, <2>5 DEF Earlier, Read
  <2>7. Continues(r, j) \notin Bad
    BY <2>1, <2>2, <2>6
  <2>8. Chain(r)[Continues(r, j)] \in Read(r, Continues(r, j))
    BY <2>6, <2>7 DEF Read
  <2>9. Chain(r)[j] \in Read(r, j)
    BY <2>2, <2>3, <2>4, <2>6, <2>8 DEF FirstPage, Read
  <2> QED BY <2>1, <2>9
<1> QED BY <1>2

-----------------------------------------------------------------------------
\* Where the load is.

\* A step that loads no exchange to its end leaves the next one the next.
LEMMA SameExchange ==
    ASSUME UNCHANGED <<rec, done>>
    PROVE  NextExchange' = NextExchange /\ Good(rec)' = Good(rec)
  BY DEF NextExchange, Good, Of

\* What a load is given is a recording.
LEMMA LoadsRecordings ==
    ASSUME ProgressInv, step # "idle"
    PROVE  IsRecording(rec) /\ Good(rec) \subseteq 1..Len(rec)
  BY RecordingsAssumption DEF ProgressInv, Good, Of

\* Initially no load is anywhere.
LEMMA ProgressInvInit == LoadInit => ProgressInv
<1> SUFFICES ASSUME LoadInit PROVE ProgressInv
  OBVIOUS
<1>1. mix \in Mixes /\ MaxLoads[mix] \in Nat
  BY MixesAssumption DEF LoadInit
<1>2. loads \in 0..MaxLoads[mix] /\ n \in Nat \ {0}
  BY <1>1 DEF LoadInit
<1>3. step = "idle" /\ rec = << >> /\ done = {} /\ held = {} /\ n = 1 /\ refused = FALSE /\ got = "none" /\ ans = "none"
  BY DEF LoadInit
<1> QED BY <1>1, <1>2, <1>3 DEF ProgressInv, InExchange

\* A load's steps keep its place.
LEMMA ProgressInvStep == TxInv /\ ProgressInv /\ [LoadNext]_pipelineVars => ProgressInv'
<1> SUFFICES ASSUME TxInv, ProgressInv, [LoadNext]_pipelineVars PROVE ProgressInv'
  OBVIOUS
<1>1. ASSUME NEW r \in Recordings[mix], BeginLoad(r) PROVE ProgressInv'
  <2>1. loads + 1 \in 0..MaxLoads[mix]
    BY <1>1, MixesAssumption DEF BeginLoad, ProgressInv
  <2> QED BY <1>1, <2>1 DEF BeginLoad, ProgressInv, InExchange, TxInv
<1>2. CASE Link
  BY <1>2 DEF Link, ProgressInv, InExchange, LinkRefuses
<1>3. CASE Decode
  <2>1. NextExchange \in Good(rec) \ done
    BY <1>3, LoadsRecordings, NextIsFirst DEF Decode
  <2>2. CASE rec[NextExchange].decodes = "items"
    BY <1>3, <2>1, <2>2, SameExchange DEF Decode, ProgressInv, InExchange
  <2>3. CASE rec[NextExchange].decodes = "refusal"
    BY <1>3, <2>1, <2>3 DEF Decode, ProgressInv, InExchange
  <2>4. CASE rec[NextExchange].decodes = "error"
    BY <1>3, <2>1, <2>4 DEF Decode, ProgressInv, InExchange
  <2> QED BY <1>3, <2>2, <2>3, <2>4 DEF Decode
<1>4. CASE EndExchange
  BY <1>4 DEF EndExchange, ProgressInv, InExchange
<1>5. CASE RepeatItem
  <2>1. refused' \in BOOLEAN
    BY <1>5 DEF RepeatItem, Repeat
  <2>2. UNCHANGED <<mix, rec, done, step, failed, got, loads, ans>> /\ n' = n + 1 /\ step = "item"
    BY <1>5 DEF RepeatItem, NextItem
  <2> QED BY <2>1, <2>2, SameExchange DEF ProgressInv, InExchange
<1>6. CASE WriteItem
  <2>1. got' \in {"nil", "refusal", "error"} /\ (~failed' => got' \in {"nil", "refusal"})
    BY <1>6 DEF WriteItem, Fails, TxInv
  <2>2. UNCHANGED <<mix, rec, done, n, held, refused, loads, ans>> /\ step' = "guard" /\ step = "item"
    BY <1>6 DEF WriteItem, progress
  <2>3. (n <= Len(rec[NextExchange].items))' /\ (Held(Item) = {})'
    BY <1>6, <2>2, SameExchange DEF WriteItem, Held, Item
  <2> QED BY <2>1, <2>2, <2>3, SameExchange DEF ProgressInv, InExchange
<1>7. CASE GuardItem
  <2>1. CASE Stops
    BY <1>7, <2>1 DEF GuardItem, Abort, progress, ProgressInv, InExchange
  <2>2. CASE ~Stops
    <3>1. /\ step = "guard" /\ step' = "item" /\ got' = "none" /\ n' = n + 1 /\ (refused' = TRUE \/ UNCHANGED refused)
          /\ UNCHANGED <<mix, rec, done, failed, loads, ans>>
      BY <1>7, <2>2 DEF GuardItem, NextItem
    <3>2. n' \in Nat \ {0}
      BY <3>1 DEF ProgressInv
    <3>3. refused' \in BOOLEAN
      BY <3>1 DEF ProgressInv
    <3>4. (InExchange => NextExchange \in Good(rec) \ done)' /\ (done \subseteq Good(rec))'
      BY <3>1, SameExchange DEF ProgressInv, InExchange
    <3> QED BY <3>1, <3>2, <3>3, <3>4 DEF ProgressInv
  <2> QED BY <2>1, <2>2
<1>8. CASE Check
  <2>1. refused' \in BOOLEAN /\ got' \in {"none", "nil", "refusal", "error"}
    BY <1>8 DEF Check, Fails, ProgressInv
  <2>2. step' \in {"end", "check guard"} /\ Good(rec) \ done = {}
    BY <1>8 DEF Check
  <2> QED BY <1>8, <2>1, <2>2, SameExchange DEF Check, ProgressInv, InExchange
<1>9. CASE GuardCheck
  <2>1. Stops
    BY <1>9 DEF GuardCheck, Stops, TxInv
  <2> QED BY <1>9, <2>1 DEF GuardCheck, Abort, progress, ProgressInv, InExchange
<1>10. CASE Rollback \/ Commit
  <2>1. /\ step' = "idle" /\ rec' = << >> /\ done' = {} /\ held' = {} /\ n' = 1 /\ refused' = FALSE
        /\ got' = "none" /\ ans' \in {"ok", "refused", "failed"} /\ UNCHANGED <<mix, loads>>
    BY <1>10 DEF Rollback, Commit, Forget
  <2>2. (InExchange => NextExchange \in Good(rec) \ done)'
    BY <2>1 DEF InExchange
  <2>3. (done \subseteq Good(rec) /\ n \in Nat \ {0})'
    BY <2>1
  <2>4. (refused \in BOOLEAN)'
    BY <2>1
  <2>5. (loads \in 0..MaxLoads[mix])'
    BY <2>1 DEF ProgressInv
  <2> QED BY <2>1, <2>2, <2>3, <2>4, <2>5 DEF ProgressInv
<1>11. CASE Reset
  <2>1. loads + 1 \in 0..MaxLoads[mix]
    BY <1>11, MixesAssumption DEF Reset, ProgressInv
  <2> QED BY <1>11, <2>1 DEF Reset, progress, ProgressInv, InExchange
<1>12. ASSUME UNCHANGED loadVars PROVE ProgressInv'
  BY <1>12, SameExchange DEF loadVars, ProgressInv, InExchange, Held, Item
<1> QED
  BY <1>1, <1>2, <1>3, <1>4, <1>5, <1>6, <1>7, <1>8, <1>9, <1>10, <1>11, <1>12
     DEF LoadNext, ClearRequests, Caller, pipelineVars

-----------------------------------------------------------------------------
\* What a load has passed, and what it holds.

\* A place is an exchange that was answered, and an item of it.
LEMMA PlacesAre ==
    \A p : p \in Places <=> /\ p = <<p[1], p[2]>>
                            /\ p[1] \in Good(rec) /\ p[2] \in 1..Len(rec[p[1]].items)
  BY DEF Places

\* At a place there is an item of its exchange's key.
LEMMA ItemsAtPlaces ==
    ASSUME IsRecording(rec), NEW p \in Places
    PROVE  IsItem(ItemAt(p)) /\ ItemAt(p).type = rec[p[1]].key
<1>1. p[1] \in 1..Len(rec) /\ p[2] \in 1..Len(rec[p[1]].items)
  BY PlacesAre DEF Good, Of
<1> QED BY <1>1 DEF ItemAt, IsRecording

\* Items count from one.
LEMMA CountsFromOne == ProgressInv => n \in Nat /\ n >= 1
<1> SUFFICES ASSUME ProgressInv PROVE n \in Nat /\ n >= 1
  OBVIOUS
<1>1. n \in Nat \ {0}
  BY DEF ProgressInv
<1> QED BY <1>1

\* The item a load is at is at a place.
LEMMA ThisPlace ==
    ASSUME ProgressInv, InExchange, n <= Len(rec[NextExchange].items)
    PROVE  <<NextExchange, n>> \in Places /\ ItemAt(<<NextExchange, n>>) = Item
<1>1. NextExchange \in Good(rec) /\ n \in Nat /\ n >= 1
  BY CountsFromOne DEF ProgressInv
<1>2. Len(rec[NextExchange].items) \in Nat
  BY <1>1, LoadsRecordings DEF InExchange, IsRecording
<1> QED BY <1>1, <1>2, PlacesAre DEF ItemAt, Item

\* No other step of a load passes a place.
LEMMA PassesNone ==
    ASSUME ProgressInv, UNCHANGED rec,
           \/ UNCHANGED <<done, n>> /\ InExchange' = InExchange
           \/ Decode /\ rec[NextExchange].decodes = "items"
           \/ EndExchange
    PROVE  \A p \in Places : Passed(p)' <=> Passed(p)
<1>1. CASE UNCHANGED <<done, n>> /\ InExchange' = InExchange
  BY <1>1, SameExchange DEF Passed
<1>2. CASE Decode /\ rec[NextExchange].decodes = "items"
  <2>1. n' = 1 /\ ~InExchange /\ UNCHANGED done
    BY <1>2 DEF Decode, InExchange
  <2>2. \A p \in Places : ~(p[2] < 1)
    BY PlacesAre
  <2> QED BY <2>1, <2>2 DEF Passed
<1>3. CASE EndExchange
  <2>1. done' = done \cup {NextExchange} /\ InExchange /\ ~InExchange' /\ n > Len(rec[NextExchange].items)
    BY <1>3 DEF EndExchange, InExchange
  <2>2. n \in Nat /\ Len(rec[NextExchange].items) \in Nat
    BY <2>1, LoadsRecordings DEF ProgressInv, InExchange, IsRecording
  <2>3. \A p \in Places : p[1] = NextExchange => p[2] < n
    BY <2>1, <2>2, PlacesAre
  <2> QED BY <2>1, <2>3 DEF Passed
<1> QED BY <1>1, <1>2, <1>3

\* An exchange whose decode refuses is passed whole.
LEMMA PassesExchange ==
    ASSUME Decode, rec[NextExchange].decodes = "refusal"
    PROVE  \A p \in Places : Passed(p) => Passed(p)'
  BY DEF Decode, Passed, InExchange

\* The step to the next item passes this one.
LEMMA PassesItem ==
    ASSUME ProgressInv, UNCHANGED <<rec, done>>, InExchange, InExchange', n' = n + 1
    PROVE  \A p \in Places : Passed(p)' <=> Passed(p) \/ p = <<NextExchange, n>>
<1> SUFFICES ASSUME NEW p \in Places PROVE Passed(p)' <=> Passed(p) \/ p = <<NextExchange, n>>
  OBVIOUS
<1>1. p = <<p[1], p[2]>> /\ p[2] \in Nat /\ n \in Nat
  BY PlacesAre, CountsFromOne
<1>2. p[2] < n + 1 <=> p[2] < n \/ p[2] = n
  BY <1>1
<1> QED BY <1>1, <1>2, SameExchange DEF Passed

\* What is held stays as it was passed.
LEMMA HeldKept ==
    ASSUME HeldInv, UNCHANGED <<rec, held>>,
           Loading' => Loading /\ \A p \in Places : Passed(p) => Passed(p)'
    PROVE  HeldInv'
<1>1. Places' = Places /\ \A p : ItemAt(p)' = ItemAt(p)
  BY DEF Places, ItemAt, Good, Of
<1>2. Chain(rec)' = Chain(rec) /\ Good(rec)' = Good(rec)
  BY DEF Chain, Good, Of, Earlier, Continues, Read
<1> QED BY <1>1, <1>2 DEF HeldInv

\* Nothing held is of no place.
LEMMA NoneHeld == held' = {} => HeldInv'
  BY DEF HeldInv

\* A repeated item is held as it was, and seen in one chain more.
LEMMA HeldAfterRepeat ==
    ASSUME ProgressInv, HeldInv, RepeatItem
    PROVE  HeldInv' /\ HeldItems' = HeldItems
<1> DEFINE here == <<NextExchange, n>>
<1>1. step = "item" /\ step' = "item" /\ n' = n + 1 /\ UNCHANGED <<rec, done>> /\ n <= Len(rec[NextExchange].items)
  BY DEF RepeatItem, NextItem
<1>2. InExchange /\ InExchange' /\ Loading /\ Loading' /\ step # "idle"
  BY <1>1 DEF InExchange, Loading
<1>3. here \in Places /\ ItemAt(here) = Item
  BY <1>1, <1>2, ThisPlace
<1>4. \A p \in Places : Passed(p)' <=> Passed(p) \/ p = here
  BY <1>1, <1>2, PassesItem
<1>5. MyChain \in Good(rec)
  <2>1. NextExchange \in Good(rec) /\ Len(rec) \in Nat
    BY <1>2, LoadsRecordings DEF ProgressInv, IsRecording
  <2> QED BY <2>1, ChainWithinRead DEF MyChain, Read
<1>6. Places' = Places /\ (\A p : ItemAt(p)' = ItemAt(p)) /\ Chain(rec)' = Chain(rec) /\ Good(rec)' = Good(rec)
  BY <1>1 DEF Places, ItemAt, Good, Of, Chain, Earlier, Continues, Read
<1>7. PICK h \in Held(Item) : held' = (held \ {h}) \cup {[h EXCEPT !.seen = @ \cup {MyChain}]}
  BY DEF RepeatItem
<1> DEFINE g == [h EXCEPT !.seen = @ \cup {MyChain}]
<1>8. h \in held /\ Ref(h.item) = Ref(Item)
  BY <1>7 DEF Held
<1>9. g = [item |-> h.item, exchange |-> h.exchange, seen |-> h.seen \cup {MyChain}]
  BY <1>8 DEF HeldInv
<1>10. g.item = h.item /\ g.exchange = h.exchange /\ g.seen = h.seen \cup {MyChain}
  BY <1>9
<1>11. held' = (held \ {h}) \cup {g}
  BY <1>7
<1> HIDE DEF g
<1>12. \A k \in held' : k \in held \/ k = g
  BY <1>11
<1>13. \A k \in held' : /\ k = [item |-> k.item, exchange |-> k.exchange, seen |-> k.seen]
                        /\ k.exchange \in Good(rec) /\ k.seen \subseteq Good(rec)
  BY <1>5, <1>8, <1>9, <1>10, <1>12 DEF HeldInv
<1>14. \A j, k \in held' : Ref(j.item) = Ref(k.item) => j = k
  BY <1>8, <1>10, <1>11 DEF HeldInv
<1>15. \A k \in held' : \E p \in Places : Passed(p)' /\ ItemAt(p) = k.item
  BY <1>2, <1>4, <1>8, <1>10, <1>12 DEF HeldInv
<1>16. \A k \in held' : \A s \in k.seen :
          \E p \in Places : Passed(p)' /\ Ref(ItemAt(p)) = Ref(k.item) /\ s = Chain(rec)[p[1]]
  <2> SUFFICES ASSUME NEW k \in held', NEW s \in k.seen
               PROVE  \E p \in Places : Passed(p)' /\ Ref(ItemAt(p)) = Ref(k.item) /\ s = Chain(rec)[p[1]]
    OBVIOUS
  <2>1. CASE k \in held
    BY <1>2, <1>4, <2>1 DEF HeldInv
  <2>2. CASE k = g /\ s \in h.seen
    BY <1>2, <1>4, <1>8, <1>10, <2>2 DEF HeldInv
  <2>3. CASE k = g /\ s = MyChain
    <3> PICK p \in Places : p = here
      BY <1>3
    <3>1. Passed(p)' /\ ItemAt(p) = Item /\ p[1] = NextExchange
      BY <1>3, <1>4
    <3> QED BY <1>8, <1>10, <2>3, <3>1 DEF MyChain
  <2> QED BY <1>10, <1>12, <2>1, <2>2, <2>3
<1>17. HeldInv'
  BY <1>6, <1>13, <1>14, <1>15, <1>16 DEF HeldInv
<1>18. HeldItems' = HeldItems
  BY <1>8, <1>10, <1>11 DEF HeldItems
<1> QED BY <1>17, <1>18

\* An item its write let by is held, and is the only one of its row.
LEMMA HeldAfterGuard ==
    ASSUME ProgressInv, HeldInv, GuardItem, ~Stops, got # "refusal"
    PROVE  HeldInv' /\ HeldItems' = HeldItems \cup {Item}
<1> DEFINE here == <<NextExchange, n>>
           g == [item |-> Item, exchange |-> NextExchange, seen |-> {MyChain}]
<1>1. step = "guard" /\ step' = "item" /\ n' = n + 1 /\ UNCHANGED <<rec, done>> /\ n <= Len(rec[NextExchange].items)
  BY DEF GuardItem, NextItem, ProgressInv
<1>2. InExchange /\ InExchange' /\ Loading /\ Loading' /\ step # "idle"
  BY <1>1 DEF InExchange, Loading
<1>3. here \in Places /\ ItemAt(here) = Item
  BY <1>1, <1>2, ThisPlace
<1>4. \A p \in Places : Passed(p)' <=> Passed(p) \/ p = here
  BY <1>1, <1>2, PassesItem
<1>5. NextExchange \in Good(rec) /\ MyChain \in Good(rec)
  <2>1. NextExchange \in Good(rec) /\ Len(rec) \in Nat
    BY <1>2, LoadsRecordings DEF ProgressInv, IsRecording
  <2> QED BY <2>1, ChainWithinRead DEF MyChain, Read
<1>6. Places' = Places /\ (\A p : ItemAt(p)' = ItemAt(p)) /\ Chain(rec)' = Chain(rec) /\ Good(rec)' = Good(rec)
  BY <1>1 DEF Places, ItemAt, Good, Of, Chain, Earlier, Continues, Read
<1>7. held' = held \cup {g}
  BY DEF GuardItem
<1>8. g.item = Item /\ g.exchange = NextExchange /\ g.seen = {MyChain} /\
        g = [item |-> g.item, exchange |-> g.exchange, seen |-> g.seen]
  OBVIOUS
<1>9. \A h \in held : Ref(h.item) # Ref(Item)
  BY <1>1 DEF ProgressInv, Held
<1> HIDE DEF g
<1>10. \A k \in held' : /\ k = [item |-> k.item, exchange |-> k.exchange, seen |-> k.seen]
                        /\ k.exchange \in Good(rec) /\ k.seen \subseteq Good(rec)
  BY <1>5, <1>7, <1>8 DEF HeldInv
<1>11. \A j, k \in held' : Ref(j.item) = Ref(k.item) => j = k
  BY <1>7, <1>8, <1>9 DEF HeldInv
<1>12. \A k \in held' : \E p \in Places : Passed(p)' /\ ItemAt(p) = k.item
  BY <1>2, <1>3, <1>4, <1>7, <1>8 DEF HeldInv
<1>13. \A k \in held' : \A s \in k.seen :
          \E p \in Places : Passed(p)' /\ Ref(ItemAt(p)) = Ref(k.item) /\ s = Chain(rec)[p[1]]
  <2> SUFFICES ASSUME NEW k \in held', NEW s \in k.seen
               PROVE  \E p \in Places : Passed(p)' /\ Ref(ItemAt(p)) = Ref(k.item) /\ s = Chain(rec)[p[1]]
    OBVIOUS
  <2>1. CASE k \in held
    BY <1>2, <1>4, <2>1 DEF HeldInv
  <2>2. CASE k = g
    <3> PICK p \in Places : p = here
      BY <1>3
    <3>1. Passed(p)' /\ ItemAt(p) = Item /\ p[1] = NextExchange
      BY <1>3, <1>4
    <3> QED BY <1>8, <2>2, <3>1 DEF MyChain
  <2> QED BY <1>7, <2>1, <2>2
<1>14. HeldInv'
  BY <1>6, <1>10, <1>11, <1>12, <1>13 DEF HeldInv
<1>15. HeldItems' = HeldItems \cup {Item}
  BY <1>7, <1>8 DEF HeldItems
<1> QED BY <1>14, <1>15

\* What is held is all that was passed, as long as nothing more is.
LEMMA TakenKept ==
    ASSUME TakenInv, UNCHANGED <<rec, held>>,
           Loading' /\ ~refused' /\ ~failed' =>
              Loading /\ ~refused /\ ~failed /\ \A p \in Places : Passed(p)' => Passed(p)
    PROVE  TakenInv'
<1>1. Places' = Places /\ HeldItems' = HeldItems /\ \A p : ItemAt(p)' = ItemAt(p)
  BY DEF Places, ItemAt, Good, Of, HeldItems
<1> QED BY <1>1 DEF TakenInv

\* The steps that hold nothing more and pass nothing more.
LEMMA HeldAndTakenKept ==
    ASSUME HeldInv, TakenInv, UNCHANGED <<rec, held>>, Loading,
           ~refused' /\ ~failed' => ~refused /\ ~failed,
           \A p \in Places : Passed(p)' <=> Passed(p)
    PROVE  HeldInv' /\ TakenInv'
<1>1. \A p \in Places : Passed(p) => Passed(p)'
  OBVIOUS
<1>2. \A p \in Places : Passed(p)' => Passed(p)
  OBVIOUS
<1> QED BY <1>1, <1>2, HeldKept, TakenKept

\* A step of a load keeps what is held that of the places passed.
LEMMA HeldInvStep ==
    TxInv /\ ProgressInv /\ HeldInv /\ TakenInv /\ [LoadNext]_pipelineVars => HeldInv' /\ TakenInv'
<1> SUFFICES ASSUME TxInv, ProgressInv, HeldInv, TakenInv, [LoadNext]_pipelineVars
             PROVE  HeldInv' /\ TakenInv'
  OBVIOUS
<1>1. ASSUME held' = {}, Loading' => step' = "link", done' = {} PROVE HeldInv' /\ TakenInv'
  BY <1>1, NoneHeld DEF TakenInv, Passed, InExchange, Loading
<1>2. ASSUME NEW r \in Recordings[mix], BeginLoad(r) PROVE HeldInv' /\ TakenInv'
  BY <1>1, <1>2 DEF BeginLoad, ProgressInv
<1>3. CASE Link
  <2>1. UNCHANGED <<rec, held, done, n, failed>> /\ ~InExchange /\ ~InExchange' /\ Loading /\ ~refused
    BY <1>3 DEF Link, InExchange, Loading, ProgressInv
  <2>2. \A p \in Places : Passed(p)' <=> Passed(p)
    BY <2>1, PassesNone DEF InExchange
  <2> QED BY <2>1, <2>2, HeldAndTakenKept
<1>4. CASE Decode
  <2>1. UNCHANGED <<rec, held, failed>> /\ Loading
    BY <1>4 DEF Decode, Loading
  <2>2. CASE rec[NextExchange].decodes = "items"
    <3>1. \A p \in Places : Passed(p)' <=> Passed(p)
      BY <1>4, <2>1, <2>2, PassesNone
    <3>2. UNCHANGED refused
      BY <1>4, <2>2 DEF Decode
    <3> QED BY <2>1, <3>1, <3>2, HeldAndTakenKept
  <2>3. CASE rec[NextExchange].decodes = "refusal"
    <3>1. \A p \in Places : Passed(p) => Passed(p)'
      BY <1>4, <2>3, PassesExchange
    <3>2. refused' = TRUE
      BY <1>4, <2>3 DEF Decode
    <3> QED BY <2>1, <3>1, <3>2, HeldKept, TakenKept
  <2>4. CASE rec[NextExchange].decodes = "error"
    <3>1. ~Loading'
      BY <1>4, <2>4 DEF Decode, Loading
    <3> QED BY <2>1, <3>1, HeldKept, TakenKept
  <2> QED BY <1>4, <2>2, <2>3, <2>4 DEF Decode
<1>5. CASE EndExchange
  <2>1. UNCHANGED <<rec, held, failed, refused>> /\ Loading
    BY <1>5 DEF EndExchange, Loading
  <2>2. \A p \in Places : Passed(p)' <=> Passed(p)
    BY <1>5, <2>1, PassesNone
  <2> QED BY <2>1, <2>2, HeldAndTakenKept
<1>6. CASE RepeatItem
  <2>1. HeldInv' /\ HeldItems' = HeldItems
    BY <1>6, HeldAfterRepeat
  <2>2. /\ UNCHANGED <<rec, done, failed>> /\ n' = n + 1 /\ InExchange /\ InExchange'
        /\ n <= Len(rec[NextExchange].items) /\ Loading
    BY <1>6 DEF RepeatItem, NextItem, InExchange, Loading
  <2>3. PICK h \in Held(Item) : Repeat(h)
    BY <1>6 DEF RepeatItem
  <2>4. ~refused' => ~refused /\ Item = h.item
    BY <2>3 DEF Repeat
  <2>5. \A p \in Places : Passed(p)' <=> Passed(p) \/ p = <<NextExchange, n>>
    BY <2>2, PassesItem
  <2>6. ItemAt(<<NextExchange, n>>) = Item
    BY <2>2, ThisPlace
  <2>7. h.item \in HeldItems
    BY <2>3 DEF Held, HeldItems
  <2>8. Places' = Places /\ \A p : ItemAt(p)' = ItemAt(p)
    BY <2>2 DEF Places, ItemAt, Good, Of
  <2> QED BY <2>1, <2>2, <2>4, <2>5, <2>6, <2>7, <2>8 DEF TakenInv
<1>7. CASE WriteItem
  <2>1. UNCHANGED <<rec, held, done, n, refused>> /\ InExchange /\ InExchange' /\ Loading
    BY <1>7 DEF WriteItem, progress, InExchange, Loading
  <2>2. \A p \in Places : Passed(p)' <=> Passed(p)
    BY <2>1, PassesNone
  <2>3. failed' = TRUE \/ UNCHANGED failed
    BY <1>7 DEF WriteItem, Fails
  <2> QED BY <2>1, <2>2, <2>3, HeldAndTakenKept
<1>8. CASE GuardItem
  <2>1. CASE Stops
    <3>1. UNCHANGED <<rec, held>> /\ ~Loading'
      BY <1>8, <2>1 DEF GuardItem, Abort, progress, Loading
    <3> QED BY <3>1, HeldKept, TakenKept
  <2>2. CASE ~Stops
    <3>1. /\ UNCHANGED <<rec, done, failed>> /\ n' = n + 1 /\ InExchange /\ InExchange'
          /\ n <= Len(rec[NextExchange].items) /\ Loading
      BY <1>8, <2>2 DEF GuardItem, NextItem, InExchange, Loading, ProgressInv
    <3>2. \A p \in Places : Passed(p)' <=> Passed(p) \/ p = <<NextExchange, n>>
      BY <3>1, PassesItem
    <3>3. CASE got = "refusal"
      <4>1. UNCHANGED held /\ refused' = TRUE
        BY <1>8, <2>2, <3>3 DEF GuardItem
      <4>2. \A p \in Places : Passed(p) => Passed(p)'
        BY <3>2
      <4> QED BY <3>1, <4>1, <4>2, HeldKept, TakenKept
    <3>4. CASE got # "refusal"
      <4>1. HeldInv' /\ HeldItems' = HeldItems \cup {Item}
        BY <1>8, <2>2, <3>4, HeldAfterGuard
      <4>2. UNCHANGED refused
        BY <1>8, <2>2, <3>4 DEF GuardItem
      <4>3. ItemAt(<<NextExchange, n>>) = Item
        BY <3>1, ThisPlace
      <4>4. Places' = Places /\ \A p : ItemAt(p)' = ItemAt(p)
        BY <3>1 DEF Places, ItemAt, Good, Of
      <4> QED BY <3>1, <3>2, <4>1, <4>2, <4>3, <4>4 DEF TakenInv
    <3> QED BY <3>3, <3>4
  <2> QED BY <2>1, <2>2
<1>9. CASE Check
  <2>1. UNCHANGED <<rec, held, done, n>> /\ ~InExchange /\ ~InExchange' /\ Loading
    BY <1>9 DEF Check, InExchange, Loading
  <2>2. \A p \in Places : Passed(p)' <=> Passed(p)
    BY <2>1, PassesNone DEF InExchange
  <2>3. ~refused' => ~refused
    BY <1>9 DEF Check
  <2>4. ~failed' => ~failed
    BY <1>9 DEF Check, Fails
  <2> QED BY <2>1, <2>2, <2>3, <2>4, HeldAndTakenKept
<1>10. CASE GuardCheck
  <2>1. UNCHANGED <<rec, held>> /\ ~Loading'
    BY <1>10 DEF GuardCheck, Stops, Abort, progress, Loading, TxInv
  <2> QED BY <2>1, HeldKept, TakenKept
<1>11. CASE Rollback \/ Commit
  BY <1>1, <1>11 DEF Rollback, Commit, Forget, Loading
<1>12. CASE Reset
  BY <1>1, <1>12 DEF Reset, progress, Loading, ProgressInv
<1>13. ASSUME UNCHANGED loadVars PROVE HeldInv' /\ TakenInv'
  <2>1. UNCHANGED <<rec, held, done, n, refused, failed>> /\ Loading' = Loading /\ InExchange' = InExchange
    BY <1>13 DEF loadVars, Loading, InExchange
  <2>2. \A p \in Places : Passed(p)' <=> Passed(p)
    BY <2>1, PassesNone
  <2>3. \A p \in Places : Passed(p) => Passed(p)'
    BY <2>2
  <2> QED BY <2>1, <2>2, <2>3, HeldKept, TakenKept
<1> QED
  BY <1>2, <1>3, <1>4, <1>5, <1>6, <1>7, <1>8, <1>9, <1>10, <1>11, <1>12, <1>13
     DEF LoadNext, ClearRequests, Caller, pipelineVars

-----------------------------------------------------------------------------
\* The rows a load writes.

\* A write that is not refused leaves every row on the rows it was written on.
LEMMA WrittenGrows ==
    ASSUME NEW X, NEW x, Written(X), Writable(X, x)
    PROVE  Written(X \cup {x})
<1> DEFINE Y == X \cup {x}
<1>1. RefsOf(X) \subseteq RefsOf(Y)
  BY DEF RefsOf
<1>2. \A v : VolumeFits(X, v) => VolumeFits(Y, v)
  BY DEF VolumeFits, OfType
<1>3. x.type = "volume" => VolumeFits(X, x)
  BY DEF Writable, Fits
<1>4. x.type = "route-table" => RouteTableFits(X, x)
  BY DEF Writable, Fits
<1>5. \A y \in Y : Under(y) \subseteq RefsOf(Y) /\ (y.type = "volume" => VolumeFits(Y, y))
  BY <1>1, <1>2, <1>3 DEF Written, Writable
<1>6. ASSUME NEW t \in OfType(Y, "route-table"), NEW u \in OfType(Y, "route-table"),
             t.vpc = u.vpc, t.mains > 0, u.mains > 0
      PROVE  t = u /\ t.mains = 1
  <2>1. CASE t \in OfType(X, "route-table") /\ u \in OfType(X, "route-table")
    BY <1>6, <2>1 DEF Written
  <2>2. CASE t = x /\ u = x
    BY <1>4, <1>6, <2>2 DEF RouteTableFits, OfType
  <2>3. CASE t = x /\ u \in OfType(X, "route-table")
    BY <1>4, <1>6, <2>3 DEF RouteTableFits, OfType
  <2>4. CASE u = x /\ t \in OfType(X, "route-table")
    BY <1>4, <1>6, <2>4 DEF RouteTableFits, OfType
  <2> QED BY <2>1, <2>2, <2>3, <2>4 DEF OfType
<1> HIDE DEF Y
<1>7. Written(Y)
  BY <1>5, <1>6 DEF Written
<1> QED BY <1>7 DEF Y

\* Nothing written is on nothing.
LEMMA NothingWritten == Written({})
  BY DEF Written, OfType

\* A step that writes nothing keeps what is kept.
LEMMA RowsKept ==
    ASSUME RowsInv, UNCHANGED <<db, tx>>,
           Loading' /\ ~failed' => Loading /\ ~failed /\ Kept' = Kept
    PROVE  RowsInv'
  BY DEF RowsInv

\* A load that is not under way has nothing open.
LEMMA RowsIdle == tx' # "open" /\ ~Loading' => RowsInv'
  BY DEF RowsInv

\* What a write does to what is stored.
LEMMA OneRowMore ==
    ASSUME NEW d, NEW X, NEW l, NEW x, d = [rows |-> X, loaded |-> l]
    PROVE  [d EXCEPT !.rows = @ \cup {x}] = [rows |-> X \cup {x}, loaded |-> l]
  OBVIOUS

\* A step of a load keeps its rows those of what it holds.
LEMMA RowsInvStep ==
    TxInv /\ ProgressInv /\ HeldInv /\ RowsInv /\ [LoadNext]_pipelineVars => RowsInv'
<1> SUFFICES ASSUME TxInv, ProgressInv, HeldInv, RowsInv, [LoadNext]_pipelineVars
             PROVE  RowsInv'
  OBVIOUS
<1>1. ASSUME NEW r \in Recordings[mix], BeginLoad(r) PROVE RowsInv'
  <2>1. db' = [rows |-> {}, loaded |-> TRUE] /\ step' = "link" /\ held' = {}
    BY <1>1 DEF BeginLoad, ProgressInv
  <2>2. Kept' = {}
    BY <2>1 DEF Kept, HeldItems
  <2> QED BY <2>1, <2>2, NothingWritten DEF RowsInv
<1>2. ASSUME UNCHANGED <<db, tx, held, failed>>, Loading, step # "guard", step' # "guard"
      PROVE  RowsInv'
  <2>1. Kept' = Kept
    BY <1>2 DEF Kept, HeldItems
  <2> QED BY <1>2, <2>1, RowsKept
<1>3. CASE Link \/ Decode \/ EndExchange
  BY <1>2, <1>3 DEF Link, Decode, EndExchange, Loading
<1>4. CASE RepeatItem
  <2>1. HeldItems' = HeldItems
    BY <1>4, HeldAfterRepeat
  <2>2. UNCHANGED <<db, tx, failed>> /\ Loading /\ step # "guard" /\ step' # "guard"
    BY <1>4 DEF RepeatItem, Loading
  <2>3. Kept' = Kept
    BY <2>1, <2>2 DEF Kept
  <2> QED BY <2>2, <2>3, RowsKept
<1>5. CASE WriteItem
  <2>1. /\ UNCHANGED <<rec, done, n, held>> /\ step = "item" /\ step' = "guard" /\ ~failed
    BY <1>5 DEF WriteItem, progress, TxInv
  <2>2. HeldItems' = HeldItems /\ Item' = Item /\ Kept = HeldItems
    BY <2>1, SameExchange DEF HeldItems, Item, Kept
  <2>3. CASE Fails
    BY <1>5, <2>1, <2>3 DEF Fails, RowsInv
  <2>4. tx # "none"
    BY <2>1 DEF TxInv
  <2>5. tx = "open" /\ db = [rows |-> db.rows, loaded |-> TRUE] /\ db.rows = {x \in HeldItems : Writes(x)} /\ Written(db.rows)
    BY <2>1, <2>2, <2>4 DEF RowsInv, TxInv, Loading
  <2>6. CASE ~Writes(Item) /\ got' = "nil" /\ UNCHANGED <<db, tx, failed>>
    <3>1. Kept' = HeldItems \cup {Item}
      BY <2>1, <2>2, <2>6 DEF Kept
    <3> QED BY <2>5, <2>6, <3>1 DEF RowsInv
  <2>7. CASE got' = "refusal" /\ UNCHANGED <<db, tx, failed>>
    <3>1. Kept' = HeldItems
      BY <2>1, <2>2, <2>7 DEF Kept
    <3> QED BY <2>5, <2>7, <3>1 DEF RowsInv
  <2>8. CASE /\ Writes(Item) /\ Writable(db.rows, Item) /\ got' = "nil"
             /\ db' = [db EXCEPT !.rows = @ \cup {Item}] /\ UNCHANGED <<tx, failed>>
    <3>1. Kept' = HeldItems \cup {Item}
      BY <2>1, <2>2, <2>8 DEF Kept
    <3>2. db' = [rows |-> db.rows \cup {Item}, loaded |-> TRUE]
      <4> DEFINE l == TRUE
                 X == db.rows
      <4>1. db = [rows |-> X, loaded |-> l]
        BY <2>5
      <4> HIDE DEF l, X
      <4>2. [db EXCEPT !.rows = @ \cup {Item}] = [rows |-> X \cup {Item}, loaded |-> l]
        BY <4>1, OneRowMore
      <4> QED BY <2>8, <4>2 DEF l, X
    <3>3. Written(db.rows \cup {Item})
      BY <2>5, <2>8, WrittenGrows
    <3>4. db'.rows = {x \in Kept' : Writes(x)}
      BY <2>5, <2>8, <3>1, <3>2
    <3> QED BY <3>2, <3>3, <3>4 DEF RowsInv
  <2> QED BY <1>5, <2>3, <2>6, <2>7, <2>8 DEF WriteItem
<1>6. CASE GuardItem
  <2>1. CASE Stops
    <3>1. UNCHANGED <<db, tx>> /\ ~Loading'
      BY <1>6, <2>1 DEF GuardItem, Abort, Loading
    <3> QED BY <3>1, RowsKept
  <2>2. CASE ~Stops
    <3>1. UNCHANGED <<db, tx, failed>> /\ step = "guard" /\ step' = "item" /\ Loading /\ ~failed /\ got \in {"nil", "refusal"}
      BY <1>6, <2>2 DEF GuardItem, Stops, Loading, ProgressInv
    <3>2. CASE got = "refusal"
      <4>1. UNCHANGED held
        BY <1>6, <2>2, <3>2 DEF GuardItem
      <4>2. Kept' = Kept
        BY <3>1, <3>2, <4>1 DEF Kept, HeldItems
      <4> QED BY <3>1, <4>2, RowsKept
    <3>3. CASE got = "nil"
      <4>1. HeldItems' = HeldItems \cup {Item}
        BY <1>6, <2>2, <3>3, HeldAfterGuard
      <4>2. Kept' = Kept
        BY <3>1, <3>3, <4>1 DEF Kept
      <4> QED BY <3>1, <4>2, RowsKept
    <3> QED BY <3>1, <3>2, <3>3
  <2> QED BY <2>1, <2>2
<1>7. CASE Check
  <2>1. CASE Fails
    BY <1>7, <2>1 DEF Check, Fails, RowsInv
  <2>2. CASE UNCHANGED <<db, tx, failed>>
    BY <1>2, <1>7, <2>2 DEF Check, Loading
  <2> QED BY <1>7, <2>1, <2>2 DEF Check
<1>8. CASE GuardCheck
  <2>1. UNCHANGED <<db, tx>> /\ ~Loading'
    BY <1>8 DEF GuardCheck, Stops, Abort, Loading, TxInv
  <2> QED BY <2>1, RowsKept
<1>9. CASE Rollback \/ Commit
  BY <1>9, RowsIdle DEF Rollback, Commit, Forget, Loading
<1>10. CASE Reset
  BY <1>10, RowsIdle DEF Reset, Loading, TxInv
<1>11. ASSUME UNCHANGED loadVars PROVE RowsInv'
  <2>1. UNCHANGED <<db, tx, failed>> /\ Loading' = Loading
    BY <1>11 DEF loadVars, Loading
  <2>2. Kept' = Kept
    BY <1>11, SameExchange DEF loadVars, Kept, HeldItems, Item
  <2> QED BY <2>1, <2>2, RowsKept
<1> QED
  BY <1>1, <1>3, <1>4, <1>5, <1>6, <1>7, <1>8, <1>9, <1>10, <1>11
     DEF LoadNext, ClearRequests, Caller, pipelineVars

-----------------------------------------------------------------------------
\* What resolve and diff accept.

\* No item references one that writes no row.
LEMMA ReferencesAreRows ==
    ASSUME NEW x, NEW ref \in References(x)
    PROVE  ref[1] # "role-policy-name"
<1>1. \A t, id : \A q \in The(t, id) : q[1] = t
  BY DEF The
<1>2. CASE x.type = "vpc"
  BY <1>2 DEF References
<1>3. CASE x.type = "internet-gateway"
  BY <1>1, <1>3 DEF References
<1>4. CASE x.type = "route-table"
  BY <1>4 DEF References, RouteReferences, OfInternetGateway, EdgeGateways
<1>5. CASE x.type = "security-group-rule"
  BY <1>5 DEF References, RuleReferences
<1>6. CASE x.type = "instance"
  <2>1. ref \in InstanceReferences(x)
    BY <1>6 DEF References
  <2> QED BY <1>1, <2>1 DEF InstanceReferences
<1>7. CASE x.type = "network-interface"
  <2>1. ref \in InterfaceReferences(x)
    BY <1>7 DEF References
  <2> QED BY <1>1, <2>1 DEF InterfaceReferences
<1>8. CASE x.type = "elastic-ip"
  <2>1. ref \in AddressReferences(x)
    BY <1>8 DEF References
  <2> QED BY <1>1, <2>1 DEF AddressReferences
<1>9. CASE x.type = "role-policy-name"
  BY <1>9 DEF References
<1>10. CASE x.type \notin {"vpc", "internet-gateway", "route-table", "security-group-rule", "instance",
                           "network-interface", "elastic-ip", "role-policy-name"}
  BY <1>10 DEF References
<1> QED BY <1>2, <1>3, <1>4, <1>5, <1>6, <1>7, <1>8, <1>9, <1>10

\* The items that write no row take no part in what the others answer.
LEMMA RowsOfItems ==
    ASSUME NEW H, NEW X, X = {x \in H : Writes(x)}
    PROVE  /\ \A t : t # "role-policy-name" => OfType(H, t) = OfType(X, t)
           /\ \A x : Shown(H, x) = Shown(X, x)
           /\ \A ref \in RefsOf(H) : ref[1] # "role-policy-name" => ref \in RefsOf(X)
           /\ \A x \in H : References(x) \subseteq RefsOf(H) => References(x) \subseteq RefsOf(X)
<1>1. \A t : t # "role-policy-name" => OfType(H, t) = OfType(X, t)
  BY DEF OfType, Writes
<1>2. \A x : Shown(H, x) = Shown(X, x)
  <2>1. /\ OfType(H, "availability-zone") = OfType(X, "availability-zone")
        /\ OfType(H, "elastic-ip") = OfType(X, "elastic-ip")
        /\ OfType(H, "network-interface") = OfType(X, "network-interface")
        /\ OfType(H, "security-group-rule") = OfType(X, "security-group-rule")
    BY <1>1
  <2>2. \A x : ShownZone(H, x) = ShownZone(X, x)
    <3> SUFFICES ASSUME NEW x PROVE ShownZone(H, x) = ShownZone(X, x)
      OBVIOUS
    <3> DEFINE zones(Y) == {z \in OfType(Y, "availability-zone") : z.id = x.zone}
               one(S)   == CHOOSE z \in S : TRUE
    <3>1. \A Y : ShownZone(Y, x) = IF zones(Y) = {} THEN NoId ELSE one(zones(Y)).zoneId
      BY DEF ShownZone
    <3>2. zones(H) = zones(X)
      BY <2>1
    <3> HIDE DEF zones, one
    <3> QED BY <3>1, <3>2
  <2>3. \A e : ShownAddress(H, e) = ShownAddress(X, e)
    <3> SUFFICES ASSUME NEW e PROVE ShownAddress(H, e) = ShownAddress(X, e)
      OBVIOUS
    <3> DEFINE on(Y)  == {a \in OfType(Y, "elastic-ip") : a.eni = e}
               one(S) == CHOOSE a \in S : TRUE
    <3>1. \A Y : ShownAddress(Y, e) = IF on(Y) = {} THEN NoId ELSE one(on(Y)).id
      BY DEF ShownAddress
    <3>2. on(H) = on(X)
      BY <2>1
    <3> HIDE DEF on, one
    <3> QED BY <3>1, <3>2
  <2>4. \A x : ShownNic(H, x) = ShownNic(X, x)
    BY <2>1, <2>3 DEF ShownNic
  <2>5. \A x : ShownPermissions(H, x) = ShownPermissions(X, x)
    BY <2>1 DEF ShownPermissions
  <2> QED BY <2>2, <2>3, <2>4, <2>5 DEF Shown, ShownSubnet, ShownGroup, ShownInterface, ShownInstance
<1>3. \A ref \in RefsOf(H) : ref[1] # "role-policy-name" => ref \in RefsOf(X)
  BY DEF RefsOf, Ref, Writes
<1>4. \A x \in H : References(x) \subseteq RefsOf(H) => References(x) \subseteq RefsOf(X)
  BY <1>3, ReferencesAreRows
<1> QED BY <1>1, <1>2, <1>3, <1>4

\* What an accepted row holds of others is what they show.
LEMMA AcceptedShows ==
    ASSUME NEW X, NEW x, IsItem(x), Shown(X, x) = x
    PROVE  /\ x.type = "subnet" => x.zoneId = ShownZone(X, x)
           /\ x.type = "security-group" => x.permissions = ShownPermissions(X, x)
           /\ x.type = "network-interface" => x.address = ShownAddress(X, x.id)
           /\ x.type = "instance" => x.nic = ShownNic(X, x)
<1>1. ASSUME x.type = "subnet" PROVE x.zoneId = ShownZone(X, x)
  <2>1. [x EXCEPT !.zoneId = ShownZone(X, x)] = x /\ x = SubnetItem(x.id, x.vpc, x.zone, x.zoneId)
    BY <1>1 DEF Shown, ShownSubnet, IsItem
  <2> QED BY <2>1 DEF SubnetItem
<1>2. ASSUME x.type = "security-group" PROVE x.permissions = ShownPermissions(X, x)
  <2>1. [x EXCEPT !.permissions = ShownPermissions(X, x)] = x /\ x = GroupItem(x.id, x.vpc, x.permissions)
    BY <1>2 DEF Shown, ShownGroup, IsItem
  <2> QED BY <2>1 DEF GroupItem
<1>3. ASSUME x.type = "network-interface" PROVE x.address = ShownAddress(X, x.id)
  <2>1. /\ [x EXCEPT !.address = ShownAddress(X, x.id)] = x
        /\ x = InterfaceItem(x.id, x.subnet, x.vpc, x.instance, x.index, x.groups, x.address, x.ip)
    BY <1>3 DEF Shown, ShownInterface, IsItem
  <2> QED BY <2>1 DEF InterfaceItem
<1>4. ASSUME x.type = "instance" PROVE x.nic = ShownNic(X, x)
  <2>1. /\ [x EXCEPT !.nic = ShownNic(X, x)] = x
        /\ x = InstanceItem(x.id, x.subnet, x.nic, x.key, x.volumes, x.profile)
    BY <1>4 DEF Shown, ShownInstance, IsItem
  <2> QED BY <2>1 DEF InstanceItem
<1> QED BY <1>1, <1>2, <1>3, <1>4

\* A row's own reference is to a row of that type and id.
LEMMA TheRow ==
    ASSUME NEW X, NEW t, NEW id, <<t, id>> \in RefsOf(X)
    PROVE  \E x \in OfType(X, t) : x.id = id
  BY DEF RefsOf, Ref, OfType

\* An interface's Elastic IP, as it is shown, is one that is on it.
LEMMA ShownAddressIs ==
    ASSUME NEW X, NEW eni, \A x \in X : IsItem(x)
    PROVE  /\ ShownAddress(X, eni) # NoId => \E e \in OfType(X, "elastic-ip") : e.eni = eni /\ e.id = ShownAddress(X, eni)
           /\ (\E e \in OfType(X, "elastic-ip") : e.eni = eni) => ShownAddress(X, eni) # NoId
<1> DEFINE on == {e \in OfType(X, "elastic-ip") : e.eni = eni}
           e  == CHOOSE e \in on : TRUE
<1>1. ShownAddress(X, eni) = IF on = {} THEN NoId ELSE e.id
  BY DEF ShownAddress
<1>2. on # {} => e \in on
  OBVIOUS
<1> HIDE DEF e
<1>3. on # {} => e \in OfType(X, "elastic-ip") /\ e.eni = eni /\ e.id # NoId
  BY <1>2 DEF OfType, IsItem
<1> QED BY <1>1, <1>3

\* An instance's interface, as it is shown, is one that is on it.
LEMMA ShownNicIs ==
    ASSUME NEW X, NEW x, {a \in OfType(X, "network-interface") : a.instance = x.id} # {}
    PROVE  \E a \in OfType(X, "network-interface") :
              /\ a.instance = x.id
              /\ ShownNic(X, x) = [eni |-> a.id, ip |-> a.ip, address |-> ShownAddress(X, a.id)]
<1> DEFINE on == {a \in OfType(X, "network-interface") : a.instance = x.id}
           a  == CHOOSE b \in on : TRUE
<1>1. ShownNic(X, x) = [eni |-> a.id, ip |-> a.ip, address |-> ShownAddress(X, a.id)]
  BY DEF ShownNic
<1>2. a \in on
  OBVIOUS
<1> HIDE DEF a
<1> QED BY <1>1, <1>2

\* Rows accepted one by one, each on the rows it was written on, agree.
LEMMA AcceptedRowsAreSound ==
    ASSUME NEW r, NoId \notin Nics(r), NEW X, X \subseteq Items(r), Written(X),
           \A x \in X : IsItem(x) /\ Shown(X, x) = x /\ Attached(X, x) /\ References(x) \subseteq RefsOf(X),
           \A x, y \in X : Ref(x) = Ref(y) => x = y
    PROVE  SoundRows(X)
<1>1. \A x \in X : Under(x) \cup References(x) \subseteq RefsOf(X)
  BY DEF Written
<1>2. \A t : \A x \in OfType(X, t) : x \in X /\ x.type = t
  BY DEF OfType
<1>3. \A t, id : \A x, y \in OfType(X, t) : x.id = id /\ y.id = id => x = y
  BY <1>2 DEF Ref
<1>4. ASSUME NEW a \in OfType(X, "network-interface")
      PROVE  a.address = ShownAddress(X, a.id)
  BY <1>2, AcceptedShows
<1>5. ASSUME NEW i \in OfType(X, "instance")
      PROVE  i.nic = ShownNic(X, i)
  BY <1>2, AcceptedShows
<1>6. ASSUME NEW a \in OfType(X, "network-interface")
      PROVE  a.address # NoId <=> \E e \in OfType(X, "elastic-ip") : e.eni = a.id
  BY <1>4, ShownAddressIs
<1>7. ASSUME NEW a \in OfType(X, "network-interface"), NEW i \in OfType(X, "instance"), a.instance = i.id
      PROVE  i.nic # NoId
  <2>1. PICK b \in OfType(X, "network-interface") :
          ShownNic(X, i) = [eni |-> b.id, ip |-> b.ip, address |-> ShownAddress(X, b.id)]
    BY <1>7, ShownNicIs
  <2> DEFINE ids == {x.id : x \in Items(r)}
             e   == ShownAddress(X, b.id)
  <2>2. b.id \in ids /\ b.ip \in {x.ip : x \in OfType(Items(r), "network-interface")}
    BY <1>2 DEF OfType
  <2>3. e \in ids \cup {NoId}
    BY <1>2, ShownAddressIs
  <2> HIDE DEF e
  <2>4. [eni |-> b.id, ip |-> b.ip, address |-> e] \in Nics(r)
    BY <2>2, <2>3 DEF Nics
  <2> QED BY <1>5, <2>1, <2>4 DEF e
<1>8. ASSUME NEW a \in OfType(X, "network-interface"), a.instance # NoId
      PROVE  \E i \in OfType(X, "instance") : i.id = a.instance /\ i.nic # NoId
  <2>1. <<"instance", a.instance>> \in Under(a)
    BY <1>2, <1>8 DEF Under, InterfaceNeeds, The
  <2>2. PICK i \in OfType(X, "instance") : i.id = a.instance
    BY <1>1, <1>2, <2>1, TheRow
  <2> QED BY <1>7, <2>2
<1>9. ASSUME NEW i \in OfType(X, "instance"), i.nic # NoId
      PROVE  \E a \in OfType(X, "network-interface") :
                a.id = i.nic.eni /\ a.instance = i.id /\ a.ip = i.nic.ip /\ a.address = i.nic.address
  <2>1. {a \in OfType(X, "network-interface") : a.instance = i.id} # {}
    BY <1>5, <1>9 DEF ShownNic
  <2>2. PICK a \in OfType(X, "network-interface") :
          /\ a.instance = i.id
          /\ ShownNic(X, i) = [eni |-> a.id, ip |-> a.ip, address |-> ShownAddress(X, a.id)]
    BY <2>1, ShownNicIs
  <2> QED BY <1>4, <1>5, <2>2
<1>10. ASSUME NEW v \in OfType(X, "volume"), NEW a \in v.attachments
       PROVE  \E i \in OfType(X, "instance") : i.id = a.instance /\ [volume |-> v.id, how |-> a.how] \in i.volumes
  BY <1>2 DEF Written, VolumeFits
<1>11. ASSUME NEW i \in OfType(X, "instance"), NEW m \in i.volumes
       PROVE  \E v \in OfType(X, "volume") : v.id = m.volume /\ [instance |-> i.id, how |-> m.how] \in v.attachments
  <2>1. <<"volume", m.volume>> \in References(i)
    BY <1>2 DEF References, InstanceReferences
  <2>2. PICK v \in OfType(X, "volume") : v.id = m.volume
    BY <1>1, <1>2, <2>1, TheRow
  <2>3. PICK a \in v.attachments : a.instance = i.id
    BY <1>2, <2>2 DEF Attached
  <2>4. PICK j \in OfType(X, "instance") : j.id = a.instance /\ [volume |-> v.id, how |-> a.how] \in j.volumes
    BY <1>10
  <2>5. j = i
    BY <1>3, <2>3, <2>4
  <2> DEFINE o == [volume |-> v.id, how |-> a.how]
  <2>6. o \in i.volumes /\ o.volume = m.volume /\ o.how = a.how
    BY <2>2, <2>4, <2>5
  <2> HIDE DEF o
  <2>7. o = m
    BY <1>2, <2>6 DEF IsItem
  <2>8. a = [instance |-> i.id, how |-> m.how]
    BY <1>2, <2>3, <2>6, <2>7 DEF IsItem
  <2> QED BY <2>2, <2>8
<1>12. \A g \in OfType(X, "security-group") : g.permissions = ShownPermissions(X, g)
  BY <1>2, AcceptedShows
<1>13. \A s \in OfType(X, "subnet") : s.zoneId = ShownZone(X, s)
  BY <1>2, AcceptedShows
<1>14. Mutual(X)
  BY <1>6, <1>8, <1>9, <1>10, <1>11, <1>12, <1>13 DEF Mutual, Written
<1> QED BY <1>1, <1>14 DEF SoundRows

-----------------------------------------------------------------------------
\* What a load that ends well leaves.

\* Every item of the recording is at a place, and nothing else is.
LEMMA ItemsAreAtPlaces ==
    ASSUME NEW x
    PROVE  x \in Items(rec) <=> \E p \in Places : ItemAt(p) = x
<1>1. ASSUME x \in Items(rec) PROVE \E p \in Places : ItemAt(p) = x
  <2>1. PICK k \in Good(rec) : \E m \in 1..Len(rec[k].items) : x = rec[k].items[m]
    BY <1>1 DEF Items
  <2>2. PICK m \in 1..Len(rec[k].items) : x = rec[k].items[m]
    BY <2>1
  <2>3. <<k, m>> \in Places /\ ItemAt(<<k, m>>) = x
    BY <2>2, PlacesAre DEF ItemAt
  <2> QED BY <2>3
<1>2. ASSUME NEW p \in Places, ItemAt(p) = x PROVE x \in Items(rec)
  BY <1>2, PlacesAre DEF Items, ItemAt
<1> QED BY <1>1, <1>2

\* Whatever is held was recorded.
LEMMA HeldWereRecorded ==
    ASSUME ProgressInv, HeldInv, Loading
    PROVE  /\ HeldItems \subseteq Items(rec)
           /\ \A x \in HeldItems : IsItem(x)
           /\ \A x, y \in HeldItems : Ref(x) = Ref(y) => x = y
<1>1. IsRecording(rec)
  BY LoadsRecordings DEF Loading
<1>2. \A x \in HeldItems : \E p \in Places : ItemAt(p) = x
  BY DEF HeldInv, HeldItems
<1>3. \A x \in HeldItems : IsItem(x)
  BY <1>1, <1>2, ItemsAtPlaces
<1>4. \A x, y \in HeldItems : Ref(x) = Ref(y) => x = y
  BY DEF HeldInv, HeldItems
<1> QED BY <1>2, <1>3, <1>4, ItemsAreAtPlaces

\* A load that refused nothing to its end leaves rows that are sound.
LEMMA LoadedRowsAreSound ==
    ASSUME TxInv, LoadInv, step = "end", ~refused
    PROVE  SoundRows(db.rows)
<1> USE DEF LoadInv
<1> DEFINE X == db.rows
<1>1. Loading /\ ~failed /\ Kept = HeldItems
  BY DEF Loading, TxInv, Kept
<1>2. X = {x \in HeldItems : Writes(x)} /\ Written(X)
  BY <1>1 DEF RowsInv
<1>3. \A x \in HeldItems : Accepted(HeldItems, x)
  BY DEF FoundInv
<1>4. NoId \notin Nics(rec)
  BY LoadsRecordings DEF IsRecording
<1>5. X \subseteq Items(rec) /\ (\A x \in X : IsItem(x)) /\ \A x, y \in X : Ref(x) = Ref(y) => x = y
  BY <1>1, <1>2, HeldWereRecorded
<1> HIDE DEF X
<1>6. \A x \in X : References(x) \subseteq RefsOf(X) /\ Shown(X, x) = x
  BY <1>2, <1>3, RowsOfItems DEF Accepted
<1>7. \A x \in X : Attached(X, x)
  <2>1. OfType(HeldItems, "volume") = OfType(X, "volume")
    BY <1>2, RowsOfItems
  <2> QED BY <1>2, <1>3, <2>1 DEF Accepted, Attached
<1>8. SoundRows(X)
  BY <1>2, <1>4, <1>5, <1>6, <1>7, AcceptedRowsAreSound
<1> QED BY <1>8 DEF X

\* What link finds in a recording it refuses nothing of: every page of every read.
LEMMA LinkedIsComplete ==
    ASSUME Len(rec) \in Nat, ~LinkRefuses(rec)
    PROVE  Complete(rec)
<1> SUFFICES ASSUME NEW p \in Good(rec)
             PROVE  /\ rec[p].next # NoId => \E k \in Read(rec, p) : p < k /\ rec[k].carried = rec[p].next
                    /\ rec[p].carried # NoId => \E k \in Read(rec, p) : k < p /\ rec[k].next = rec[p].carried
  BY DEF Complete
<1>1. ~Orphan(rec, p) /\ ~Cut(rec, p)
  BY DEF LinkRefuses
<1>2. Good(rec) \subseteq Nat
  BY DEF Good, Of
<1>3. ASSUME rec[p].next # NoId
      PROVE  \E k \in Read(rec, p) : p < k /\ rec[k].carried = rec[p].next
  <2>1. PICK k \in Read(rec, p) : Earlier(rec, k) # {} /\ Continues(rec, k) = p
    BY <1>1, <1>3 DEF Cut
  <2>2. p \in Earlier(rec, k)
    BY <1>2, <2>1, ContinuesEarlier DEF Read
  <2> QED BY <2>1, <2>2 DEF Earlier
<1>4. ASSUME rec[p].carried # NoId
      PROVE  \E k \in Read(rec, p) : k < p /\ rec[k].next = rec[p].carried
  <2>1. Earlier(rec, p) # {}
    BY <1>1, <1>4 DEF Orphan
  <2> QED BY <2>1 DEF Earlier
<1> QED BY <1>3, <1>4

\* Every exchange loaded and nothing refused, all of the recording is held.
LEMMA AllIsHeld ==
    ASSUME LoadInv, Loading, ~failed, ~refused, Good(rec) \ done = {}
    PROVE  HeldItems = Items(rec)
<1> USE DEF LoadInv
<1>1. \A p \in Places : Passed(p)
  BY PlacesAre DEF ProgressInv, Passed
<1>2. Items(rec) \subseteq HeldItems
  BY <1>1, ItemsAreAtPlaces DEF TakenInv
<1> QED BY <1>2, HeldWereRecorded

\* A load that ends well takes every item it was recorded.
LEMMA EndHoldsAll ==
    ASSUME TxInv, LoadInv, step = "end", ~refused
    PROVE  /\ HeldItems = Items(rec)
           /\ db.rows = {x \in Items(rec) : Writes(x)}
           /\ \A x, y \in Items(rec) : Ref(x) = Ref(y) => x = y
           /\ Complete(rec)
<1> USE DEF LoadInv
<1>1. Loading /\ ~failed /\ Kept = HeldItems
  BY DEF Loading, TxInv, Kept
<1>2. HeldItems = Items(rec)
  BY <1>1, AllIsHeld DEF ProgressInv
<1>3. \A x, y \in HeldItems : Ref(x) = Ref(y) => x = y
  BY <1>1, HeldWereRecorded
<1>4. db.rows = {x \in HeldItems : Writes(x)}
  BY <1>1 DEF RowsInv
<1>5. Complete(rec)
  BY LinkedIsComplete, LoadsRecordings DEF FoundInv, IsRecording
<1> QED BY <1>2, <1>3, <1>4, <1>5

\* What was found of a recording stays found.
LEMMA FoundKept ==
    ASSUME FoundInv, UNCHANGED rec, step' \notin {"idle", "link"} /\ ~refused' => step \notin {"idle", "link"} /\ ~refused,
           step' = "end" => step = "end" /\ UNCHANGED held
    PROVE  FoundInv'
<1>1. LinkRefuses(rec)' = LinkRefuses(rec)
  BY DEF LinkRefuses, Of, Good, Orphan, Cut, Read, Earlier, Continues
<1>2. step' = "end" => HeldItems' = HeldItems
  BY DEF HeldItems
<1> QED BY <1>1, <1>2 DEF FoundInv

\* A step of a load keeps what link and the checks at the end found.
LEMMA FoundInvStep == TxInv /\ ProgressInv /\ FoundInv /\ [LoadNext]_pipelineVars => FoundInv'
<1> SUFFICES ASSUME TxInv, ProgressInv, FoundInv, [LoadNext]_pipelineVars PROVE FoundInv'
  OBVIOUS
<1>1. ASSUME step' \in {"idle", "link"} PROVE FoundInv'
  BY <1>1 DEF FoundInv
<1>2. ASSUME NEW r \in Recordings[mix], BeginLoad(r) PROVE FoundInv'
  BY <1>1, <1>2 DEF BeginLoad
<1>3. CASE Link
  <2>1. refused' = LinkRefuses(rec) /\ UNCHANGED rec /\ step' = "exchange"
    BY <1>3 DEF Link
  <2>2. LinkRefuses(rec)' = LinkRefuses(rec)
    BY <2>1 DEF LinkRefuses, Of, Good, Orphan, Cut, Read, Earlier, Continues
  <2> QED BY <2>1, <2>2 DEF FoundInv
<1>4. CASE Decode \/ EndExchange \/ WriteItem
  BY <1>4, FoundKept DEF Decode, EndExchange, WriteItem, progress
<1>5. CASE RepeatItem
  BY <1>5, FoundKept DEF RepeatItem, Repeat
<1>6. CASE GuardItem
  <2>1. UNCHANGED rec /\ step = "guard" /\ step' \in {"item", "abort"} /\ (~refused' => ~refused)
    BY <1>6 DEF GuardItem, Abort, progress
  <2> QED BY <2>1, FoundKept
<1>7. CASE Check
  <2>1. CASE step' = "check guard"
    <3>1. UNCHANGED <<rec, refused>> /\ step = "exchange"
      BY <1>7, <2>1 DEF Check
    <3>2. ~refused' => ~refused
      BY <3>1
    <3> QED BY <2>1, <3>1, <3>2, FoundKept
  <2>2. CASE step' = "end"
    <3>1. /\ UNCHANGED <<rec, held>> /\ step = "exchange"
          /\ refused' = (refused \/ \E x \in HeldItems : ~Accepted(HeldItems, x))
      BY <1>7, <2>2 DEF Check
    <3>2. LinkRefuses(rec)' = LinkRefuses(rec) /\ HeldItems' = HeldItems
      BY <3>1 DEF LinkRefuses, Of, Good, Orphan, Cut, Read, Earlier, Continues, HeldItems
    <3>3. ~refused' => ~refused /\ \A x \in HeldItems : Accepted(HeldItems, x)
      BY <3>1
    <3> QED BY <3>1, <3>2, <3>3 DEF FoundInv
  <2> QED BY <1>7, <2>1, <2>2 DEF Check
<1>8. CASE GuardCheck
  <2>1. failed
    BY <1>8 DEF GuardCheck, TxInv
  <2>2. Abort /\ step = "check guard"
    BY <1>8, <2>1 DEF GuardCheck, Stops
  <2>3. UNCHANGED <<rec, refused>> /\ step' = "abort"
    BY <2>2 DEF Abort, progress
  <2> QED BY <2>2, <2>3, FoundKept
<1>9. CASE Rollback \/ Commit
  BY <1>1, <1>9 DEF Rollback, Commit, Forget
<1>10. CASE Reset
  BY <1>1, <1>10 DEF Reset
<1>11. ASSUME UNCHANGED loadVars PROVE FoundInv'
  BY <1>11, FoundKept DEF loadVars
<1> QED
  BY <1>2, <1>3, <1>4, <1>5, <1>6, <1>7, <1>8, <1>9, <1>10, <1>11
     DEF LoadNext, ClearRequests, Caller, pipelineVars

\* What a load finds is what the load before it left.
LEMMA UndoInvStep == TxInv /\ LoadInv /\ [LoadNext]_pipelineVars => UndoInv'
<1> SUFFICES ASSUME TxInv, LoadInv, [LoadNext]_pipelineVars PROVE UndoInv'
  OBVIOUS
<1>1. ASSUME UNCHANGED undo PROVE UndoInv'
  BY <1>1 DEF LoadInv, UndoInv
<1>2. ASSUME NEW r \in Recordings[mix], BeginLoad(r) PROVE UndoInv'
  <2>1. undo' = undo
    BY <1>2 DEF BeginLoad, TxInv
  <2> QED BY <1>1, <2>1
<1>3. CASE Link \/ Decode \/ EndExchange \/ RepeatItem \/ WriteItem
  BY <1>1, <1>3 DEF Link, Decode, EndExchange, RepeatItem, WriteItem
<1>4. CASE GuardItem \/ Check \/ GuardCheck
  BY <1>1, <1>4 DEF GuardItem, Check, GuardCheck, Abort
<1>5. CASE Rollback
  <2>1. undo' = undo
    BY <1>5 DEF Rollback, Forget, TxInv
  <2> QED BY <1>1, <2>1
<1>6. CASE Commit
  <2>1. step = "end" /\ ~refused /\ tx = "open" /\ undo' = db
    BY <1>6 DEF Commit, Forget
  <2>2. SoundRows(db.rows)
    BY <2>1, LoadedRowsAreSound
  <2>3. db.loaded = TRUE
    <3> DEFINE X == db.rows
    <3>1. db = [rows |-> X, loaded |-> TRUE]
      BY <2>1 DEF LoadInv, RowsInv
    <3> HIDE DEF X
    <3> QED BY <3>1
  <2> QED BY <2>1, <2>2, <2>3 DEF UndoInv
<1>7. CASE Reset
  BY <1>7 DEF Reset, Nothing, UndoInv
<1>8. ASSUME UNCHANGED loadVars PROVE UndoInv'
  BY <1>1, <1>8 DEF loadVars
<1> QED
  BY <1>2, <1>3, <1>4, <1>5, <1>6, <1>7, <1>8
     DEF LoadNext, ClearRequests, Caller, pipelineVars

\* Initially nothing is held and nothing written.
LEMMA LoadInvInit == LoadInit => LoadInv
<1> SUFFICES ASSUME LoadInit PROVE LoadInv
  OBVIOUS
<1>1. held = {} /\ step = "idle" /\ tx = "none" /\ undo \in Before
  BY DEF LoadInit
<1> QED BY <1>1, ProgressInvInit, BeforeAssumption
        DEF LoadInv, HeldInv, TakenInv, RowsInv, FoundInv, UndoInv, Loading

\* LoadInv holds of every state of the pipeline.
LEMMA LoadKeepsLoadInv == LoadSpec => []LoadInv
<1>1. TxInv /\ LoadInv /\ [LoadNext]_pipelineVars => LoadInv'
  <2> SUFFICES ASSUME TxInv, LoadInv, [LoadNext]_pipelineVars PROVE LoadInv'
    OBVIOUS
  <2>1. ProgressInv /\ HeldInv /\ TakenInv /\ RowsInv /\ FoundInv
    BY DEF LoadInv
  <2>2. ProgressInv'
    BY <2>1, ProgressInvStep
  <2>3. HeldInv' /\ TakenInv'
    BY <2>1, HeldInvStep
  <2>4. RowsInv' /\ FoundInv'
    BY <2>1, RowsInvStep, FoundInvStep
  <2>5. UndoInv'
    BY UndoInvStep
  <2> QED BY <2>2, <2>3, <2>4, <2>5 DEF LoadInv
<1> QED BY <1>1, LoadInvInit, LoadKeepsTxInv, PTL DEF LoadSpec

\* However a load's statements fail, whatever it was given and whatever it replaces,
\* the rows stored once it has ended refer to rows stored, and what two of them say
\* of one another agrees.
THEOREM WhatIsLoadedIsSound == LoadSpec => []LoadedIsSound
<1>1. TxInv /\ LogInv /\ LoadInv => LoadedIsSound
  <2> SUFFICES ASSUME TxInv, LogInv, LoadInv PROVE LoadedIsSound
    OBVIOUS
  <2>1. ProgressInv /\ HeldInv /\ RowsInv /\ UndoInv
    BY DEF LoadInv
  <2>2. step = "idle" /\ db.loaded => SoundRows(db.rows)
    BY <2>1 DEF TxInv, UndoInv
  <2>3. done \subseteq 1..Len(rec)
    BY <2>1 DEF ProgressInv, Good, Of
  <2>4. db.loaded \in BOOLEAN
    <3>1. CASE tx = "open"
      <4> DEFINE X == db.rows
      <4>1. db = [rows |-> X, loaded |-> TRUE]
        BY <2>1, <3>1 DEF RowsInv
      <4> HIDE DEF X
      <4> QED BY <4>1
    <3>2. CASE tx # "open"
      BY <2>1, <3>2 DEF TxInv, UndoInv
    <3> QED BY <3>1, <3>2
  <2>5. {failed, refused, late, db.loaded} \subseteq BOOLEAN
    BY <2>1, <2>4 DEF TxInv, LogInv, ProgressInv
  <2>6. LoadTypeOK
    BY <2>1, <2>3, <2>5 DEF LoadTypeOK, LogInv, TxInv, ProgressInv, HeldInv
  <2> QED BY <2>2, <2>6 DEF LoadedIsSound
<1> QED BY <1>1, LoadKeepsTxInv, LoadKeepsLogInv, LoadKeepsLoadInv, PTL

\* Only a commit ends a load well.
LEMMA EndsByCommit ==
    ASSUME [LoadNext]_pipelineVars, Ends("ok")
    PROVE  Commit
<1> USE DEF Ends
<1>1. ASSUME NEW r \in Recordings[mix], BeginLoad(r) PROVE FALSE
  BY <1>1 DEF BeginLoad
<1>2. CASE Link \/ Decode \/ EndExchange \/ RepeatItem \/ WriteItem \/ GuardItem \/ Check \/ GuardCheck
  BY <1>2 DEF Link, Decode, EndExchange, RepeatItem, WriteItem, GuardItem, Check, GuardCheck, Abort
<1>3. CASE Rollback \/ Reset
  BY <1>3 DEF Rollback, Reset
<1>4. CASE ClearRequests \/ (\E c \in Callers : Caller(c)) \/ UNCHANGED pipelineVars
  BY <1>4 DEF ClearRequests, Caller, pipelineVars, loadVars
<1> QED BY <1>1, <1>2, <1>3, <1>4 DEF LoadNext

\* A load that ends well stored the rows of its recording and no others, every page
\* of every read of them; and what it was recorded twice was recorded the same.
THEOREM ALoadTakesItAll == LoadSpec => LoadTakesItAll
<1> DEFINE All == Ends("ok") => /\ db'.rows = {x \in Items(rec) : Writes(x)}
                                /\ \A x, y \in Items(rec) : Ref(x) = Ref(y) => x = y
                                /\ Complete(rec)
<1>1. TxInv /\ LoadInv /\ [LoadNext]_pipelineVars => [All]_pipelineVars
  <2> SUFFICES ASSUME TxInv, LoadInv, [LoadNext]_pipelineVars, Ends("ok") PROVE All
    OBVIOUS
  <2>1. step = "end" /\ ~refused /\ db' = db
    BY EndsByCommit DEF Commit
  <2> QED BY <2>1, EndHoldsAll
<1> QED BY <1>1, LoadKeepsTxInv, LoadKeepsLoadInv, PTL DEF LoadSpec, LoadTakesItAll


-----------------------------------------------------------------------------
\* A recording that holds together.

\* Its pages link.
LEMMA SoundRecordingsLink ==
    ASSUME NEW r, Len(r) \in Nat, Sound(r)
    PROVE  ~LinkRefuses(r)
<1>1. Good(r) \subseteq Nat
  BY DEF Good, Of
<1>2. ASSUME NEW k \in Good(r) PROVE ~Orphan(r, k)
  <2> SUFFICES ASSUME r[k].carried # NoId PROVE Earlier(r, k) # {}
    BY DEF Orphan
  <2>1. PICK p \in Read(r, k) : p < k /\ r[p].next = r[k].carried
    BY DEF Sound, Complete
  <2> QED BY <2>1 DEF Earlier
<1>3. ASSUME NEW p \in Good(r) PROVE ~Cut(r, p)
  <2> SUFFICES ASSUME r[p].next # NoId
               PROVE  \E k \in Read(r, p) : Earlier(r, k) # {} /\ Continues(r, k) = p
    BY DEF Cut
  <2>1. PICK k \in Read(r, p) : p < k /\ r[k].carried = r[p].next
    BY DEF Sound, Complete
  <2>2. k \in Good(r) /\ p \in Read(r, k)
    BY DEF Read
  <2>3. p \in Earlier(r, k)
    BY <2>1, <2>2 DEF Earlier
  <2>4. Continues(r, k) \in Earlier(r, k)
    BY <1>1, <2>2, <2>3, ContinuesEarlier
  <2>5. Continues(r, k) \in Good(r) /\ r[Continues(r, k)].next = r[p].next
    BY <2>1, <2>4 DEF Earlier, Read
  <2>6. Continues(r, k) = p
    BY <2>5 DEF Sound
  <2> QED BY <2>3, <2>6
<1> QED BY <1>2, <1>3 DEF LinkRefuses, Sound

\* What it holds twice it holds the same.
LEMMA SoundItemsAreOne ==
    ASSUME NEW r, Sound(r)
    PROVE  \A x, y \in Items(r) : Ref(x) = Ref(y) => x = y
<1> SUFFICES ASSUME NEW x \in Items(r), NEW y \in Items(r), Ref(x) = Ref(y) PROVE x = y
  OBVIOUS
<1>1. PICK k \in Good(r) : \E a \in 1..Len(r[k].items) : x = r[k].items[a]
  BY DEF Items
<1>2. PICK a \in 1..Len(r[k].items) : x = r[k].items[a]
  BY <1>1
<1>3. PICK m \in Good(r) : \E b \in 1..Len(r[m].items) : y = r[m].items[b]
  BY DEF Items
<1>4. PICK b \in 1..Len(r[m].items) : y = r[m].items[b]
  BY <1>3
<1>5. CASE <<k, a>> # <<m, b>>
  BY <1>2, <1>4, <1>5 DEF Sound
<1>6. CASE <<k, a>> = <<m, b>>
  BY <1>2, <1>4, <1>6
<1> QED BY <1>5, <1>6

\* The ranks of the types whose rows are written on others, and of those.
LEMMA RanksOf ==
    /\ Rank("vpc") = 2 /\ Rank("vpc-attribute") = 3 /\ Rank("subnet") = 4
    /\ Rank("security-group") = 5 /\ Rank("security-group-rule") = 6 /\ Rank("route-table") = 9
    /\ Rank("instance") = 12 /\ Rank("instance-attribute") = 13 /\ Rank("network-interface") = 14
    /\ Rank("volume") = 15 /\ Rank("role") = 16 /\ Rank("instance-profile") = 17
    /\ Rank("role-policy-attachment") = 18 /\ Rank("role-policy") = 19
<1>1. ASSUME NEW k \in 1..21, NEW j \in 1..21, LoadOrder[j] = LoadOrder[k] PROVE j = k
  BY <1>1 DEF LoadOrder
<1>2. ASSUME NEW k \in 1..21 PROVE Rank(LoadOrder[k]) = k
  <2>1. LoadOrder[k] \in Types
    BY Ranks DEF Types
  <2> QED BY <1>1, <2>1, Ranks
<1>3. /\ LoadOrder[2] = "vpc" /\ LoadOrder[3] = "vpc-attribute" /\ LoadOrder[4] = "subnet"
      /\ LoadOrder[5] = "security-group" /\ LoadOrder[6] = "security-group-rule"
      /\ LoadOrder[9] = "route-table" /\ LoadOrder[12] = "instance"
      /\ LoadOrder[13] = "instance-attribute" /\ LoadOrder[14] = "network-interface"
      /\ LoadOrder[15] = "volume" /\ LoadOrder[16] = "role" /\ LoadOrder[17] = "instance-profile"
      /\ LoadOrder[18] = "role-policy-attachment" /\ LoadOrder[19] = "role-policy"
  BY DEF LoadOrder
<1>4. {2, 3, 4, 5, 6, 9, 12, 13, 14, 15, 16, 17, 18, 19} \subseteq 1..21
  OBVIOUS
<1>5. Rank("vpc") = 2 /\ Rank("vpc-attribute") = 3 /\ Rank("subnet") = 4 /\ Rank("security-group") = 5
  BY <1>2, <1>3, <1>4
<1>6. Rank("security-group-rule") = 6 /\ Rank("route-table") = 9 /\ Rank("instance") = 12
  BY <1>2, <1>3, <1>4
<1>7. Rank("instance-attribute") = 13 /\ Rank("network-interface") = 14 /\ Rank("volume") = 15
  BY <1>2, <1>3, <1>4
<1>8. Rank("role") = 16 /\ Rank("instance-profile") = 17 /\ Rank("role-policy-attachment") = 18
  BY <1>2, <1>3, <1>4
<1>9. Rank("role-policy") = 19
  BY <1>2, <1>3, <1>4
<1> QED BY <1>5, <1>6, <1>7, <1>8, <1>9

\* Parents' loaders run first.
LEMMA ParentsRankLower ==
    ASSUME NEW x, x.type \in Types, NEW ref \in Under(x)
    PROVE  Rank(ref[1]) < Rank(x.type) /\ ref[1] # "role-policy-name"
<1>1. \A t, id : \A q \in The(t, id) : q[1] = t
  BY DEF The
<1>2. CASE x.type \in {"subnet", "security-group", "vpc-attribute"}
  BY <1>2, RanksOf DEF Under, InVpc
<1>3. CASE x.type = "route-table"
  <2>1. ref[1] \in {"vpc", "subnet"}
    BY <1>3 DEF Under, TableNeeds, InVpc
  <2> QED BY <1>3, <2>1, RanksOf
<1>4. CASE x.type = "security-group-rule"
  BY <1>4, RanksOf DEF Under, RuleNeeds
<1>5. CASE x.type = "instance"
  BY <1>5, RanksOf DEF Under, InSubnet
<1>6. CASE x.type = "instance-attribute"
  BY <1>6, RanksOf DEF Under
<1>7. CASE x.type = "network-interface"
  <2>1. ref[1] \in {"subnet", "instance"}
    BY <1>1, <1>7 DEF Under, InterfaceNeeds, InSubnet
  <2> QED BY <1>7, <2>1, RanksOf
<1>8. CASE x.type = "volume"
  BY <1>8, RanksOf DEF Under, VolumeNeeds
<1>9. CASE x.type \in {"role-policy", "role-policy-attachment"}
  BY <1>9, RanksOf DEF Under, UnderRole
<1>10. CASE x.type = "instance-profile"
  <2>1. ref[1] = "role"
    BY <1>1, <1>10 DEF Under
  <2> QED BY <1>10, <2>1, RanksOf
<1>11. CASE x.type \notin {"subnet", "security-group", "vpc-attribute", "route-table", "security-group-rule",
                          "instance", "instance-attribute", "network-interface", "volume", "role-policy",
                          "role-policy-attachment", "instance-profile"}
  BY <1>11 DEF Under
<1> QED BY <1>2, <1>3, <1>4, <1>5, <1>6, <1>7, <1>8, <1>9, <1>10, <1>11

\* What ranks lower than the item a load is at is written.
LEMMA LowerRanksAreWritten ==
    ASSUME TxInv, LoadInv, step = "item", n <= Len(rec[NextExchange].items), ~refused, ~failed,
           NEW y \in Items(rec), Writes(y), Rank(y.type) < Rank(Item.type)
    PROVE  y \in db.rows
<1> USE DEF LoadInv
<1>1. InExchange /\ Loading /\ step # "idle"
  BY DEF InExchange, Loading
<1>2. <<NextExchange, n>> \in Places /\ ItemAt(<<NextExchange, n>>) = Item
  BY <1>1, ThisPlace
<1>3. IsRecording(rec)
  BY <1>1, LoadsRecordings
<1>4. Item.type = rec[NextExchange].key /\ Item.type \in Types
  <2> PICK p \in Places : p = <<NextExchange, n>>
    BY <1>2
  <2>1. ItemAt(p).type = rec[p[1]].key /\ ItemAt(p).type \in Types
    BY <1>3, ItemsAtPlaces DEF IsItem
  <2> QED BY <1>2, <2>1
<1>5. PICK q \in Places : ItemAt(q) = y
  BY ItemsAreAtPlaces
<1>6. q[1] \in Good(rec) /\ y.type = rec[q[1]].key /\ y.type \in Types
  BY <1>3, <1>5, ItemsAtPlaces, PlacesAre DEF IsItem
<1>7. Rank(y.type) \in Nat /\ Rank(Item.type) \in Nat
  <2>1. ASSUME NEW t \in Types PROVE Rank(t) \in Nat
    <3>1. Rank(t) \in 1..21
      BY Ranks
    <3> QED BY <3>1
  <2> QED BY <1>4, <1>6, <2>1
<1>8. q[1] \in done
  <2> SUFFICES ASSUME q[1] \in Good(rec) \ done PROVE FALSE
    BY <1>6
  <2>1. q[1] = NextExchange \/ Precedes(rec, NextExchange, q[1])
    BY <1>3, NextIsFirst
  <2> QED BY <1>4, <1>6, <1>7, <2>1 DEF Precedes
<1>9. y \in HeldItems
  BY <1>1, <1>5, <1>8 DEF TakenInv, Passed
<1>10. Kept = HeldItems
  BY DEF Kept
<1> QED BY <1>1, <1>9, <1>10 DEF RowsInv

\* No row is held of the item a load is about to write, and none is written.
LEMMA NotYetWritten ==
    ASSUME TxInv, LoadInv, step = "item", ~failed, Held(Item) = {}
    PROVE  /\ db.rows \subseteq Items(rec)
           /\ \A y \in db.rows : Ref(y) # Ref(Item)
<1> USE DEF LoadInv
<1>1. Loading /\ Kept = HeldItems
  BY DEF Loading, Kept
<1>2. db.rows \subseteq HeldItems
  BY <1>1 DEF RowsInv
<1>3. HeldItems \subseteq Items(rec)
  BY <1>1, HeldWereRecorded
<1>4. \A y \in HeldItems : Ref(y) # Ref(Item)
  BY DEF HeldItems, Held
<1> QED BY <1>2, <1>3, <1>4

\* The item a load is at, of a recording that holds together, is written.
LEMMA SoundItemIsWritable ==
    ASSUME TxInv, LoadInv, step = "item", n <= Len(rec[NextExchange].items), ~refused, ~failed,
           Sound(rec), Held(Item) = {}
    PROVE  Writable(db.rows, Item)
<1> USE DEF LoadInv
<1> DEFINE x == Item
           X == db.rows
<1>1. InExchange /\ step # "idle"
  BY DEF InExchange
<1>2. x \in Items(rec) /\ IsItem(x)
  <2>1. <<NextExchange, n>> \in Places /\ ItemAt(<<NextExchange, n>>) = Item
    BY <1>1, ThisPlace
  <2>2. \E p \in Places : ItemAt(p) = Item
    BY <2>1
  <2> QED BY <1>1, <2>2, ItemsAreAtPlaces, ItemsAtPlaces, LoadsRecordings
<1>3. \A y \in Items(rec) : Writes(y) /\ Rank(y.type) < Rank(x.type) => y \in X
  BY LowerRanksAreWritten
<1>4. X \subseteq Items(rec) /\ \A y \in X : Ref(y) # Ref(x)
  BY NotYetWritten
<1> HIDE DEF x, X
<1>5. Under(x) \subseteq RefsOf(X)
  <2> SUFFICES ASSUME NEW ref \in Under(x) PROVE ref \in RefsOf(X)
    OBVIOUS
  <2>1. ref \in RefsOf(Items(rec))
    BY <1>2 DEF Sound
  <2>2. PICK y \in Items(rec) : Ref(y) = ref
    BY <2>1 DEF RefsOf
  <2>3. Rank(ref[1]) < Rank(x.type) /\ ref[1] # "role-policy-name"
    BY <1>2, ParentsRankLower DEF IsItem
  <2>4. y.type = ref[1]
    BY <2>2 DEF Ref
  <2> QED BY <1>3, <2>2, <2>3, <2>4 DEF RefsOf, Writes
<1>6. ASSUME x.type = "route-table" PROVE RouteTableFits(X, x)
  <2>1. x \in OfType(Items(rec), "route-table")
    BY <1>2, <1>6 DEF OfType
  <2>2. \A q \in x.routes : q.ipv4
    BY <1>2, <1>6 DEF Sound
  <2>3. \A t \in OfType(Items(rec), "route-table") :
          t.vpc = x.vpc /\ t.mains > 0 /\ x.mains > 0 => t = x /\ x.mains = 1
    BY <2>1 DEF Sound, Mutual
  <2>4. x.mains > 0 => x.mains = 1
    BY <2>1, <2>3
  <2>5. \A t \in OfType(X, "route-table") : t \in OfType(Items(rec), "route-table") /\ t # x
    BY <1>4 DEF OfType
  <2> QED BY <2>2, <2>3, <2>4, <2>5 DEF RouteTableFits
<1>7. ASSUME x.type = "security-group-rule" PROVE RuleFits(X, x)
  <2>1. RuleFits(Items(rec) \ {x}, x)
    BY <1>2, <1>7 DEF Sound
  <2>2. OfType(X, "security-group-rule") \subseteq OfType(Items(rec) \ {x}, "security-group-rule")
    BY <1>4 DEF OfType
  <2> QED BY <2>1, <2>2 DEF RuleFits
<1>8. ASSUME x.type = "network-interface" PROVE InterfaceFits(x)
  BY <1>2, <1>8 DEF Sound
<1>9. ASSUME x.type = "volume" PROVE VolumeFits(X, x)
  <2> SUFFICES ASSUME NEW a \in x.attachments
               PROVE  \E i \in OfType(X, "instance") :
                         i.id = a.instance /\ [volume |-> x.id, how |-> a.how] \in i.volumes
    BY DEF VolumeFits
  <2>1. x \in OfType(Items(rec), "volume")
    BY <1>2, <1>9 DEF OfType
  <2>2. PICK i \in OfType(Items(rec), "instance") :
          i.id = a.instance /\ [volume |-> x.id, how |-> a.how] \in i.volumes
    BY <2>1 DEF Sound, Mutual
  <2>3. i \in Items(rec) /\ i.type = "instance" /\ Rank(i.type) < Rank(x.type)
    BY <1>9, <2>2, RanksOf DEF OfType
  <2> QED BY <1>3, <2>2, <2>3 DEF OfType, Writes
<1>10. Fits(X, x)
  BY <1>6, <1>7, <1>8, <1>9 DEF Fits
<1> QED BY <1>5, <1>10 DEF Writable, x, X

\* An item met again, in a recording that holds together, is the one it was, and
\* of another read.
LEMMA SoundItemsRepeat ==
    ASSUME LoadInv, step = "item", n <= Len(rec[NextExchange].items), Sound(rec),
           NEW h \in Held(Item)
    PROVE  MyChain \notin h.seen /\ Item = h.item
<1> USE DEF LoadInv
<1>1. InExchange /\ Loading /\ step # "idle"
  BY DEF InExchange, Loading
<1>2. <<NextExchange, n>> \in Places /\ ItemAt(<<NextExchange, n>>) = Item
  BY <1>1, ThisPlace
<1>3. Len(rec) \in Nat /\ NextExchange \in Good(rec) /\ NextExchange \notin done
  BY <1>1, LoadsRecordings DEF IsRecording, ProgressInv
<1>4. PICK here \in Places : here = <<NextExchange, n>> /\ here[1] = NextExchange /\ here[2] = n
  BY <1>2
<1>5. ASSUME NEW p \in Places, Passed(p), Ref(ItemAt(p)) = Ref(Item)
      PROVE  ItemAt(p) = Item /\ rec[p[1]].entry # rec[NextExchange].entry
  <2>1. p = <<p[1], p[2]>> /\ p[1] \in Good(rec) /\ p[2] \in 1..Len(rec[p[1]].items)
    BY PlacesAre
  <2>2. here[1] \in Good(rec) /\ here[2] \in 1..Len(rec[here[1]].items)
    BY PlacesAre
  <2>3. ~(p[1] = NextExchange /\ p[2] = n)
    BY <1>3, <1>5, <2>1 DEF Passed, ProgressInv
  <2>4. <<p[1], p[2]>> # <<here[1], here[2]>>
    BY <1>4, <2>3
  <2>5. ItemAt(here) = Item
    BY <1>2, <1>4
  <2> QED BY <1>4, <1>5, <2>1, <2>2, <2>4, <2>5 DEF Sound, ItemAt
<1>6. h \in held /\ Ref(h.item) = Ref(Item)
  BY DEF Held
<1>7. PICK p \in Places : Passed(p) /\ ItemAt(p) = h.item
  BY <1>1, <1>6 DEF HeldInv
<1>8. Item = h.item
  BY <1>5, <1>6, <1>7
<1>9. ASSUME MyChain \in h.seen PROVE FALSE
  <2>1. PICK q \in Places : Passed(q) /\ Ref(ItemAt(q)) = Ref(h.item) /\ MyChain = Chain(rec)[q[1]]
    BY <1>1, <1>6, <1>9 DEF HeldInv
  <2>2. q[1] \in Good(rec)
    BY PlacesAre
  <2>3. Chain(rec)[q[1]] \in Read(rec, q[1]) /\ MyChain \in Read(rec, NextExchange)
    BY <1>3, <2>2, ChainWithinRead DEF MyChain
  <2>4. rec[q[1]].entry = rec[NextExchange].entry
    BY <2>1, <2>3 DEF Read
  <2> QED BY <1>5, <1>6, <2>1, <2>4
<1> QED BY <1>8, <1>9

\* The rows of a recording that holds together are accepted.
LEMMA SoundItemsAreAccepted ==
    ASSUME NEW r, Sound(r)
    PROVE  \A x \in Items(r) : Accepted(Items(r), x)
<1> DEFINE X == Items(r)
<1> SUFFICES ASSUME NEW x \in X PROVE Accepted(X, x)
  OBVIOUS
<1>1. \A t : \A y, z \in OfType(X, t) : y.id = z.id => y = z
  BY SoundItemsAreOne DEF OfType, Ref
<1>2. Mutual(X) /\ References(x) \subseteq RefsOf(X) /\ Shown(X, x) = x
  BY DEF Sound
<1> HIDE DEF X
<1>3. Agrees(X, x)
  <2> SUFFICES ASSUME x.type = "instance", x.nic # NoId,
                      NEW a \in OfType(X, "network-interface"), a.id = x.nic.eni
               PROVE  a.ip = x.nic.ip
    BY DEF Agrees
  <2>1. x \in OfType(X, "instance")
    BY DEF OfType
  <2>2. PICK b \in OfType(X, "network-interface") : b.id = x.nic.eni /\ b.ip = x.nic.ip
    BY <1>2, <2>1 DEF Mutual
  <2> QED BY <1>1, <2>2
<1>4. Attached(X, x)
  <2> SUFFICES ASSUME x.type = "instance", NEW m \in x.volumes,
                      NEW v \in OfType(X, "volume"), v.id = m.volume
               PROVE  \E a \in v.attachments : a.instance = x.id
    BY DEF Attached
  <2>1. x \in OfType(X, "instance")
    BY DEF OfType
  <2>2. PICK w \in OfType(X, "volume") :
          w.id = m.volume /\ [instance |-> x.id, how |-> m.how] \in w.attachments
    BY <1>2, <2>1 DEF Mutual
  <2>3. v = w
    BY <1>1, <2>2
  <2>4. [instance |-> x.id, how |-> m.how].instance = x.id
    OBVIOUS
  <2> QED BY <2>2, <2>3, <2>4
<1> QED BY <1>2, <1>3, <1>4 DEF Accepted, X

\* A step that goes on with the recording refuses nothing of it by itself.
LEMMA SoundKept ==
    ASSUME SoundInv, UNCHANGED rec, step # "idle", step' # "idle",
           step' = "abort" => failed' \/ ~Sound(rec),
           Sound(rec) /\ ~failed' => ~failed,
           Sound(rec) /\ ~failed' /\ ~refused /\ got # "refusal" => ~refused' /\ got' # "refusal"
    PROVE  SoundInv'
<1>1. Sound(rec)' = Sound(rec)
  BY DEF Sound, Of, Good, Complete, Read, Items
<1> QED BY <1>1 DEF SoundInv

\* Initially nothing was refused.
LEMMA SoundInvInit == LoadInit => SoundInv
  BY DEF LoadInit, SoundInv

\* A step of a load refuses nothing of a recording that holds together, and aborts it
\* only after a failure.
LEMMA SoundInvStep == TxInv /\ LoadInv /\ SoundInv /\ [LoadNext]_pipelineVars => SoundInv'
<1> SUFFICES ASSUME TxInv, LoadInv, SoundInv, [LoadNext]_pipelineVars PROVE SoundInv'
  OBVIOUS
<1> USE DEF LoadInv
<1>1. ASSUME step' = "idle", got' = "none" PROVE SoundInv'
  BY <1>1 DEF SoundInv
<1>2. ASSUME NEW r \in Recordings[mix], BeginLoad(r) PROVE SoundInv'
  <2>1. step = "idle" /\ step' = "link" /\ UNCHANGED <<got, refused>>
    BY <1>2 DEF BeginLoad
  <2>2. ~refused /\ got # "refusal"
    BY <2>1 DEF ProgressInv, SoundInv
  <2>3. ~refused'
    BY <2>1, <2>2
  <2> QED BY <2>1, <2>2, <2>3 DEF SoundInv
<1>3. CASE Link
  <2>1. UNCHANGED <<rec, got, failed>> /\ step = "link" /\ step' = "exchange" /\ refused' = LinkRefuses(rec)
    BY <1>3 DEF Link
  <2>2. Sound(rec) => ~LinkRefuses(rec)
    BY <2>1, LoadsRecordings, SoundRecordingsLink DEF IsRecording
  <2>3. Sound(rec) => ~refused'
    BY <2>1, <2>2
  <2> QED BY <2>1, <2>3, SoundKept
<1>4. CASE Decode
  <2>1. UNCHANGED <<rec, got, failed>> /\ step = "exchange" /\ step' \in {"item", "exchange", "abort"}
    BY <1>4 DEF Decode
  <2>2. NextExchange \in Good(rec)
    BY <1>4, <2>1, LoadsRecordings, NextIsFirst DEF Decode
  <2>3. Sound(rec) => UNCHANGED refused /\ step' # "abort"
    <3>1. Sound(rec) => rec[NextExchange].decodes = "items"
      BY <2>2 DEF Sound
    <3> QED BY <1>4, <3>1 DEF Decode
  <2> QED BY <2>1, <2>3, SoundKept
<1>5. CASE EndExchange
  <2>1. UNCHANGED <<rec, failed, got, refused>> /\ step = "item" /\ step' = "exchange"
    BY <1>5 DEF EndExchange
  <2>2. (~refused => ~refused') /\ (~failed' => ~failed)
    BY <2>1
  <2> QED BY <2>1, <2>2, SoundKept
<1>6. CASE RepeatItem
  <2>1. UNCHANGED <<rec, got, failed>> /\ step = "item" /\ step' = "item" /\ n <= Len(rec[NextExchange].items)
    BY <1>6 DEF RepeatItem
  <2>2. PICK h \in Held(Item) : Repeat(h)
    BY <1>6 DEF RepeatItem
  <2>3. Sound(rec) => MyChain \notin h.seen /\ Item = h.item
    BY <2>1, SoundItemsRepeat
  <2>4. Sound(rec) /\ ~refused => ~refused'
    BY <2>2, <2>3 DEF Repeat
  <2> QED BY <2>1, <2>4, SoundKept
<1>7. CASE WriteItem
  <2>1. UNCHANGED <<rec, refused>> /\ step = "item" /\ step' = "guard" /\ Held(Item) = {}
        /\ n <= Len(rec[NextExchange].items)
    BY <1>7 DEF WriteItem, progress
  <2>2. ~failed
    BY <2>1 DEF TxInv
  <2>3. Sound(rec) /\ ~refused /\ ~failed => Writable(db.rows, Item)
    BY <2>1, SoundItemIsWritable
  <2>4. Sound(rec) /\ ~failed' /\ ~refused => got' # "refusal"
    BY <1>7, <2>2, <2>3 DEF WriteItem, Fails
  <2>5. ~refused => ~refused'
    BY <2>1
  <2> QED BY <2>1, <2>2, <2>4, <2>5, SoundKept
<1>8. CASE GuardItem
  <2>1. CASE Stops
    <3>1. UNCHANGED <<rec, refused, failed, got>> /\ step = "guard" /\ step' = "abort"
      BY <1>8, <2>1 DEF GuardItem, Abort, progress
    <3>2. failed
      BY <2>1, <3>1 DEF Stops, ProgressInv
    <3>3. failed'
      BY <3>1, <3>2
    <3> QED BY <3>1, <3>3, SoundKept
  <2>2. CASE ~Stops
    <3>1. UNCHANGED <<rec, failed>> /\ step = "guard" /\ step' = "item" /\ got' = "none"
      BY <1>8, <2>2 DEF GuardItem
    <3>2. got # "refusal" => UNCHANGED refused
      BY <1>8, <2>2 DEF GuardItem
    <3>3. got # "refusal" /\ ~refused => ~refused'
      BY <3>2
    <3> QED BY <3>1, <3>3, SoundKept
  <2> QED BY <2>1, <2>2
<1>9. CASE Check
  <2>1. UNCHANGED rec /\ step = "exchange" /\ step' \in {"end", "check guard"} /\ Good(rec) \ done = {} /\ Loading
    BY <1>9 DEF Check, Loading
  <2>2. ~failed
    BY <2>1 DEF TxInv
  <2>3. CASE Fails
    BY <2>1, <2>2, <2>3, SoundKept DEF Fails
  <2>4. CASE step' = "end"
    <3>1. UNCHANGED <<failed, got>> /\ refused' = (refused \/ \E x \in HeldItems : ~Accepted(HeldItems, x))
      BY <1>9, <2>4 DEF Check
    <3>2. Sound(rec) /\ ~refused => \A x \in HeldItems : Accepted(HeldItems, x)
      BY <2>1, <2>2, AllIsHeld, SoundItemsAreAccepted
    <3>3. Sound(rec) /\ ~refused => ~refused'
      BY <3>1, <3>2
    <3> QED BY <2>1, <2>4, <3>1, <3>3, SoundKept
  <2> QED BY <1>9, <2>3, <2>4 DEF Check
<1>10. CASE GuardCheck
  <2>1. failed /\ step = "check guard"
    BY <1>10 DEF GuardCheck, TxInv
  <2>2. UNCHANGED <<rec, failed>> /\ step' = "abort"
    BY <1>10, <2>1 DEF GuardCheck, Stops, Abort, progress
  <2>3. failed'
    BY <2>1, <2>2
  <2> QED BY <2>1, <2>2, <2>3, SoundKept
<1>11. CASE Rollback \/ Commit
  BY <1>1, <1>11 DEF Rollback, Commit, Forget
<1>12. CASE Reset
  BY <1>1, <1>12 DEF Reset, SoundInv
<1>13. ASSUME UNCHANGED loadVars PROVE SoundInv'
  <2>1. UNCHANGED <<rec, step, refused, failed, got>>
    BY <1>13 DEF loadVars
  <2>2. CASE step = "idle"
    BY <1>1, <2>1, <2>2 DEF SoundInv
  <2>3. CASE step # "idle"
    <3>1. (~refused => ~refused') /\ (~failed' => ~failed) /\ (step' = "abort" => failed' \/ ~Sound(rec))
      BY <2>1 DEF SoundInv
    <3> QED BY <2>1, <2>3, <3>1, SoundKept
  <2> QED BY <2>2, <2>3
<1> QED
  BY <1>2, <1>3, <1>4, <1>5, <1>6, <1>7, <1>8, <1>9, <1>10, <1>11, <1>12, <1>13
     DEF LoadNext, ClearRequests, Caller, pipelineVars

\* A recording that holds together loads, whatever order its exchanges are in and
\* whatever rows it replaces, unless a statement fails: its loaders run parents
\* first, and each page of a read is taken for one.
THEOREM WhatHoldsTogetherLoads == LoadSpec => SoundRecordingsLoad
<1> DEFINE Ill == Ends("refused") \/ Ends("failed") => failed \/ ~Sound(rec)
<1>1. TxInv /\ SoundInv /\ [LoadNext]_pipelineVars => [Ill]_pipelineVars
  <2> SUFFICES ASSUME TxInv, SoundInv, [LoadNext]_pipelineVars, Ends("refused") \/ Ends("failed"),
                      ~failed, Sound(rec)
               PROVE  FALSE
    OBVIOUS
  <2>1. Rollback /\ step # "idle"
    BY EndsByRollback DEF Ends
  <2>2. ~refused
    BY <2>1 DEF SoundInv
  <2>3. step = "abort" \/ (step = "end" /\ tx = "ended")
    BY <2>1, <2>2 DEF Rollback
  <2> QED BY <2>3 DEF SoundInv, TxInv
<1>2. LoadSpec => []SoundInv
  BY SoundInvInit, SoundInvStep, LoadKeepsTxInv, LoadKeepsLoadInv, PTL DEF LoadSpec
<1> QED BY <1>1, <1>2, LoadKeepsTxInv, PTL DEF LoadSpec, SoundRecordingsLoad
=============================================================================

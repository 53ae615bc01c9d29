------------------------------- MODULE DbFile -------------------------------
(***************************************************************************)
(* The contents of a fakeaws database file, as far as the life of a mock   *)
(* depends on them: the schema version, the identity row and which kinds   *)
(* of row are present under which account.                                 *)
(***************************************************************************)
EXTENDS Naturals, Sequences

CONSTANTS
    Accounts, \* account ids
    Default,  \* awsproto.FakeAccountID, answered when no identity is stored
    None      \* no stored identity

ASSUME DefaultAssumption == Default \in Accounts /\ None \notin Accounts

\* "zone" and "ns" are a hosted zone and its default record sets; "pending"
\* is a KMS key in PendingDeletion; "fixture" a fixture AMI; "vpc" a VPC
\* stored with its defaults, "bare" one stored without them and "minted" the
\* defaults a backfill gave it.
Kinds == {"zone", "ns", "key", "pending", "fixture", "vpc", "bare", "minted"}

\* The kinds isEmpty does not count: fixture AMIs and PendingDeletion keys.
emptyExclusions == {"fixture", "pending"}

\* The tables of the model in resetTables order, children first.
resetTables == << {"zone", "ns"}, {"key", "pending"}, {"identity"},
                  {"fixture"}, {"minted"}, {"vpc", "bare"} >>

\* "none": no file; "empty": a file with no tables; "torn": a partly written
\* file; "other": another schema version; "whole": a database at this one.
File == [state: {"none", "empty", "torn", "other", "whole"},
         account: Accounts \cup {None}, loaded: BOOLEAN,
         rows: SUBSET (Kinds \X Accounts)]

Blank(s) == [state |-> s, account |-> None, loaded |-> FALSE, rows |-> {}]
NoFile   == Blank("none")
Fresh    == Blank("whole")

\* A variant for the runs' mutants: no stored identity answered as it is.
AccountIDStored(f) == f.account

\* AccountID: the stored account, or the default when none is stored.
AccountID(f) == IF f.account = None THEN Default ELSE f.account

\* The rows isEmpty counts.
Counted(f) == {r \in f.rows : r[1] \notin emptyExclusions}

\* The files fakeaws may find when it first starts: none, one of another schema
\* version, or one of a build whose CreateVpc stored no defaults.
OldFiles == {NoFile, Blank("other"), [Fresh EXCEPT !.rows = {<<"bare", Default>>}]}

\* SetIdentity keeps the loaded flag: its upsert sets account and region only.
StoreIdentity(f, a) == [f EXCEPT !.account = a]

\* DELETE FROM one table.
DeleteTable(f, t) ==
    IF t = {"identity"} THEN [f EXCEPT !.account = None, !.loaded = FALSE]
    ELSE [f EXCEPT !.rows = {r \in @ : r[1] \notin t}]

\* A variant for the runs' mutants: the backfill that ignores the loaded flag.
BackfilledAlways(f) ==
    [f EXCEPT !.rows = @ \cup {<<"minted", a>> : a \in {b \in Accounts : <<"bare", b>> \in f.rows}}]

\* BackfillVPCDefaults: nothing on a loaded database.
Backfilled(f) ==
    IF f.loaded THEN f ELSE BackfilledAlways(f)

\* SeedAMI of the fixtures, INSERT OR IGNORE, by whoever saw loaded unset.
Seeded(f, a) == [f EXCEPT !.rows = @ \cup {<<"fixture", a>>}]

\* What Load's transaction commits.
LoadedFile(a, ks) == [state |-> "whole", account |-> a, loaded |-> TRUE, rows |-> ks \X {a}]

\* The copy stage prepares: the version check passes a file with no tables,
\* which migrate makes new, and a database at this version.
\* (StageableUnchecked and StagedUnfilled: without the check, or the backfill.)
StageableUnchecked(f) == f.state # "none"
Stageable(f) == f.state \in {"empty", "whole"}
StagedUnfilled(f) == IF f.state = "empty" THEN Fresh ELSE f
Staged(f) == IF f.state = "empty" THEN Fresh ELSE Backfilled(f)
=============================================================================

----------------------------- MODULE MockStore -----------------------------
(***************************************************************************)
(* What a client of fakeaws may rely on, whatever the interleaving: every  *)
(* admin operation is one step on the database and its snapshot, every     *)
(* statement of a request writes under the stored account, and an admin    *)
(* operation that is cut short can only end in the states Cut names.       *)
(***************************************************************************)
EXTENDS DbFile

CONSTANTS
    LoadedKinds, \* the sets of row kinds a recorded read may hold
    Faults       \* what may go wrong

VARIABLES live, baseline
files == <<live, baseline>>

Init == live \in OldFiles /\ baseline \in OldFiles

\* A boot on a missing file, on one with no tables, or after the operator
\* deleted one that would not open.
Create == live.state \in {"none", "empty"} /\ live' = Fresh /\ UNCHANGED baseline
Delete == live.state \in {"torn", "other"} /\ live' = NoFile /\ UNCHANGED baseline

\* A boot completes what older versions stored, never a loaded database.
Complete == /\ live.state = "whole" /\ ~live.loaded
            /\ live' \in {Backfilled(live), Seeded(live, AccountID(live))}
            /\ UNCHANGED baseline

\* A statement of an AWS request: only rows of the stored account, never a
\* VPC's defaults on their own, fixtures only where no load owns the AMIs.
Request ==
    /\ live.state = "whole"
    /\ LET own == ({"zone", "ns", "key", "pending", "vpc"}
                   \cup (IF live.loaded THEN {} ELSE {"fixture"})) \X {AccountID(live)}
       IN  \E R \in SUBSET own :
              live' = [live EXCEPT !.rows = (@ \ own) \cup R]
    /\ UNCHANGED baseline

\* The account changes only where no counted row would be left under the old.
SetIdentity ==
    /\ live.state = "whole"
    /\ \E a \in Accounts : /\ a = AccountID(live) \/ Counted(live) = {}
                           /\ live' = StoreIdentity(live, a)
    /\ UNCHANGED baseline

Reset    == live.state = "whole" /\ live' = Fresh /\ baseline' = NoFile
Snapshot == live.state \in {"empty", "whole"} /\ baseline' = live /\ UNCHANGED live
Restore  == Stageable(baseline) /\ live' = Staged(baseline) /\ UNCHANGED baseline
Load     == /\ live.state = "whole"
            /\ \E a \in Accounts, ks \in LoadedKinds : live' = LoadedFile(a, ks)
            /\ UNCHANGED baseline

\* A cut snapshot has lost the old baseline and made no new one.
CutSnapshot == /\ Faults \cap {"kill", "vacuum", "copy"} # {}
               /\ baseline' = NoFile /\ UNCHANGED live

\* A cut restore may leave the live file truncated or torn, or restored; the
\* baseline it came from is still there.
CutRestore == /\ Faults \cap {"kill", "copy"} # {}
              /\ Stageable(baseline)
              /\ live' \in {Blank("empty"), Blank("torn"), Staged(baseline)}
              /\ UNCHANGED baseline

\* A file whose first n tables a reset has emptied.
Emptied(f, n) ==
    [f EXCEPT !.rows    = {r \in @ : \A i \in 1..n : r[1] \notin resetTables[i]},
              !.account = IF \E i \in 1..n : resetTables[i] = {"identity"} THEN None ELSE @,
              !.loaded  = @ /\ \A i \in 1..n : resetTables[i] # {"identity"}]

\* A cut reset has emptied some of the tables, in order, and keeps the
\* baseline until all of them.
CutReset ==
    /\ Faults \cap {"kill", "delete"} # {}
    /\ live.state = "whole"
    /\ \E n \in 1..Len(resetTables) : live' = Emptied(live, n)
    /\ UNCHANGED baseline

Next == \/ Create \/ Delete \/ Complete \/ Request
        \/ SetIdentity \/ Reset \/ Snapshot \/ Restore \/ Load
        \/ CutSnapshot \/ CutRestore \/ CutReset

Spec == Init /\ [][Next]_files
=============================================================================

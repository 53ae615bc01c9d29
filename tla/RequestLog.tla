----------------------------- MODULE RequestLog -----------------------------
(***************************************************************************)
(* The request log: what recordRequests appends once a request's handler   *)
(* has returned or panicked, which is after it let go of identityMu.  The  *)
(* module that extends this one says when the log is cleared.              *)
(***************************************************************************)
EXTENDS Naturals, Sequences

CONSTANTS
    Callers,  \* the connections that may each have one request in flight
    MaxCalls  \* a bound on the requests sent

ASSUME CallsAssumption == MaxCalls \in Nat

\* What a handler may write, and the marks it may leave.
Statuses == {200, 404, 501}
Marks    == {"not-modelled-404", "filter-refused", "empty-collection", "unimplemented-501"}
Classes  == Marks \cup {"answered-from-rows"}

VARIABLES
    log,   \* the entries: each its class, and the rows' era its request ran in
    era,   \* how often the rows have been replaced
    calls, \* the requests sent so far
    at,    \* each caller: "idle", "handler", "returned" or "panicked"
    rw,    \* its recordingWriter
    wire,  \* whether the handler's own answer was a failure: an auxiliary record
    ranIn  \* the era its handler ran in: an auxiliary record

logVars == <<log, era, calls, at, rw, wire, ranIn>>

NewWriter == [status |-> 0, class |-> "none"]

LogInit ==
    /\ log = << >> /\ era = 0 /\ calls = 0
    /\ at = [c \in Callers |-> "idle"]
    /\ rw = [c \in Callers |-> NewWriter]
    /\ wire = [c \in Callers |-> "none"]
    /\ ranIn = [c \in Callers |-> 0]

\* The caller takes identityMu shared and its handler runs.
Call(c) ==
    /\ at[c] = "idle" /\ calls < MaxCalls
    /\ at' = [at EXCEPT ![c] = "handler"]
    /\ rw' = [rw EXCEPT ![c] = NewWriter]
    /\ wire' = [wire EXCEPT ![c] = "none"]
    /\ ranIn' = [ranIn EXCEPT ![c] = era]
    /\ calls' = calls + 1
    /\ UNCHANGED <<log, era>>

\* recordingWriter.WriteHeader and Write: the first status stays.
WriteHeader(c, s) ==
    /\ at[c] = "handler" /\ rw[c].status = 0
    /\ rw' = [rw EXCEPT ![c].status = s]
    /\ wire' = [wire EXCEPT ![c] = IF s >= 500 THEN "failed" ELSE "answered"]
    /\ UNCHANGED <<log, era, calls, at, ranIn>>

\* markClass: the last mark wins.
Mark(c, m) ==
    /\ at[c] = "handler" /\ rw[c].class # m
    /\ rw' = [rw EXCEPT ![c].class = m]
    /\ UNCHANGED <<log, era, calls, at, wire, ranIn>>

\* The handler returns, or panics, and identityMu is let go.
Return(c) ==
    /\ at[c] = "handler"
    /\ at' = [at EXCEPT ![c] = "returned"]
    /\ UNCHANGED <<log, era, calls, rw, wire, ranIn>>

Panic(c) ==
    /\ at[c] = "handler"
    /\ at' = [at EXCEPT ![c] = "panicked"]
    /\ wire' = [wire EXCEPT ![c] = "failed"]
    /\ UNCHANGED <<log, era, calls, rw, ranIn>>

\* A variant for the runs' mutants: a panic leaves the writer as it was.
SettledAsWritten(c) == IF rw[c].status = 0 THEN [rw[c] EXCEPT !.status = 200] ELSE rw[c]

\* The deferred function's writer: a panic is a 500 of its own class, and a
\* handler that wrote nothing answered 200.
Settled(c) ==
    IF at[c] = "panicked" THEN [status |-> 500, class |-> "unimplemented-501"]
    ELSE IF rw[c].status = 0 THEN [rw[c] EXCEPT !.status = 200]
    ELSE rw[c]

\* recordingWriter.classification.
Classification(w) ==
    IF w.class # "none" THEN w.class
    ELSE IF w.status >= 500 THEN "unimplemented-501"
    ELSE "answered-from-rows"

\* requestLog.append.
LogAppend(c) ==
    /\ at[c] \in {"returned", "panicked"}
    /\ log' = Append(log, [class |-> Classification(Settled(c)), failed |-> wire[c] = "failed",
                           era |-> ranIn[c]])
    /\ at' = [at EXCEPT ![c] = "idle"]
    /\ rw' = [rw EXCEPT ![c] = NewWriter]
    /\ wire' = [wire EXCEPT ![c] = "none"]
    /\ ranIn' = [ranIn EXCEPT ![c] = 0]
    /\ UNCHANGED <<era, calls>>

LogNext(c) ==
    \/ Call(c) \/ Return(c) \/ Panic(c) \/ LogAppend(c)
    \/ \E s \in Statuses : WriteHeader(c, s)
    \/ \E m \in Marks : Mark(c, m)

\* No handler holds identityMu shared.
NobodyHolds == \A c \in Callers : at[c] # "handler"

LogTypeOK ==
    /\ \A n \in 1..Len(log) : log[n] \in [class: Classes, failed: BOOLEAN, era: Nat]
    /\ era \in Nat /\ calls \in 0..MaxCalls
    /\ at \in [Callers -> {"idle", "handler", "returned", "panicked"}]
    /\ rw \in [Callers -> [status: Statuses \cup {0}, class: Marks \cup {"none"}]]
    /\ wire \in [Callers -> {"none", "answered", "failed"}]
    /\ ranIn \in [Callers -> Nat]

\* "A 5xx is never answered-from-rows", nor is a panic, whatever its handler
\* wrote or marked before.
NoFailureLooksAnswered ==
    \A n \in 1..Len(log) : log[n].failed => log[n].class # "answered-from-rows"
=============================================================================

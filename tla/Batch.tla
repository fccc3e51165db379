------------------------------- MODULE Batch --------------------------------
(***************************************************************************)
(* `jiku batch` (cmd/jiku/batch.go): requests read line by line and        *)
(* answered line by line, over one connection, while the documentation     *)
(* module that some of them name comes and goes.                           *)
(***************************************************************************)
EXTENDS Naturals, SequencesExt

CONSTANTS
    Lines,         \* what a line may be
    MaxLines,      \* bound: lines of the input
    Turns          \* bound: how often the module comes or goes

ASSUME BatchAssumption ==
    /\ Lines \subseteq {"core", "docs", "other", "blank", "nonsense"}
    /\ MaxLines \in Nat /\ Turns \in Nat

VARIABLES
    input, stopOnError,
    at,            \* the line that was read
    doing,         \* scan, ask, write, or the exit status: ok, failed
    docsPlane,     \* the module's plane: unopened, open, failed
    moduleUp, turns,
    stopped,       \* SIGINT: the context is cancelled
    reply,         \* of the request being answered
    output,        \* replies that were written: [line, ok]
    failures,
    succeeded      \* history: requests that were served

batchVars == <<input, stopOnError, at, doing, docsPlane, moduleUp, turns, stopped, reply, output,
               failures, succeeded>>

Exits(status) == doing' = status

\* The next line; a comment or nothing is skipped, what is no request ends the batch.
Scan ==
    /\ doing = "scan"
    /\ IF at = Len(input) THEN Exits(IF failures > 0 THEN "failed" ELSE "ok") /\ UNCHANGED at
       ELSE /\ at' = at + 1
            /\ doing' = CASE input[at + 1] = "blank" -> "scan"
                          [] input[at + 1] = "nonsense" \/ stopped -> "failed"
                          [] OTHER -> "ask"
    /\ UNCHANGED <<input, stopOnError, docsPlane, moduleUp, turns, stopped, reply, output, failures, succeeded>>

\* The input can no longer be read.
ScanFails ==
    /\ doing = "scan" /\ Exits("failed")
    /\ UNCHANGED <<input, stopOnError, at, docsPlane, moduleUp, turns, stopped, reply, output, failures, succeeded>>

\* batchPlanes: the module is opened once, and what came of it is remembered.
Opened == IF docsPlane = "unopened" THEN IF moduleUp THEN "open" ELSE "failed" ELSE docsPlane

Serves(line) == line = "core" \/ (line = "docs" /\ docsPlane' = "open" /\ moduleUp)

ForgetsFailure(ok) == UNCHANGED failures
CountsFailure(ok) == failures' = IF ok THEN failures ELSE failures + 1

\* One request: what is not served fails, and so may what is; a cancelled one gets no answer.
AskPlane ==
    /\ doing = "ask"
    /\ docsPlane' = IF input[at] = "docs" THEN Opened ELSE docsPlane
    /\ \E ok \in IF Serves(input[at]) /\ ~stopped THEN BOOLEAN ELSE {FALSE} :
        /\ reply' = [line |-> at, ok |-> ok]
        /\ CountsFailure(ok)
        /\ succeeded' = IF ok THEN succeeded \cup {at} ELSE succeeded
    /\ doing' = "write"
    /\ UNCHANGED <<input, stopOnError, at, moduleUp, turns, stopped, output>>

\* It is written and flushed; whoever reads may be gone.
Write ==
    /\ doing = "write"
    /\ \/ /\ output' = Append(output, reply)
          /\ IF ~reply.ok /\ stopOnError THEN Exits("failed") ELSE doing' = "scan"
       \/ Exits("failed") /\ UNCHANGED output
    /\ UNCHANGED <<input, stopOnError, at, docsPlane, moduleUp, turns, stopped, reply, failures, succeeded>>

Running == doing \in {"scan", "ask", "write"}

Interrupt ==
    /\ Running /\ ~stopped /\ stopped' = TRUE
    /\ UNCHANGED <<input, stopOnError, at, doing, docsPlane, moduleUp, turns, reply, output, failures, succeeded>>

ModuleTurns ==
    /\ Running /\ turns < Turns
    /\ turns' = turns + 1 /\ moduleUp' = ~moduleUp
    /\ UNCHANGED <<input, stopOnError, at, doing, docsPlane, stopped, reply, output, failures, succeeded>>

BatchInit ==
    /\ input \in SeqOf(Lines, MaxLines) /\ stopOnError \in BOOLEAN
    /\ at = 0 /\ doing = "scan" /\ docsPlane = "unopened" /\ moduleUp \in BOOLEAN /\ turns = 0
    /\ stopped = FALSE /\ reply = [line |-> 0, ok |-> TRUE] /\ output = <<>> /\ failures = 0 /\ succeeded = {}

BatchNext == Scan \/ ScanFails \/ AskPlane \/ Write \/ Interrupt \/ ModuleTurns

-----------------------------------------------------------------------------
(* Properties.                                                             *)

Requests == {n \in DOMAIN input : input[n] \notin {"blank", "nonsense"}}

\* "So a script can check once at the end" (batch.go:77-79): the status is zero only if every line
\* was read and each request was served and answered, in order, and whatever the
\* status a reply says what became of its own line.
BatchHonest ==
    /\ \A k \in DOMAIN output :
        /\ output[k].ok <=> output[k].line \in succeeded
        /\ k > 1 => output[k - 1].line < output[k].line
    /\ doing = "ok" =>
        {output[k].line : k \in DOMAIN output} = Requests /\ succeeded = Requests
            /\ \A n \in DOMAIN input : input[n] # "nonsense"
=============================================================================

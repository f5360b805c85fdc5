-------------------------- MODULE FeedbackExecution --------------------------
(* The feedback tester of physical circuits (execution.py): a queue of       *)
(* events in order of time, completions before results of the same instant.  *)
(* A completion releases what waited for the operation, a result what waited *)
(* for the bit; each released operation starts at once.                      *)
EXTENDS PhysicalCircuit

VARIABLES
  remaining,    \* unfinished predecessors of each operation
  queue,        \* events <<time, kind, operation>>
  waiting,      \* released operations whose bit is not there
  results,      \* the bits that are there, by measurement
  reports,      \* when each measurement's bit was delivered
  operations    \* status, start and end of the operations that started

execution == <<remaining, queue, waiting, results, reports, operations>>

\* start: an operation on the branch not taken takes no time.
Event(n, at, known) ==
  LET enabled == Conditioned(n) => known[Asked(n)] = Wants(n) IN
  [status |-> IF enabled THEN "executed" ELSE "skipped",
   start |-> at, end |-> IF enabled THEN at + Lasts(n) ELSE at]

MayStart(n, known) == Conditioned(n) => Asked(n) \in DOMAIN known

\* Of the released operations, those that start do, and their completions are
\* queued; the others wait for their bit.
Events(released, at, known) ==
  [n \in {m \in released : MayStart(m, known)} |-> Event(n, at, known)]

Completions(events) == {<<events[n].end, "complete", n>> : n \in DOMAIN events}

NoBits == [r \in {} |-> 0]

ExecutionInit ==
  LET roots == {n \in Nodes : Predecessors(n) = {}} IN
  /\ remaining = [n \in Nodes |-> Cardinality(Predecessors(n))]
  /\ operations = Events(roots, 0, NoBits)
  /\ queue = Completions(operations)
  /\ waiting = roots \ DOMAIN operations
  /\ results = NoBits /\ reports = NoBits

\* Tuples compare by time, then kind, then operation.
Earlier(e, f) ==
  \/ e[1] < f[1]
  \/ e[1] = f[1] /\ e[2] = "complete" /\ f[2] = "result"
  \/ e[1] = f[1] /\ e[2] = f[2] /\ e[3] =< f[3]

\* Variant: the events are taken as they were queued, lowest operation first.
LowestFirst(e) == \A f \in queue : e[3] =< f[3]

Earliest(e) == \A f \in queue : Earlier(e, f)

\* Variant: a completion does not look whether the bit is there.
CompleteUnasked(e) ==
  LET n == e[3]
      released == {m \in Successors(n) : remaining[m] = 1}
      events == [m \in released |-> Event(m, e[1], bits)]
      report == IF Name(n) = "measure" THEN {<<e[1] + pace.latency, "result", n>>} ELSE {}
  IN
  /\ e[2] = "complete"
  /\ remaining' = [m \in Nodes |-> remaining[m] - IF m \in Successors(n) THEN 1 ELSE 0]
  /\ operations' = Joined(events, operations)
  /\ queue' = (queue \ {e}) \cup Completions(events) \cup report
  /\ UNCHANGED <<results, reports, waiting>>

Complete(e) ==
  LET n == e[3]
      released == {m \in Successors(n) : remaining[m] = 1}
      events == Events(released, e[1], results)
      report == IF Name(n) = "measure" THEN {<<e[1] + pace.latency, "result", n>>} ELSE {}
  IN
  /\ e[2] = "complete"
  /\ remaining' = [m \in Nodes |-> remaining[m] - IF m \in Successors(n) THEN 1 ELSE 0]
  /\ operations' = Joined(events, operations)
  /\ queue' = (queue \ {e}) \cup Completions(events) \cup report
  /\ waiting' = waiting \cup (released \ DOMAIN events)
  /\ UNCHANGED <<results, reports>>

\* Variant: a result releases nothing that waits for it.
ReportUnheard(e) ==
  /\ e[2] = "result"
  /\ results' = Joined([r \in {Result(e[3])} |-> bits[e[3]]], results)
  /\ reports' = Joined([m \in {e[3]} |-> e[1]], reports)
  /\ queue' = queue \ {e}
  /\ UNCHANGED <<remaining, operations, waiting>>

Report(e) ==
  LET n == e[3]
      known == Joined([r \in {Result(n)} |-> bits[n]], results)
      events == Events({m \in waiting : Asked(m) = Result(n)}, e[1], known)
  IN
  /\ e[2] = "result"
  /\ results' = known
  /\ reports' = Joined([m \in {n} |-> e[1]], reports)
  /\ operations' = Joined(events, operations)
  /\ queue' = (queue \ {e}) \cup Completions(events)
  /\ waiting' = waiting \ DOMAIN events
  /\ UNCHANGED remaining

ExecutionStep == \E e \in queue : Earliest(e) /\ (Complete(e) \/ Report(e))

Executed == queue = {}

\* The completions that were handled.
Completed == {n \in DOMAIN operations : \A e \in queue : e # <<operations[n].end, "complete", n>>}
=============================================================================

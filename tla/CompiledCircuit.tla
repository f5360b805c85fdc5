--------------------------- MODULE CompiledCircuit ---------------------------
(* A circuit through its three readers: the feedback tester runs it, the     *)
(* compiler lowers it, and the timing checks read what the compiler returned *)
(* or a result that differs from it a little.  The readers share the circuit *)
(* and the backend only, so one after the other is as good as any order.     *)
EXTENDS FeedbackExecution, CompilationLoop, TimingChecks

CONSTANTS
  Altered,          \* circuits whose results are altered before they are checked
  MaxAlterations,   \* of a result
  NoResult          \* the compiler has not returned yet

VARIABLES
  result,       \* what is checked
  alterations

vars == <<input, execution, compilation, result, alterations>>

\* CompilationResult, as its program and its records tell.
Returned ==
  [decisions |-> decisions,
   spans |-> [n \in {m \in DOMAIN decisions : decisions[m].status = "emitted"} |->
                [start |-> decisions[n].start, end |-> decisions[n].end]],
   measured |-> [ref \in DOMAIN records |-> records[ref].end],
   records |-> [ref \in DOMAIN records |-> [value |-> records[ref].value, at |-> records[ref].at]]]

Init ==
  /\ InputInit /\ ExecutionInit /\ CompilationInit
  /\ result = NoResult /\ alterations = 0

Execute == ExecutionStep /\ UNCHANGED <<input, compilation, result, alterations>>

Compile ==
  /\ Executed
  /\ CompilationStep
  /\ result' = IF Compiled' THEN Returned' ELSE NoResult
  /\ UNCHANGED <<input, execution, alterations>>

Without(f, x) == [y \in DOMAIN f \ {x} |-> f[y]]
Moved(span, by) == [span EXCEPT !.start = @ + by, !.end = @ + by]

\* The results near one: an operation's actions are elsewhere or gone, or they
\* are elsewhere with its record; a decision or a bit is another, or later or
\* earlier, or gone.
Forth == {1, 0 - 1}

NearSpans(r) ==
  {[r EXCEPT !.spans[n] = Moved(@, by)] : n \in DOMAIN r.spans, by \in Forth}
  \cup {[r EXCEPT !.spans = Without(@, n)] : n \in DOMAIN r.spans}

Rerun(r, n, by) == [r EXCEPT !.spans[n] = Moved(@, by), !.decisions[n] = Moved(@, by)]
NearRuns(r) == {Rerun(r, n, by) : n \in DOMAIN r.spans, by \in Forth}

NearDecisions(r) ==
  {[r EXCEPT !.decisions[n].status = t] :
     n \in DOMAIN r.decisions, t \in {"emitted", "skipped", "metadata"}}
  \cup {[r EXCEPT !.decisions = Without(@, n)] : n \in DOMAIN r.decisions}

NearRecords(r) ==
  {[r EXCEPT !.records[ref].value = 1 - @] : ref \in DOMAIN r.records}
  \cup {[r EXCEPT !.records[ref].at = @ + by] : ref \in DOMAIN r.records, by \in Forth}
  \cup {[r EXCEPT !.records = Without(@, ref)] : ref \in DOMAIN r.records}
  \cup {[r EXCEPT !.measured = Without(@, ref)] : ref \in DOMAIN r.measured}

Near(r) == NearSpans(r) \cup NearRuns(r) \cup NearDecisions(r) \cup NearRecords(r)

Alter ==
  /\ circuit \in Altered
  /\ result # NoResult /\ alterations < MaxAlterations
  /\ result' \in Near(result)
  /\ \A n \in DOMAIN result'.spans : result'.spans[n].start >= 0
  /\ alterations' = alterations + 1
  /\ UNCHANGED <<input, execution, compilation>>

Next == Execute \/ Compile \/ Alter

Spec == Init /\ [][Next]_vars /\ WF_vars(Execute) /\ WF_vars(Compile)

-----------------------------------------------------------------------------
(* Properties.                                                               *)

\* What the tester should decide about an operation, read off the circuit and
\* its other decisions: it starts when the last of the operations before it has
\* ended and, if it is conditioned, not before its bit.
Due(n) ==
  LET reads == circuit.ops[n].reads
      start == Max({0} \cup {operations[m].end : m \in Predecessors(n)}
                   \cup (IF reads = NoRead THEN {} ELSE {operations[reads].end + pace.latency}))
      taken == reads = NoRead \/ bits[reads] = Wants(n)
  IN  [status |-> IF taken THEN "executed" ELSE "skipped",
       start |-> start, end |-> IF taken THEN start + Lasts(n) ELSE start]

\* The tester, one event at a time off a queue, gives every operation exactly
\* the decision and the earliest time the circuit, the durations and the
\* latency allow, whatever order the events come in.  (What an operation is due
\* depends on earlier ones only, so there is one such schedule.)
TesterEarliest ==
  Executed =>
    /\ DOMAIN operations = Nodes
    /\ \A n \in Nodes : operations[n] = Due(n)
    /\ reports = [m \in Measurements |-> operations[m].end + pace.latency]

Tester == INSTANCE DependencyProgress WITH
  done <- Completed,
  acted <- {n \in Completed : operations[n].status = "executed"},
  heard <- {m \in Measurements : m \in DOMAIN reports}

Compiler == INSTANCE DependencyProgress WITH
  done <- DOMAIN decisions,
  acted <- {n \in DOMAIN decisions : decisions[n].status # "skipped"},
  heard <- {m \in Measurements :
              Result(m) \in DOMAIN records /\ records[Result(m)].at =< clock}

\* Both readers implement DependencyProgress: an operation is done only after
\* those before it and after the bit it reads was delivered, and it acts
\* exactly if its own measurement, not a later one in the same classical bit,
\* said so.
ReadersKeepOrder == Tester!Safe /\ Compiler!Safe

\* The next CZ layer the compiler previews, and may place atoms for, is the
\* next one it lowers, if no bit was still on its way when the layer it was
\* previewed for ended.
PreviewExact ==
  [][(chosen' # chosen /\ following.exact /\ following.layer # NoLayer
      /\ \E n \in chosen' : Name(n) = "cz") => chosen' = following.layer]_vars

\* The loop stops with "Ready conditions have no compiled measurement".
Starved == ready # {} /\ TimeReady = {} /\ Pending = {}

\* The operation's measurement is conditioned itself, on the branch not taken:
\* the compiler records no bit for it, while the tester reports one.
Unanswered(n) ==
  LET m == circuit.ops[n].reads
  IN  Conditioned(n) /\ Conditioned(m) /\ bits[circuit.ops[m].reads] # Wants(m)

\* The loop stops so only at an operation that reads a skipped measurement, and
\* no circuit that has one is compiled; all others are never stopped, also if
\* nothing orders an operation after the measurement it reads.
StopsForCause ==
  /\ Starved => \E n \in ready : Unanswered(n)
  /\ Compiled => \A n \in Nodes : ~Unanswered(n)

\* The tester comes to the end of every circuit, the compiler too or it stops.
Finishes == <>Executed /\ <>(Compiled \/ Starved)

\* Everything each operation must come after.
Ancestors ==
  LET up[n \in Nodes] ==
        LET before == Predecessors(n) IN before \cup UNION {up[m] : m \in before}
  IN up

\* A result is right: the operations with actions are those on the branches
\* the recorded bits take, each ran after every one before it and after every
\* bit on the way to it, and the records say what the program does.
Right(r) ==
  LET ancestors == Ancestors IN
  /\ DOMAIN r.decisions = Nodes /\ DOMAIN r.records = DOMAIN r.measured
  /\ \A n \in Nodes : LET reads == circuit.ops[n].reads IN
       /\ reads # NoRead => reads \in DOMAIN r.records
       /\ LET taken == reads # NoRead => r.records[reads].value = Wants(n)
              plain == Name(n) \in {"barrier", "global_phase"}
          IN  /\ n \in DOMAIN r.spans <=> taken /\ ~plain
              /\ r.decisions[n].status = IF ~taken THEN "skipped"
                                         ELSE IF plain THEN "metadata" ELSE "emitted"
  /\ \A n \in DOMAIN r.spans :
       /\ r.decisions[n].start = r.spans[n].start /\ r.decisions[n].end = r.spans[n].end
       /\ \A m \in ancestors[n] \cap DOMAIN r.spans : r.spans[m].end =< r.spans[n].start
       /\ \A m \in ancestors[n] \cup {n} : LET reads == circuit.ops[m].reads IN
            reads # NoRead => /\ r.spans[n].start >= r.measured[reads] + pace.latency
                              /\ r.spans[n].start >= r.records[reads].at
  /\ \A m \in DOMAIN r.measured : r.records[m].at >= r.measured[m] + pace.latency

\* The timing checks accept a result exactly if it is right, though they look
\* at neighbours only; and what the compiler returns is right.
ChecksExact ==
  result # NoResult => /\ Accepts(result) <=> Right(result)
                       /\ alterations = 0 => Accepts(result)
=============================================================================

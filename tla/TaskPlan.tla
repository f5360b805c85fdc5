------------------------------ MODULE TaskPlan ------------------------------
(***************************************************************************)
(* The durable task plan of an experiment campaign (task_plan.py) and the  *)
(* worker loop that runs it (runner.py): one runner process at a time,     *)
(* child processes that answer, hang or die, and files that survive them   *)
(* all.                                                                    *)
(*                                                                         *)
(* disk is what the files hold, mem what the runner holds.  A handler is   *)
(* computed on a record [disk, mem, log] whose log keeps the disk after    *)
(* each of its durable writes: the handler's step takes the last one, and  *)
(* a crash in the middle of it leaves any of them and no memory (Halt).    *)
(* An interrupted append counts as written or as not written, which is     *)
(* what read_records makes of it.                                          *)
(*                                                                         *)
(* Storage is sampled, so what a sample says is chosen freely; the clock   *)
(* of the campaign only passes its two deadlines.  A memory kill and a     *)
(* worker that reports budget_exceeded are one answer, and so are a        *)
(* reported error, a non-zero exit and an unreadable output.               *)
(***************************************************************************)
EXTENDS Integers, FiniteSets, Sequences, SequencesExt, FiniteSetsExt

CONSTANTS
    Tasks,          \* every task that can come to exist
    Needs,          \* the dependencies in each task's definition
    Requests,       \* the dependency requests each task's worker may answer with
    Order,          \* the tasks in the order of their identities
    Campaigns       \* plan documents, each with the bounds of its runs

(* Every dependency is a task, and no task waits for itself.               *)
WellFounded(known, edges) ==
    /\ \A t \in known : edges[t] \subseteq known
    /\ \A some \in SUBSET known : some # {} => \E t \in some : edges[t] \cap some = {}

ASSUME TaskPlanAssumption ==
    /\ Order \in Seq(Tasks) /\ ToSet(Order) = Tasks /\ Len(Order) = Cardinality(Tasks)
    /\ Needs \in [Tasks -> SUBSET Tasks]
    /\ \A t \in Tasks : Requests[t] \subseteq SUBSET Tasks
    /\ \A c \in Campaigns :
          /\ c.plan \subseteq Tasks /\ WellFounded(c.plan, Needs)
          /\ c.finalizers \subseteq (c.plan \cap c.terminalMode)
          /\ \A t \in c.plan \ c.finalizers : Needs[t] \cap c.finalizers = {}
          /\ c.workers \in Nat \ {0} /\ c.attempts \in Nat \ {0} /\ c.refreshes \in Nat
          /\ c.clocks \subseteq {"reserve", "over"}
          /\ "fits" \in c.samples /\ c.samples \subseteq {"fits", "reserve", "brims", "full"}

VARIABLES
    disk,       \* the campaign directory
    mem,        \* the runner's TaskPlanState and loop variables
    worker,     \* what the child of each task has done so far
    orphans,    \* <<task, attempt>> of children that outlived their runner
    healthy,    \* tasks whose artifacts are complete and unaltered
    resting,    \* deferred tasks whose not_before lies ahead
    clock,      \* "working", past the "reserve" deadline, or "over"
    spent,      \* starts, damages and deferrals so far
    campaign    \* the campaign that is run, one of Campaigns

vars == <<disk, mem, worker, orphans, healthy, resting, clock, spent>>

Plan == campaign.plan                   \* the tasks of the plan document
TerminalMode == campaign.terminalMode   \* tasks that wait for their dependencies to
                                        \* end, not to succeed
Finalizers == campaign.finalizers       \* the plan's finalization tasks
Workers == campaign.workers             \* how many children run at once
MaxAttempts == campaign.attempts        \* software failures a task may have
MaxRefreshes == campaign.refreshes      \* times damaged artifacts are made again
MaxStarts == campaign.starts            \* bound: how often the campaign is started
MaxDamage == campaign.damage            \* bound: how many artifacts are damaged
MaxDeferrals == campaign.deferrals      \* bound: how many answers defer
Clocks == campaign.clocks               \* bound: which of the deadlines can pass
Samples == campaign.samples             \* bound: what a storage sample can find

Verdicts == {"ok", "software_error", "blocked", "budget_exceeded"}

(* A completion; result is the attempt whose result it points to, or 0.    *)
NoRow == [status |-> "none", attempts |-> 0, result |-> 0]

Row == [status : Verdicts \cup {"none", "invalidated"}, attempts : Nat, result : Nat]

(* Run identities besides the attempts 1, 2, ... of a task.                *)
TerminalRun == 0
ExhaustedRun == -1

Each(value) == [t \in Tasks |-> value]

EmptyDirectory ==
    [registry |-> {}, edges |-> Each({}), replays |-> Each({}),
     dispatches |-> Each(0), rows |-> Each({}), doubled |-> {},
     failures |-> Each(0), completion |-> Each(NoRow), voided |-> Each(-1),
     requeued |-> Each(0), refused |-> {}, results |-> Each(0), workStop |-> FALSE]

(* A completion counts unless it is an ok whose artifacts were found       *)
(* damaged since.                                                          *)
Stands(d, t) ==
    /\ d.completion[t].status \in Verdicts
    /\ d.completion[t].status = "ok" => d.completion[t].attempts > d.voided[t]

Known(d) == Plan \cup d.registry

Edges(d) == [t \in Tasks |-> IF t \in Known(d) THEN Needs[t] \cup d.edges[t] ELSE {}]

(* The memory of a runner that has read the directory.                     *)
Loaded(d) ==
    [phase |-> "survey", known |-> Known(d), edges |-> Edges(d), replays |-> d.replays,
     attempts |-> d.dispatches, failures |-> d.failures, refreshes |-> d.requeued,
     completed |-> [t \in Tasks |-> IF Stands(d, t) THEN d.completion[t] ELSE NoRow],
     stop |-> FALSE, workStop |-> d.workStop,
     inflight |-> {}, pending |-> <<>>, active |-> <<>>, polling |-> <<>>]

Off == [Loaded(EmptyDirectory) EXCEPT !.phase = "off"]

Idle == [kind |-> "idle", asks |-> {}]
Said(kind) == [kind |-> kind, asks |-> {}]

Init ==
    /\ campaign \in Campaigns
    /\ disk = EmptyDirectory
    /\ mem = Off
    /\ worker = Each(Idle)
    /\ orphans = {}
    /\ healthy = {}
    /\ resting = {}
    /\ clock = "working"
    /\ spent = [starts |-> 0, damages |-> 0, deferrals |-> 0]

-----------------------------------------------------------------------------
(* Reading and writing the directory.                                      *)

(* What makes the runner refuse to start on a directory.                   *)
Refused(d) ==
    \/ d.doubled # {}
    \/ ~WellFounded(Known(d), Edges(d))
    \/ \E t \in Tasks \ Known(d) : d.edges[t] # {} \/ d.completion[t] # NoRow
    \/ \E t \in Tasks : /\ Stands(d, t)
                        /\ d.completion[t].result \notin {0, d.results[t]}

Handling(m) == [disk |-> disk, mem |-> m, log |-> <<disk>>]

Write(s, d) == IF d = s.disk THEN s ELSE [s EXCEPT !.disk = d, !.log = Append(s.log, d)]

Campaign(s) == Write(s, [s.disk EXCEPT !.workStop = s.mem.workStop])

Ended(s, t) == s.mem.completed[t] # NoRow

(* One row of task_attempts.jsonl.                                         *)
Logged(d, t, run, status) ==
    [d EXCEPT !.rows[t] = @ \cup {run},
              !.doubled = IF run \in d.rows[t] THEN @ \cup {t} ELSE @,
              !.failures[t] = IF status = "software_error" THEN @ + 1 ELSE @]

(* The result file, which goes again, and the campaign with it, if it      *)
(* brims the storage.  Only a success writes results/<task>.json.          *)
Publish(s, t, ok, brims) ==
    LET put == IF ok THEN Write(s, [s.disk EXCEPT !.results[t] = s.mem.attempts[t]]) ELSE s
        cut == IF ok THEN Write(put, [put.disk EXCEPT !.results[t] = 0]) ELSE put
    IN  IF brims THEN [cut EXCEPT !.mem.stop = TRUE] ELSE put

\* Variant: the row comes before the completion file.
SettleRowFirst(s, t, row, run, terminal) ==
    LET told == Write(s, Logged(s.disk, t, run, row.status))
    IN  Campaign(IF terminal
                 THEN [Write(told, [told.disk EXCEPT !.completion[t] = row])
                         EXCEPT !.mem.completed[t] = row]
                 ELSE told)

(* The completion file comes before the row: a verdict is never lost.      *)
Settle(s, t, row, run, terminal) ==
    LET kept == IF terminal
                THEN [Write(s, [s.disk EXCEPT !.completion[t] = row])
                        EXCEPT !.mem.completed[t] = row]
                ELSE s
    IN  Campaign(Write(kept, Logged(kept.disk, t, run, row.status)))

Record(s, t, status, run, terminal, brims) ==
    LET n    == s.mem.attempts[t]
        good == status = "ok" /\ ~brims
        row  == [status |-> IF brims THEN "budget_exceeded" ELSE status,
                 attempts |-> n, result |-> IF good THEN n ELSE 0]
    IN  Settle(Publish(s, t, status = "ok", brims), t, row, run, terminal \/ brims)

(* A success whose artifacts are damaged is withdrawn, and queued again    *)
(* while the task has refreshes left.                                      *)
Invalidate(s, t) ==
    LET again   == s.mem.refreshes[t] < MaxRefreshes
        audited == Write(s, [s.disk EXCEPT
                                !.voided[t] = s.mem.completed[t].attempts,
                                !.requeued[t] = IF again THEN @ + 1 ELSE @,
                                !.refused = IF again THEN @ \ {t} ELSE @ \cup {t}])
        open    == [audited EXCEPT !.mem.completed[t] = NoRow]
    IN  IF again
        THEN [Write(open, [open.disk EXCEPT !.completion[t].status = "invalidated",
                                            !.completion[t].result = 0])
                EXCEPT !.mem.refreshes[t] = @ + 1]
        ELSE Record(open, t, "budget_exceeded", ExhaustedRun, TRUE, FALSE)

\* Variant: failures have artifacts to lose, too.
InvalidateAnyDamaged(s, t) ==
    IF Ended(s, t) /\ t \notin healthy THEN Invalidate(s, t) ELSE s

InvalidateDamaged(s, t) ==
    IF s.mem.completed[t].status = "ok" /\ t \notin healthy THEN Invalidate(s, t) ELSE s

-----------------------------------------------------------------------------
(* What the loops do to one task.                                          *)

Register(s, t) == Write(s, [s.disk EXCEPT !.registry = @ \cup {t}])

MarkInvalidated(s, t) ==
    IF s.disk.completion[t].status = "ok" /\ ~Stands(s.disk, t)
    THEN Write(s, [s.disk EXCEPT !.completion[t].status = "invalidated"]) ELSE s

\* Variant: what is reserved counts as running.
OpenUnreserved(s, ts) == {t \in ts \cap s.mem.known : ~Ended(s, t) /\ t \notin s.mem.inflight}

(* What a budget can still stop: running children are stopped by Poll.     *)
Open(s, ts) == {t \in ts \cap s.mem.known : ~Ended(s, t) /\ t \notin ToSet(s.mem.active)}

Expire(s, t, ts) ==
    IF t \in Open(s, ts)
    THEN Record(s, t, "budget_exceeded", TerminalRun, TRUE, FALSE) ELSE s

(* Every task that can run is reserved, one that never can is blocked.     *)
FailedNeeds(s, t) == {x \in s.mem.edges[t] : Ended(s, x) /\ s.mem.completed[x].status # "ok"}

\* Variant: a task waits for the dependencies of its definition only.
MayRunEarly(s, t) ==
    /\ ~s.mem.stop
    /\ ~s.mem.workStop \/ t \in Finalizers
    /\ \A x \in Needs[t] : Ended(s, x)
    /\ t \notin resting

MayRun(s, t) ==
    /\ ~s.mem.stop
    /\ ~s.mem.workStop \/ t \in Finalizers
    /\ \A x \in s.mem.edges[t] : Ended(s, x)
    /\ t \notin resting

Ready(s, t) ==
    IF t \notin s.mem.known \/ Ended(s, t) \/ t \in s.mem.inflight THEN s
    ELSE IF FailedNeeds(s, t) # {} /\ t \notin TerminalMode
    THEN Record(s, t, "blocked", TerminalRun, TRUE, FALSE)
    ELSE IF MayRun(s, t)
    THEN [s EXCEPT !.mem.inflight = @ \cup {t}, !.mem.pending = Append(@, t)]
    ELSE s

(* One turn of a loop over tasks, and the whole loop.                      *)
Turn(loop, s, t) ==
    CASE loop = "register" -> Register(s, t)
      [] loop = "mark"     -> MarkInvalidated(s, t)
      [] loop = "withdraw" -> InvalidateDamaged(s, t)
      [] loop = "expire"   -> Expire(s, t, Tasks)
      [] loop = "stop"     -> Expire(s, t, Tasks \ Finalizers)
      [] loop = "ready"    -> Ready(s, t)

Over(ts, loop, s) ==
    LET run[i \in 0..Len(Order)] ==
            IF i = 0 THEN s
            ELSE IF Order[i] \in ts THEN Turn(loop, run[i - 1], Order[i]) ELSE run[i - 1]
    IN  run[Len(Order)]

-----------------------------------------------------------------------------
(* The handlers of TaskPlanState.                                          *)

SaveEdges(s, t) == Write(s, [s.disk EXCEPT !.edges[t] = s.mem.edges[t] \ Needs[t]])
SaveReplays(s, t) == Write(s, [s.disk EXCEPT !.replays[t] = s.mem.replays[t]])

\* Variant: a replay is not put on disk.
SaveDefinitionsOnly(s, asks, t) == SaveEdges(Over(asks, "register", s), t)

(* New definitions, then the edges to them, then the replay they justify.  *)
SaveDefinitions(s, asks, t) == SaveReplays(SaveEdges(Over(asks, "register", s), t), t)

(* A worker's request for dependencies.  Asking again for what stood       *)
(* complete and healthy when it was last asked for is an error: the worker *)
(* would miss it for ever.                                                 *)
Asked(s, t, asks) ==
    LET known == s.mem.known \cup asks
        edges == [x \in Tasks |->
                    (IF x \in asks \ s.mem.known THEN Needs[x] ELSE s.mem.edges[x])
                    \cup (IF x = t THEN asks ELSE {})]
    IN  [s EXCEPT !.mem.known = known, !.mem.edges = edges]

\* Variant: what is asked for may wait for who asks.
MayAskAnything(s, t, asks) == t \notin Finalizers /\ asks # {}

MayAsk(s, t, asks) ==
    /\ t \notin Finalizers
    /\ asks # {}
    /\ WellFounded(Asked(s, t, asks).mem.known, Asked(s, t, asks).mem.edges)

Generation(s, asks) == [x \in asks |-> s.mem.completed[x].attempts]

AllOk(s, asks) == \A x \in asks : s.mem.completed[x].status = "ok"

Checked(s, t, asks) == Over(asks, "withdraw", Asked(s, t, asks))

\* Variant: no replay is remembered.
ReplayedNever(s, t, asks) == FALSE

Replayed(s, t, asks) == AllOk(s, asks) /\ Generation(s, asks) \in s.mem.replays[t]

Depend(s, t, asks) ==
    LET replays == IF AllOk(s, asks) THEN {Generation(s, asks)} ELSE {}
    IN  SaveDefinitions([s EXCEPT !.mem.replays[t] = @ \cup replays], asks, t)

(* What was asked for has been looked up: it is missing, or was missed.   *)
Looked(s, t, asks) ==
    IF Replayed(s, t, asks) THEN [s |-> s, status |-> "software_error"]
    ELSE [s |-> Depend(s, t, asks), status |-> "needs_dependencies"]

(* The state after a request, and what its answer counts as.               *)
Requested(s, t, asks) ==
    IF ~MayAsk(s, t, asks) THEN [s |-> s, status |-> "software_error"]
    ELSE Looked(Checked(s, t, asks), t, asks)

\* Variant: one failure too many.
OutOfTriesLate(s, t) == s.mem.failures[t] > MaxAttempts

OutOfTries(s, t) == s.mem.failures[t] >= MaxAttempts

(* An answer becomes a row, and a verdict if the task need not run again.  *)
Finish(s, t, answer, sample) ==
    LET over == clock = "over" \/ sample = "full"
        left == [s EXCEPT !.mem.inflight = @ \ {t}]
        seen == [left EXCEPT !.mem.stop = @ \/ over]
        told == IF over THEN [s |-> seen, status |-> "budget_exceeded"]
                ELSE IF answer.kind = "needs_dependencies" THEN Requested(seen, t, answer.asks)
                ELSE IF answer.kind = "ok" /\ t \notin healthy
                THEN [s |-> seen, status |-> "software_error"]
                ELSE [s |-> seen, status |-> answer.kind]
        charged == IF told.status = "software_error"
                   THEN [told.s EXCEPT !.mem.failures[t] = @ + 1] ELSE told.s
        terminal == \/ told.status \in {"ok", "budget_exceeded"}
                    \/ told.status = "software_error" /\ OutOfTries(charged, t)
    IN  IF Ended(s, t) THEN left
        ELSE Record(charged, t, told.status, s.mem.attempts[t], terminal, sample = "brims")

ExpirePending(s) == Over(Tasks, "expire", [s EXCEPT !.mem.stop = TRUE])

HardStop(s, sample) == s.mem.stop \/ clock = "over" \/ sample = "full"

(* Ordinary work ends at the reserve, which is the finalizers'.            *)
Pressed(s, sample) ==
    /\ Finalizers # {}
    /\ \E t \in s.mem.known \ Finalizers : ~Ended(s, t)
    /\ clock = "reserve" \/ sample = "reserve"

StopWork(s) ==
    Campaign(Over(Tasks, "stop", [s EXCEPT !.mem.workStop = TRUE]))

CheckBudgets(s, sample) ==
    IF HardStop(s, sample) THEN ExpirePending(s)
    ELSE IF s.mem.workStop \/ Pressed(s, sample) THEN StopWork(s) ELSE s

ReadyRuns(s) == Over(Tasks, "ready", s)

\* Variant: the attempt is counted in memory only.
DispatchedUnsaved(s, t) == [s EXCEPT !.mem.attempts[t] = @ + 1]

Dispatched(s, t) ==
    LET counted == [s EXCEPT !.mem.attempts[t] = @ + 1]
    IN  Write(counted, [s.disk EXCEPT !.dispatches[t] = counted.mem.attempts[t]])

-----------------------------------------------------------------------------
(* The runner.                                                             *)

(* The runner dies after any of the writes, with or without its children.  *)
Halt(s) ==
    /\ spent.starts < MaxStarts
    /\ disk' \in ToSet(s.log)
    /\ mem' = Off
    /\ worker' = Each(Idle)
    /\ LET running == {<<t, mem.attempts[t]>> : t \in ToSet(mem.active)}
       IN  orphans' \in {orphans, orphans \cup running}
    /\ UNCHANGED <<healthy, resting, clock, spent>>

Commit(s, children, later) ==
    /\ disk' = s.disk
    /\ mem' = s.mem
    /\ worker' = children
    /\ resting' = later
    /\ UNCHANGED <<orphans, healthy, clock, spent>>

Do(s) == Commit(s, worker, resting) \/ Halt(s)

Goto(s, phase) == [s EXCEPT !.mem.phase = phase]

(* Reading a directory registers the plan, and withdraws what was damaged  *)
(* while nobody watched.                                                   *)
Start ==
    /\ mem.phase \in {"off", "done"}
    /\ spent.starts < MaxStarts
    /\ ~Refused(disk)
    /\ LET named  == Over(Plan, "register", Handling(Loaded(disk)))
           marked == Over(Tasks, "mark", named)
           opened == Campaign(Over(Tasks, "withdraw", marked))
       IN  \/ disk' = opened.disk /\ mem' = opened.mem
           \/ /\ spent.starts + 1 < MaxStarts
              /\ disk' \in ToSet(opened.log) /\ mem' = Off
    /\ spent' = [spent EXCEPT !.starts = @ + 1]
    /\ UNCHANGED <<worker, orphans, healthy, resting, clock>>

Unfinished == \E t \in mem.known : mem.completed[t] = NoRow

(* The head of the loop: budgets, then the tasks that have become ready.   *)
Survey(sample) ==
    /\ mem.phase = "survey"
    /\ Unfinished \/ mem.active # <<>> \/ mem.pending # <<>>
    /\ LET s == Handling(mem)
           b == CheckBudgets(s, sample)
       IN  Do(Goto(IF HardStop(s, sample) THEN [b EXCEPT !.mem.pending = <<>>]
                   ELSE ReadyRuns(b), "dispatch"))

Return ==
    /\ mem.phase = "survey"
    /\ ~Unfinished /\ mem.active = <<>> /\ mem.pending = <<>>
    /\ Do(Goto(Campaign(Handling(mem)), "done"))

(* A child is started only after its attempt is on disk.                   *)
Launch(s, t) ==
    \/ Commit([s EXCEPT !.mem.active = Append(@, t)],
              [worker EXCEPT ![t] = Said("running")], resting)
    \/ Do(Finish(s, t, Said("software_error"), "fits"))

Room == Len(mem.active) < Workers

Dispatch(sample) ==
    /\ mem.phase = "dispatch"
    /\ mem.pending # <<>> /\ Room
    /\ LET t == Head(mem.pending)
           s == Handling([mem EXCEPT !.pending = Tail(@)])
           b == CheckBudgets(s, sample)
       IN  IF Ended(s, t) THEN Do(s)
           ELSE IF HardStop(s, sample) THEN Do([b EXCEPT !.mem.pending = <<>>])
           ELSE IF Ended(b, t) THEN Do(b)
           ELSE Launch(Dispatched(b, t), t)

BeginPolling ==
    /\ mem.phase = "dispatch"
    /\ mem.pending = <<>> \/ ~Room
    /\ Commit([disk |-> disk, mem |-> [mem EXCEPT !.phase = "collect", !.polling = mem.active]],
              worker, resting)

Stopped(t) == mem.stop \/ (mem.workStop /\ t \notin Finalizers)

(* What the runner takes the child to have said: one that has overrun its  *)
(* time without an exit is killed, whatever it was about to write.         *)
Taken(t) ==
    IF Stopped(t) THEN Said("budget_exceeded")
    ELSE IF worker[t].kind = "late" THEN Said("software_error")
    ELSE worker[t]

Poll(sample) ==
    /\ mem.phase = "collect" /\ mem.polling # <<>>
    /\ LET t == Head(mem.polling)
           s == Handling([mem EXCEPT !.polling = Tail(@)])
           f == Finish(s, t, Taken(t), sample)
       IN  IF worker[t].kind = "running" /\ ~Stopped(t)
           THEN Commit(s, worker, resting)
           ELSE \/ Commit([f EXCEPT !.mem.active = RemoveFirst(@, t)],
                          [worker EXCEPT ![t] = Idle],
                          IF Taken(t).kind = "deferred" THEN resting \cup {t} ELSE resting)
                \/ Halt(f)

Sleep ==
    /\ mem.phase = "collect" /\ mem.polling = <<>>
    /\ Commit([disk |-> disk, mem |-> [mem EXCEPT !.phase = "survey"]], worker, resting)

-----------------------------------------------------------------------------
(* The children and the world.                                             *)

Living(t) == worker[t].kind \in {"running", "late"}

(* What is asked for needs only what has come to an end before: a worker   *)
(* takes its pilots' results into the definitions it asks for.             *)
Grounded(d, asks) == \A x \in asks : \A need \in Needs[x] : d.completion[need] # NoRow

(* A task that waits for ends asks only for what has none on disk, any     *)
(* other for whatever its cache misses.                                    *)
MayMiss(t, asks) ==
    /\ Grounded(disk, asks)
    /\ t \in TerminalMode =>
           \A x \in asks : disk.completion[x].status \in {"none", "invalidated"}

Answers(t) ==
    {Said("ok"), Said("software_error"), Said("budget_exceeded")}
    \cup (IF spent.deferrals < MaxDeferrals THEN {Said("deferred")} ELSE {})
    \cup {[kind |-> "needs_dependencies", asks |-> asks] :
               asks \in {some \in Requests[t] : MayMiss(t, some)}}

Answer(t) ==
    /\ Living(t)
    /\ \E answer \in Answers(t) :
        /\ worker' = [worker EXCEPT ![t] = answer]
        /\ healthy' = IF answer.kind = "ok" THEN healthy \cup {t} ELSE healthy
        /\ spent' = IF answer.kind = "deferred"
                    THEN [spent EXCEPT !.deferrals = @ + 1] ELSE spent
    /\ UNCHANGED <<disk, mem, orphans, resting, clock>>

Overrun(t) ==
    /\ worker[t].kind = "running"
    /\ worker' = [worker EXCEPT ![t] = Said("late")]
    /\ UNCHANGED <<disk, mem, orphans, healthy, resting, clock, spent>>

Damage(t) ==
    /\ t \in healthy
    /\ spent.damages < MaxDamage
    /\ healthy' = healthy \ {t}
    /\ spent' = [spent EXCEPT !.damages = @ + 1]
    /\ UNCHANGED <<disk, mem, worker, orphans, resting, clock>>

Wake(t) ==
    /\ t \in resting
    /\ resting' = resting \ {t}
    /\ UNCHANGED <<disk, mem, worker, orphans, healthy, clock, spent>>

Pass(deadline) ==
    /\ clock # "over" /\ clock # deadline
    /\ clock' = deadline
    /\ UNCHANGED <<disk, mem, worker, orphans, healthy, resting, spent>>

(* Nothing is left to do.                                                  *)
Finished ==
    /\ mem.phase = "done" /\ spent.starts = MaxStarts
    /\ UNCHANGED vars

Run ==
    \/ \E sample \in Samples : Survey(sample) \/ Dispatch(sample) \/ Poll(sample)
    \/ BeginPolling \/ Sleep \/ Return

Child(t) == Answer(t) \/ Overrun(t)

Next ==
    /\ \/ Start
       \/ Run
       \/ \E t \in Tasks : Child(t) \/ Damage(t) \/ Wake(t)
       \/ \E deadline \in Clocks : Pass(deadline)
       \/ Finished
    /\ UNCHANGED campaign

Running == mem.phase \in {"survey", "dispatch", "collect"}

(* The loop polls for ever, and is never stuck while it runs; a child      *)
(* exits or overruns its time; a deferral's delay passes.  Nobody is bound *)
(* to start the campaign again.                                            *)
Spec ==
    /\ Init /\ [][Next]_<<vars, campaign>>
    /\ <>[]Running => []<><<Run>>_vars
    /\ \A t \in Tasks : WF_vars(Child(t)) /\ WF_vars(Wake(t))

-----------------------------------------------------------------------------
(* Properties.                                                             *)

TaskPlanTypeOK ==
    /\ disk.registry \subseteq Tasks /\ disk.doubled \subseteq Tasks
    /\ disk.refused \subseteq Tasks
    /\ disk.edges \in [Tasks -> SUBSET Tasks]
    /\ disk.completion \in [Tasks -> Row]
    /\ \A f \in {disk.dispatches, disk.failures, disk.requeued, disk.results} :
            f \in [Tasks -> Nat]
    /\ disk.voided \in [Tasks -> Nat \cup {-1}]
    /\ mem.phase \in {"off", "survey", "dispatch", "collect", "done"}
    /\ mem.known \subseteq Tasks /\ mem.inflight \subseteq mem.known
    /\ mem.completed \in [Tasks -> Row]
    /\ mem.stop \in BOOLEAN /\ mem.workStop \in BOOLEAN
    /\ ToSet(mem.pending) \cup ToSet(mem.active) \subseteq mem.inflight
    /\ Len(mem.active) <= Workers
    /\ {t \in Tasks : worker[t] # Idle} = ToSet(mem.active)
    /\ resting \subseteq Tasks /\ healthy \subseteq Tasks
    /\ clock \in {"working", "reserve", "over"}

(* However often the runner dies, and between whichever two writes, the    *)
(* next one can read the directory: no attempt is logged twice, no edge    *)
(* leads to a task without a definition, and the result a success points   *)
(* to is the one on disk (__init__, _record, _save_definitions).           *)
Resumable == ~Refused(disk)

(* Between two handlers the runner knows nothing it would not know again   *)
(* after a crash: status queries and restarts read what the loop decides   *)
(* by.  Only failures of a task that has its verdict may differ.           *)
NothingForgotten ==
    mem.phase # "off" =>
        LET again == Loaded(disk) IN
        /\ mem.known = again.known /\ mem.edges = again.edges
        /\ mem.replays = again.replays /\ mem.attempts = again.attempts
        /\ mem.refreshes = again.refreshes /\ mem.completed = again.completed
        /\ mem.workStop = again.workStop
        /\ \A t \in mem.known :
               mem.completed[t] = NoRow => mem.failures[t] = again.failures[t]

(* The directory can always be read again, and holds all the runner knows. *)
DiskSuffices == TaskPlanTypeOK /\ Resumable /\ NothingForgotten

(* A child never runs under an identity an earlier child still holds: a    *)
(* child that outlived its runner cannot answer for its successor          *)
(* (dispatched persists the attempt first).                                *)
RunsOwnAttempt ==
    \A t \in ToSet(mem.active) : <<t, mem.attempts[t]>> \notin orphans

(* A task fails at most max_attempts times over all starts, and no crash   *)
(* gives it another try (finish).                                          *)
FailuresBounded == \A t \in Tasks : disk.failures[t] <= MaxAttempts

(* An attempt is one child's alone, and counts in every later start.       *)
AttemptsKept == RunsOwnAttempt /\ FailuresBounded

(* Nor does a worker keep the campaign busy by asking for ever: every run  *)
(* of a task but one is owed to a start that lost it, a deferral, a        *)
(* failure or a refresh, or to a run of a dependency, which it missed once *)
(* and may replay once (_dependencies, finish).                            *)
RunsAccounted ==
    \A t \in Tasks :
        LET runs(x) == disk.dispatches[x]
        IN  runs(t) <= spent.starts + spent.deferrals + disk.failures[t]
                          + disk.requeued[t] + 2 * MapThenSumSet(runs, UNION Requests[t])

(* A verdict of failure is final, across every crash; a success is         *)
(* withdrawn only when its artifacts are damaged.                          *)
VerdictsStand ==
    [][\A t \in Tasks : Stands(disk, t) /\ ~(Stands(disk', t) /\ disk'.completion[t] = disk.completion[t])
            => disk.completion[t].status = "ok" /\ t \notin healthy]_vars

(* What its dependencies came to decides whether a task runs.  It is       *)
(* blocked only if it needs success and one of them has ended without; and *)
(* while a reserved task waits for its turn or runs, a dependency without  *)
(* a verdict is one whose success was withdrawn since (ready_runs,         *)
(* _dependencies).                                                         *)
DependenciesDecide ==
    /\ \A t \in Tasks : disk.completion[t].status = "blocked" =>
          /\ t \notin TerminalMode
          /\ \E x \in Edges(disk)[t] :
                 Stands(disk, x) /\ disk.completion[x].status # "ok"
    /\ \A t \in mem.inflight : \A x \in mem.edges[t] :
          mem.completed[x] # NoRow \/ disk.voided[x] > 0

(* The reserve is the finalizers': once ordinary work is stopped only they *)
(* are dispatched, in this run and every later one; and a finalizer is     *)
(* given up only when the whole campaign is out of time or storage, or its *)
(* own run exceeds (check_budgets, termination_reason).                    *)
ReserveKept ==
    [][/\ disk.workStop => \A t \in Tasks \ Finalizers :
            disk'.dispatches[t] = disk.dispatches[t]
       /\ \A t \in Finalizers :
            (/\ disk.completion[t] = NoRow
             /\ disk'.completion[t].status = "budget_exceeded"
             /\ mem'.phase # "off")
            => mem'.stop \/ worker[t].kind = "budget_exceeded"]_vars

(* The audit row of a refused refresh says that the task is not run again. *)
RefusalFinal ==
    [][\A t \in disk.refused : disk'.dispatches[t] = disk.dispatches[t]]_vars

(* Whatever the workers answer, a started campaign returns, even if no     *)
(* deadline ever passes: retries, refreshes and requests for dependencies  *)
(* all run out, and no task waits for one that never ends.                 *)
Returns == mem.phase = "survey" ~> mem.phase \in {"off", "done"}

=============================================================================

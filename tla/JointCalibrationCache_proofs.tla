--------------------- MODULE JointCalibrationCache_proofs ---------------------
(* Proofs about the joint calibration cache: what is returned and certified   *)
(* is of one compilation, and no work is done twice, for any processes, keys, *)
(* traces, deaths and damage.                                                 *)
EXTENDS JointCalibrationCache, TLAPS

\* What a file may be.
Files == Traces \cup {None}
Seen == [action : Files, trace : Files, probability : Files]

\* The index entry, and the answer, of one compilation and nothing else.
Entry(t) == [action |-> t, trace |-> t, probability |-> t, group |-> <<t, t>>]
Answer(t) == [group |-> <<t, t>>, bytes |-> [action |-> t, trace |-> t, probability |-> t]]

\* Where a process compares an index entry, works under the lock of its action,
\* has loaded an action with its trace, and has read their probability.
Hashing == {"hash_action", "hash_trace", "hash_probability"}
Locked == {"lock_components", "compile_components", "write_trace", "check_persisted", "write_action"}
Loading == {"read_probability", "lock_probability", "write_probability"}
Indexing == {"lock_index", "check_action", "check_trace", "check_probability", "write_index"}
Stages == Hashing \cup Locked \cup Loading \cup Indexing
            \cup {"read_index", "read_action", "read_trace", "lock_action", "done", "missed"}

\* A probability is that of its trace; an index entry is of one compilation.
FilesOK ==
  /\ action \in [Keys -> Files] /\ trace \in [Keys -> Files]
  /\ probability \in [Traces -> Files]
  /\ \A t \in Traces : probability[t] \in {t, None}
  /\ DOMAIN index = Keys
  /\ \A k \in Keys : Whole(index[k]) => \E t \in Traces : index[k] = Entry(t)

\* The functions of processes and of locks.
Shapes ==
  /\ request \in Requests
  /\ DOMAIN holder = Locks
  /\ DOMAIN at = Processes /\ seen \in [Processes -> Seen]
  /\ DOMAIN made = Processes /\ DOMAIN result = Processes

\* What a process saw agrees with what it does next; what it saw under a lock is
\* still so, or is lost, but is not replaced.
Local(w) ==
  /\ at[w] \in Stages
  /\ at[w] # "done" => w \in DOMAIN request
  /\ at[w] \in Hashing => \E t \in Traces : made[w] = Entry(t)
  /\ at[w] \in {"check_persisted", "write_action"} => made[w] \in Traces
  /\ at[w] \in Locked => Holds(w, ActionLock(w))
  /\ (at[w] = "read_trace" /\ Holds(w, ActionLock(w)))
       => action[Key(w)] \in {seen[w].action, None}
  /\ Compiling(w) => ~(Whole(action[Key(w)]) /\ trace[Key(w)] = action[Key(w)])
  /\ at[w] \in Loading \cup Indexing =>
       seen[w].action \in Traces /\ seen[w].trace = seen[w].action
  /\ at[w] \in Indexing => seen[w].probability = seen[w].action
  /\ Sampling(w) => Holds(w, ProbabilityLock(w)) /\ ~Whole(probability[seen[w].action])
  /\ result[w] # None => \E t \in Traces : result[w] = Answer(t)

\* The inductive invariant.
CacheInv == FilesOK /\ Shapes /\ \A w \in Processes : Local(w)
-----------------------------------------------------------------------------
\* Who acts changes nothing that another process x knows and holds, and the
\* files x has locked at most get lost.
Undisturbed(x) ==
  /\ request' = request
  /\ at'[x] = at[x] /\ seen'[x] = seen[x] /\ made'[x] = made[x] /\ result'[x] = result[x]
  /\ \A l \in Locks \ {ComponentLock} : holder'[l] = x <=> holder[l] = x
  /\ (x \in DOMAIN request /\ Holds(x, ActionLock(x))) =>
       /\ action'[Key(x)] \in {action[Key(x)], None}
       /\ trace'[Key(x)] \in {trace[Key(x)], None}
  /\ (seen[x].action \in Traces /\ Holds(x, ProbabilityLock(x))) =>
       probability'[seen[x].action] \in {probability[seen[x].action], None}

\* The locks of a request are locks, and none of them is the component lock.
LEMMA LocksOfRequest ==
  ASSUME Shapes, NEW w \in Processes
  PROVE /\ w \in DOMAIN request => /\ Key(w) \in Keys
                                   /\ ActionLock(w) \in Locks \ {ComponentLock}
                                   /\ IndexLock(w) \in Locks \ {ComponentLock}
        /\ seen[w].action \in Traces => ProbabilityLock(w) \in Locks \ {ComponentLock}
<1>1. \A a, b : <<a, b>> # ComponentLock
  BY DEF ComponentLock
<1>2. w \in DOMAIN request => Key(w) \in Keys
  BY CacheAssumption DEF Shapes, Key
<1>3. \A k \in Keys : <<"actions", k>> \in Locks /\ <<"read_indexes", k>> \in Locks
  BY DEF Locks
<1>4. \A t \in Traces : <<"probabilities", t>> \in Locks
  BY DEF Locks
<1> QED BY <1>1, <1>2, <1>3, <1>4 DEF ActionLock, IndexLock, ProbabilityLock

\* A step that leaves a process undisturbed keeps what is known of it.
LEMMA UndisturbedKeeps ==
  ASSUME Shapes, NEW x \in Processes, Local(x), Undisturbed(x)
  PROVE Local(x)'
<1>1. /\ at'[x] = at[x] /\ seen'[x] = seen[x] /\ made'[x] = made[x] /\ result'[x] = result[x]
      /\ request' = request
  BY DEF Undisturbed
<1>2. Key(x)' = Key(x) /\ ActionLock(x)' = ActionLock(x) /\ ProbabilityLock(x)' = ProbabilityLock(x)
  BY <1>1 DEF Key, ActionLock, ProbabilityLock
<1>3. x \in DOMAIN request => (Holds(x, ActionLock(x))' <=> Holds(x, ActionLock(x)))
  BY <1>2, LocksOfRequest DEF Undisturbed, Holds
<1>4. seen[x].action \in Traces => (Holds(x, ProbabilityLock(x))' <=> Holds(x, ProbabilityLock(x)))
  BY <1>2, LocksOfRequest DEF Undisturbed, Holds
<1>5. at[x] \in Stages /\ (at[x] # "done" => x \in DOMAIN request)
  BY DEF Local
<1>6. (at[x] = "read_trace" /\ Holds(x, ActionLock(x))')
        => action'[Key(x)] \in {seen[x].action, None}
  BY <1>3, <1>5 DEF Local, Undisturbed
<1>7. Compiling(x) => ~(action'[Key(x)] # None /\ trace'[Key(x)] = action'[Key(x)])
  <2>1. Compiling(x) => /\ Holds(x, ActionLock(x)) /\ x \in DOMAIN request
                        /\ ~(Whole(action[Key(x)]) /\ trace[Key(x)] = action[Key(x)])
    BY DEF Local, Compiling, Locked
  <2> QED BY <2>1 DEF Undisturbed, Whole
<1>8. Sampling(x) => Holds(x, ProbabilityLock(x))' /\ probability'[seen[x].action] = None
  <2>1. Sampling(x) => /\ Holds(x, ProbabilityLock(x)) /\ seen[x].action \in Traces
                       /\ probability[seen[x].action] = None
    BY DEF Local, Sampling, Loading, Whole
  <2> QED BY <2>1, <1>4 DEF Undisturbed
<1>9. Compiling(x)' = Compiling(x) /\ Sampling(x)' = Sampling(x)
  BY <1>1 DEF Compiling, Sampling
<1>10. at[x] \in Locked => Holds(x, ActionLock(x))'
  BY <1>3, <1>5 DEF Local, Locked
<1> QED BY <1>1, <1>2, <1>5, <1>6, <1>7, <1>8, <1>9, <1>10 DEF Local, Whole

\* Only w moves, reads and answers; the locks of others stay theirs.
Alone(w) ==
  /\ request' = request
  /\ DOMAIN at' = Processes /\ DOMAIN made' = Processes /\ DOMAIN result' = Processes
  /\ \A x \in Processes \ {w} :
       /\ at'[x] = at[x] /\ seen'[x] = seen[x]
       /\ made'[x] = made[x] /\ result'[x] = result[x]
  /\ DOMAIN holder' = Locks
  /\ \A x \in Processes \ {w} : \A l \in Locks \ {ComponentLock} :
       holder'[l] = x <=> holder[l] = x

\* The step of one process keeps the invariant if it does so for that process,
\* and for the files it writes, which it has locked.
LEMMA AloneKeeps ==
  ASSUME CacheInv, NEW w \in Processes, Alone(w), seen' \in [Processes -> Seen],
         FilesOK', Local(w)',
         \A k \in Keys : \/ /\ action'[k] \in {action[k], None}
                            /\ trace'[k] \in {trace[k], None}
                         \/ \A x \in Processes \ {w} : holder[<<"actions", k>>] # x,
         \A t \in Traces : \/ probability'[t] \in {probability[t], None}
                           \/ \A x \in Processes \ {w} : holder[<<"probabilities", t>>] # x
  PROVE  CacheInv'
<1>1. Shapes'
  BY DEF Alone, CacheInv, Shapes
<1>2. ASSUME NEW x \in Processes \ {w} PROVE Local(x)'
  <2>1. Undisturbed(x)
    <3>1. x \in DOMAIN request => Key(x) \in Keys
      BY LocksOfRequest DEF CacheInv
    <3> QED BY <3>1 DEF Undisturbed, Alone, Holds, ActionLock, ProbabilityLock
  <2> QED BY <2>1, UndisturbedKeeps DEF CacheInv
<1> QED BY <1>1, <1>2 DEF CacheInv

\* A step that writes none of the files of an artifact.
LEMMA PublishingNothingKeeps ==
  ASSUME CacheInv, NEW w \in Processes, Alone(w), seen' \in [Processes -> Seen],
         UNCHANGED <<action, trace, probability, index>>, Local(w)'
  PROVE  CacheInv'
<1>1. FilesOK'
  BY DEF CacheInv, FilesOK
<1> QED BY <1>1, AloneKeeps

\* A step that writes no file.
LEMMA ReadingKeeps ==
  ASSUME CacheInv, NEW w \in Processes, Alone(w), seen' \in [Processes -> Seen],
         UNCHANGED files, Local(w)'
  PROVE  CacheInv'
BY PublishingNothingKeeps DEF files

\* Releasing one's locks, and taking a free one, leaves those of others.
LEMMA ReleasedLocks ==
  ASSUME Shapes, NEW w \in Processes, holder' = Released(w)
  PROVE  /\ DOMAIN holder' = Locks
         /\ \A x \in Processes \ {w} : \A l \in Locks : holder'[l] = x <=> holder[l] = x
BY CacheAssumption DEF Released, Processes

\* Taking a free lock gives it to the taker and leaves all other holdings.
LEMMA TakenLock ==
  ASSUME Shapes, NEW w \in Processes, NEW l \in Locks, Free(l),
         holder' = [holder EXCEPT ![l] = w]
  PROVE  /\ DOMAIN holder' = Locks /\ holder'[l] = w
         /\ \A k \in Locks \ {l} : holder'[k] = holder[k]
         /\ \A x \in Processes \ {w} : \A k \in Locks : holder'[k] = x <=> holder[k] = x
BY CacheAssumption DEF Shapes, Free, Processes

\* A request that is deferred, fails or dies starts over without a lock.
LEMMA AgainKeeps ==
  ASSUME CacheInv, NEW w \in Processes, w \in DOMAIN request,
         Again(w), UNCHANGED <<request, files, result>>
  PROVE  CacheInv'
<1>1. /\ at' = [at EXCEPT ![w] = "read_index"] /\ holder' = Released(w)
      /\ made' = [made EXCEPT ![w] = None] /\ seen' = [seen EXCEPT ![w] = NoFiles]
  BY DEF Again, Leave, Go, Keep
<1>2. NoFiles \in Seen
  BY DEF NoFiles, Seen, Files
<1>3. seen' \in [Processes -> Seen]
  BY <1>1, <1>2 DEF CacheInv, Shapes
<1>4. Alone(w)
  BY <1>1, ReleasedLocks DEF Alone, CacheInv, Shapes
<1>5. Local(w)'
  <2>1. at'[w] = "read_index"
    BY <1>1 DEF CacheInv, Shapes
  <2>2. result[w] # None => \E t \in Traces : result[w] = Answer(t)
    BY DEF CacheInv, Local
  <2> QED BY <2>1, <2>2 DEF Local, Stages, Hashing, Locked, Loading, Indexing, Compiling, Sampling
<1> QED BY <1>3, <1>4, <1>5, ReadingKeeps

\* Taking a lock leads where the code goes with it, or the request is deferred.
LEMMA TakeLockKeeps ==
  ASSUME CacheInv, NEW w \in Processes, w \in DOMAIN request, NEW l \in Locks, NEW next,
         TakeLock(w, l, next), UNCHANGED <<request, files, result>>,
         (/\ at'[w] = next /\ made'[w] = None /\ seen'[w] = seen[w] /\ holder'[l] = w
          /\ \A k \in Locks \ {l} : holder'[k] = holder[k]) => Local(w)'
  PROVE  CacheInv'
<1>1. CASE Free(l)
  <2>1. /\ holder' = [holder EXCEPT ![l] = w] /\ at' = [at EXCEPT ![w] = next]
        /\ made' = [made EXCEPT ![w] = None] /\ UNCHANGED seen
    BY <1>1 DEF TakeLock, Go, Keep
  <2>2. Alone(w)
    BY <1>1, <2>1, TakenLock DEF Alone, CacheInv, Shapes
  <2>3. Local(w)'
    BY <1>1, <2>1, TakenLock DEF CacheInv, Shapes
  <2>4. seen' \in [Processes -> Seen]
    BY <2>1 DEF CacheInv, Shapes
  <2> QED BY <2>2, <2>3, <2>4, ReadingKeeps
<1>2. CASE ~Free(l)
  BY <1>2, AgainKeeps DEF TakeLock
<1> QED BY <1>1, <1>2

-----------------------------------------------------------------------------
(* The steps, one lemma for each.                                            *)

\* A process that acts is at a stage of its request.
LEMMA Acting ==
  ASSUME CacheInv, NEW w \in Processes, at[w] # "done"
  PROVE  /\ w \in DOMAIN request /\ Key(w) \in Keys
         /\ ActionLock(w) \in Locks /\ IndexLock(w) \in Locks
         /\ seen[w].action \in Traces => ProbabilityLock(w) \in Locks
         /\ seen[w] \in Seen
         /\ result[w] # None => \E t \in Traces : result[w] = Answer(t)
BY LocksOfRequest DEF CacheInv, Local, Shapes

\* Reading the index keeps the invariant.
LEMMA ReadIndexKeeps ==
  ASSUME CacheInv, NEW w \in Processes, ReadIndex(w) PROVE CacheInv'
<1>1. at[w] = "read_index" /\ UNCHANGED <<request, files, holder, result>>
  BY DEF ReadIndex
<1>2. CASE Whole(index[Key(w)])
  <2>1. /\ made' = [made EXCEPT ![w] = index[Key(w)]] /\ at' = [at EXCEPT ![w] = "hash_action"]
        /\ seen' = [seen EXCEPT ![w].action = index[Key(w)].action]
    BY <1>2 DEF ReadIndex, Keep, Go
  <2>2. PICK t \in Traces : index[Key(w)] = Entry(t)
    BY <1>1, <1>2, Acting DEF CacheInv, FilesOK
  <2>3. index[Key(w)].action = t
    BY <2>2 DEF Entry
  <2>4. seen' \in [Processes -> Seen]
    BY <2>1, <2>3 DEF CacheInv, Shapes, Seen, Files
  <2>5. Alone(w)
    BY <1>1, <2>1 DEF Alone, CacheInv, Shapes
  <2>6. at'[w] = "hash_action" /\ made'[w] = Entry(t)
    BY <2>1, <2>2 DEF CacheInv, Shapes
  <2>7. Local(w)'
    BY <2>6, <1>1, Acting DEF Local, Stages, Hashing, Locked, Loading, Indexing, Compiling, Sampling
  <2> QED BY <1>1, <2>4, <2>5, <2>7, ReadingKeeps
<1>3. CASE ~Whole(index[Key(w)])
  <2>1. at' = [at EXCEPT ![w] = "read_action"] /\ UNCHANGED <<made, seen>>
    BY <1>3 DEF ReadIndex, Go
  <2>2. Alone(w) /\ seen' \in [Processes -> Seen]
    BY <1>1, <2>1 DEF Alone, CacheInv, Shapes
  <2>3. at'[w] = "read_action"
    BY <2>1 DEF CacheInv, Shapes
  <2>4. Local(w)'
    BY <2>3, <1>1, Acting DEF Local, Stages, Hashing, Locked, Loading, Indexing, Compiling, Sampling
  <2> QED BY <1>1, <2>2, <2>4, ReadingKeeps
<1> QED BY <1>2, <1>3

\* Comparing what the index names with the files keeps the invariant.
LEMMA CompareKeeps ==
  ASSUME CacheInv, NEW w \in Processes, Compare(w) PROVE CacheInv'
<1> DEFINE file == Compared[at[w]]
<1>1. at[w] \in Hashing /\ UNCHANGED <<request, files, holder>>
  BY DEF Compare, Hashing
<1>2. PICK t \in Traces : made[w] = Entry(t)
  BY <1>1 DEF CacheInv, Local
<1>3. CASE Stored(w, file) = made[w][file] /\ at[w] = "hash_probability"
  <2>1. /\ at' = [at EXCEPT ![w] = "done"] /\ made' = [made EXCEPT ![w] = None] /\ UNCHANGED seen
        /\ result' = [result EXCEPT ![w] = [group |-> made[w].group,
                                           bytes |-> [f \in DOMAIN NoFiles |-> made[w][f]]]]
    BY <1>3 DEF Compare, Go, Keep, Return, AfterHash
  <2>2. [group |-> made[w].group, bytes |-> [f \in DOMAIN NoFiles |-> made[w][f]]] = Answer(t)
    <3>1. [f \in DOMAIN NoFiles |-> Entry(t)[f]] = [action |-> t, trace |-> t, probability |-> t]
      BY DEF Entry, NoFiles
    <3>2. Entry(t).group = <<t, t>>
      BY DEF Entry
    <3> QED BY <1>2, <3>1, <3>2 DEF Answer
  <2>3. at'[w] = "done" /\ result'[w] = Answer(t)
    BY <2>1, <2>2 DEF CacheInv, Shapes
  <2>4. Local(w)'
    BY <2>3 DEF Local, Stages, Hashing, Locked, Loading, Indexing, Compiling, Sampling
  <2>5. Alone(w) /\ seen' \in [Processes -> Seen]
    BY <1>1, <2>1 DEF Alone, CacheInv, Shapes
  <2> QED BY <1>1, <2>4, <2>5, ReadingKeeps
<1>4. CASE Stored(w, file) = made[w][file] /\ at[w] # "hash_probability"
  <2>1. at' = [at EXCEPT ![w] = AfterHash[at[w]]] /\ UNCHANGED <<result, made, seen>>
    BY <1>4 DEF Compare, Go
  <2>2. AfterHash[at[w]] \in {"hash_trace", "hash_probability"}
    BY <1>1, <1>4 DEF Hashing, AfterHash
  <2>3. at'[w] \in {"hash_trace", "hash_probability"} /\ made'[w] = Entry(t)
    BY <2>1, <2>2, <1>2 DEF CacheInv, Shapes
  <2>4. w \in DOMAIN request /\ (result[w] # None => \E u \in Traces : result[w] = Answer(u))
    BY <1>1, Acting DEF Hashing
  <2>5. Local(w)'
    BY <1>1, <2>1, <2>3, <2>4
    DEF Local, Stages, Hashing, Locked, Loading, Indexing, Compiling, Sampling
  <2>6. Alone(w) /\ seen' \in [Processes -> Seen]
    BY <1>1, <2>1 DEF Alone, CacheInv, Shapes
  <2> QED BY <1>1, <2>5, <2>6, ReadingKeeps
<1>5. CASE Stored(w, file) # made[w][file]
  <2>1. /\ at' = [at EXCEPT ![w] = "read_action"] /\ made' = [made EXCEPT ![w] = None]
        /\ seen' = [seen EXCEPT ![w] = NoFiles] /\ UNCHANGED result
    BY <1>5 DEF Compare, Go, Keep
  <2>2. at'[w] = "read_action"
    BY <2>1 DEF CacheInv, Shapes
  <2>3. w \in DOMAIN request /\ (result[w] # None => \E u \in Traces : result[w] = Answer(u))
    BY <1>1, Acting DEF Hashing
  <2>4. Local(w)'
    BY <1>1, <2>1, <2>2, <2>3
    DEF Local, Stages, Hashing, Locked, Loading, Indexing, Compiling, Sampling
  <2>5. Alone(w) /\ seen' \in [Processes -> Seen]
    BY <1>1, <2>1 DEF Alone, CacheInv, Shapes, NoFiles, Seen, Files
  <2> QED BY <1>1, <2>4, <2>5, ReadingKeeps
<1> QED BY <1>3, <1>4, <1>5

\* Reading the action keeps the invariant.
LEMMA ReadActionKeeps ==
  ASSUME CacheInv, NEW w \in Processes, ReadAction(w) PROVE CacheInv'
<1>1. /\ at[w] = "read_action" /\ UNCHANGED <<request, files, holder, made, result>>
      /\ at' = [at EXCEPT ![w] = "read_trace"]
      /\ seen' = [seen EXCEPT ![w].action = action[Key(w)]]
  BY DEF ReadAction, Go, See, Stored
<1>2. at'[w] = "read_trace" /\ seen'[w].action = action[Key(w)]
  BY <1>1 DEF CacheInv, Shapes, Seen
<1>3. Alone(w)
  BY <1>1 DEF Alone, CacheInv, Shapes
<1>4. seen' \in [Processes -> Seen]
  BY <1>1, Acting DEF CacheInv, Shapes, Seen, FilesOK
<1>5. Key(w)' = Key(w) /\ action' = action
  BY <1>1 DEF Key, files
<1>6. Local(w)'
  BY <1>1, <1>2, <1>5, Acting
  DEF Local, Stages, Hashing, Locked, Loading, Indexing, Compiling, Sampling
<1> QED BY <1>1, <1>3, <1>4, <1>6, ReadingKeeps

\* Reading a file of the request leaves it with something a file may be.
LEMMA SeeIsSeen ==
  ASSUME CacheInv, NEW w \in Processes, at[w] # "done",
         NEW file \in {"action", "trace", "probability"}, See(w, file)
  PROVE  /\ seen' \in [Processes -> Seen] /\ seen'[w][file] = Stored(w, file)
         /\ \A other \in {"action", "trace", "probability"} \ {file} :
              seen'[w][other] = seen[w][other]
         /\ \A x \in Processes \ {w} : seen'[x] = seen[x]
<1>1. Stored(w, file) \in Files
  <2>1. action[Key(w)] \in Files /\ trace[Key(w)] \in Files
    BY Acting DEF CacheInv, FilesOK
  <2>2. (IF Whole(seen[w].action) THEN probability[seen[w].action] ELSE None) \in Files
    BY DEF CacheInv, FilesOK, Shapes, Seen, Files, Whole
  <2> QED BY <2>1, <2>2 DEF Stored
<1>2. seen' = [seen EXCEPT ![w][file] = Stored(w, file)]
  BY DEF See
<1>3. CASE file = "action"
  BY <1>1, <1>2, <1>3 DEF CacheInv, Shapes, Seen
<1>4. CASE file = "trace"
  BY <1>1, <1>2, <1>4 DEF CacheInv, Shapes, Seen
<1>5. CASE file = "probability"
  BY <1>1, <1>2, <1>5 DEF CacheInv, Shapes, Seen
<1> QED BY <1>3, <1>4, <1>5

\* Reading the trace beside the action keeps the invariant.
LEMMA ReadTraceKeeps ==
  ASSUME CacheInv, NEW w \in Processes, ReadTrace(w) PROVE CacheInv'
<1>1. at[w] = "read_trace" /\ UNCHANGED <<request, files, result>>
  BY DEF ReadTrace
<1>2. Key(w)' = Key(w) /\ ActionLock(w)' = ActionLock(w) /\ action' = action /\ trace' = trace
  BY <1>1 DEF Key, ActionLock, files
<1>3. w \in DOMAIN request /\ (result[w] # None => \E u \in Traces : result[w] = Answer(u))
  BY <1>1, Acting
<1>4. CASE ~Loaded(w) /\ Holds(w, ActionLock(w)) /\ made[w] # None /\ Again(w)
  BY <1>1, <1>3, <1>4, AgainKeeps
<1>5. ASSUME See(w, "trace") PROVE seen'[w].action = seen[w].action /\ seen'[w].trace = trace[Key(w)]
  BY <1>1, <1>5, SeeIsSeen DEF Stored
<1>6. ASSUME NEW where, Leave(w, where), See(w, "trace")
      PROVE  Alone(w) /\ at'[w] = where /\ seen' \in [Processes -> Seen]
  <2>1. Alone(w)
    BY <1>1, <1>6, ReleasedLocks, SeeIsSeen DEF Leave, Go, Keep, Alone, CacheInv, Shapes
  <2>2. at'[w] = where
    BY <1>6 DEF Leave, Go, CacheInv, Shapes
  <2> QED BY <2>1, <2>2, <1>1, <1>6, SeeIsSeen
<1>7. CASE Loaded(w) /\ See(w, "trace") /\ Leave(w, "read_probability")
  <2>1. seen[w].action \in Traces
    BY <1>1, <1>7, Acting DEF Loaded, Whole, Seen, Files
  <2>2. seen'[w].trace = seen'[w].action /\ seen'[w].action \in Traces
    BY <2>1, <1>5, <1>7 DEF Loaded
  <2>3. at'[w] = "read_probability"
    BY <1>6, <1>7
  <2>4. Local(w)'
    BY <1>1, <1>3, <2>2, <2>3
    DEF Local, Stages, Hashing, Locked, Loading, Indexing, Compiling, Sampling
  <2> QED BY <1>1, <1>6, <1>7, <2>4, ReadingKeeps
<1>8. CASE ~Loaded(w) /\ Reading(w) /\ See(w, "trace") /\ Leave(w, "missed")
  <2>1. at'[w] = "missed"
    BY <1>6, <1>8
  <2>2. Local(w)'
    BY <1>1, <1>3, <2>1 DEF Local, Stages, Hashing, Locked, Loading, Indexing, Compiling, Sampling
  <2> QED BY <1>1, <1>6, <1>8, <2>2, ReadingKeeps
<1>9. ASSUME NEW where, See(w, "trace"), Go(w, where), UNCHANGED <<holder, made>>
      PROVE  Alone(w) /\ at'[w] = where /\ seen' \in [Processes -> Seen]
  <2>1. Alone(w)
    BY <1>1, <1>9, SeeIsSeen DEF Go, Alone, CacheInv, Shapes
  <2>2. at'[w] = where
    BY <1>9 DEF Go, CacheInv, Shapes
  <2> QED BY <2>1, <2>2, <1>1, <1>9, SeeIsSeen
<1>10. CASE /\ ~Loaded(w) /\ ~Reading(w) /\ ~Holds(w, ActionLock(w))
            /\ See(w, "trace") /\ Go(w, "lock_action") /\ UNCHANGED <<holder, made>>
  <2>1. at'[w] = "lock_action"
    BY <1>9, <1>10
  <2>2. Local(w)'
    BY <1>1, <1>3, <2>1 DEF Local, Stages, Hashing, Locked, Loading, Indexing, Compiling, Sampling
  <2> QED BY <1>1, <1>9, <1>10, <2>2, ReadingKeeps
<1>11. CASE /\ ~Loaded(w) /\ Holds(w, ActionLock(w)) /\ made[w] = None
            /\ See(w, "trace") /\ Go(w, "lock_components") /\ UNCHANGED <<holder, made>>
  <2>1. at'[w] = "lock_components"
    BY <1>9, <1>11
  <2>2. Holds(w, ActionLock(w))'
    BY <1>11, <1>2 DEF Holds
  <2>3. action[Key(w)] \in {seen[w].action, None}
    BY <1>1, <1>11 DEF CacheInv, Local
  <2>4. ~(Whole(action[Key(w)]) /\ trace[Key(w)] = action[Key(w)])'
    BY <1>2, <1>11, <2>3 DEF Loaded, Whole
  <2>5. Local(w)'
    BY <1>1, <1>3, <2>1, <2>2, <2>4
    DEF Local, Stages, Hashing, Locked, Loading, Indexing, Compiling, Sampling
  <2> QED BY <1>1, <1>9, <1>11, <2>5, ReadingKeeps
<1> QED BY <1>4, <1>7, <1>8, <1>10, <1>11 DEF ReadTrace

\* Taking the lock of the action keeps the invariant.
LEMMA LockActionKeeps ==
  ASSUME CacheInv, NEW w \in Processes, LockAction(w) PROVE CacheInv'
<1>1. /\ at[w] = "lock_action" /\ UNCHANGED <<request, files, result>>
      /\ TakeLock(w, ActionLock(w), "read_action")
  BY DEF LockAction
<1>2. ASSUME at'[w] = "read_action" PROVE Local(w)'
  BY <1>1, <1>2, Acting DEF Local, Stages, Hashing, Locked, Loading, Indexing, Compiling, Sampling
<1> QED BY <1>1, <1>2, Acting, TakeLockKeeps

\* Taking the lock of the components keeps the invariant.
LEMMA LockComponentsKeeps ==
  ASSUME CacheInv, NEW w \in Processes, LockComponents(w) PROVE CacheInv'
<1>1. /\ at[w] = "lock_components" /\ UNCHANGED <<request, files, result>>
      /\ TakeLock(w, ComponentLock, "compile_components")
  BY DEF LockComponents
<1>2. ComponentLock \in Locks /\ w \in DOMAIN request /\ ActionLock(w) \in Locks \ {ComponentLock}
  BY <1>1, Acting, LocksOfRequest DEF Locks, CacheInv
<1>3. Holds(w, ActionLock(w)) /\ ~(Whole(action[Key(w)]) /\ trace[Key(w)] = action[Key(w)])
  BY <1>1 DEF CacheInv, Local, Locked, Compiling
<1>4. Key(w)' = Key(w) /\ ActionLock(w)' = ActionLock(w) /\ action' = action /\ trace' = trace
  BY <1>1 DEF Key, ActionLock, files
<1>5. ASSUME at'[w] = "compile_components", \A k \in Locks \ {ComponentLock} : holder'[k] = holder[k]
      PROVE  Local(w)'
  <2>1. Holds(w, ActionLock(w))'
    BY <1>2, <1>3, <1>4, <1>5 DEF Holds
  <2> QED BY <1>1, <1>3, <1>4, <1>5, <2>1, Acting
          DEF Local, Stages, Hashing, Locked, Loading, Indexing, Compiling, Sampling, Whole
<1> QED BY <1>1, <1>2, <1>5, TakeLockKeeps

\* Compiling, loading or refusing the component operations keeps the invariant.
LEMMA CompileComponentsKeeps ==
  ASSUME CacheInv, NEW w \in Processes, CompileComponents(w) PROVE CacheInv'
<1>1. /\ at[w] = "compile_components"
      /\ UNCHANGED <<request, action, trace, probability, index, result>>
  BY DEF CompileComponents
<1>2. w \in DOMAIN request /\ ActionLock(w) \in Locks \ {ComponentLock}
  BY <1>1, Acting, LocksOfRequest DEF CacheInv
<1>3. CASE Again(w) /\ UNCHANGED operations
  BY <1>1, <1>2, <1>3, AgainKeeps DEF files
<1>4. CASE /\ holder' = [holder EXCEPT ![ComponentLock] = Nobody]
           /\ Go(w, "write_trace") /\ UNCHANGED <<seen, made>>
  <2>1. at' = [at EXCEPT ![w] = "write_trace"]
    BY <1>4 DEF Go
  <2>2. Holds(w, ActionLock(w)) /\ ~(Whole(action[Key(w)]) /\ trace[Key(w)] = action[Key(w)])
    BY <1>1 DEF CacheInv, Local, Locked, Compiling
  <2>3. Key(w)' = Key(w) /\ ActionLock(w)' = ActionLock(w) /\ action' = action /\ trace' = trace
    BY <1>1 DEF Key, ActionLock
  <2>4. Alone(w) /\ seen' \in [Processes -> Seen]
    BY <1>1, <1>4, <2>1 DEF Alone, CacheInv, Shapes
  <2>5. at'[w] = "write_trace" /\ Holds(w, ActionLock(w))'
    BY <1>2, <1>4, <2>1, <2>2, <2>3 DEF CacheInv, Shapes, Holds
  <2>6. Local(w)'
    BY <1>1, <1>4, <2>2, <2>3, <2>5, Acting
    DEF Local, Stages, Hashing, Locked, Loading, Indexing, Compiling, Sampling, Whole
  <2> QED BY <1>1, <2>4, <2>6, PublishingNothingKeeps
<1> QED BY <1>3, <1>4 DEF CompileComponents

\* Replacing the trace file keeps the invariant.
LEMMA WriteTraceKeeps ==
  ASSUME CacheInv, NEW w \in Processes, WriteTrace(w) PROVE CacheInv'
<1>1. PICK v \in Variants :
        /\ made' = [made EXCEPT ![w] = <<Key(w), v>>]
        /\ trace' = [trace EXCEPT ![Key(w)] = <<Key(w), v>>]
  BY DEF WriteTrace, Keep
<1>2. /\ at[w] = "write_trace" /\ at' = [at EXCEPT ![w] = "check_persisted"]
      /\ UNCHANGED <<request, action, probability, index, holder, seen, result>>
  BY DEF WriteTrace, Go
<1>3. Holds(w, ActionLock(w)) /\ Key(w) \in Keys
  BY <1>2, Acting DEF CacheInv, Local, Locked
<1>4. <<Key(w), v>> \in Traces
  BY <1>3 DEF Traces
<1>5. FilesOK'
  BY <1>1, <1>2, <1>4 DEF CacheInv, FilesOK, Files
<1>6. Alone(w) /\ seen' \in [Processes -> Seen]
  BY <1>1, <1>2 DEF Alone, CacheInv, Shapes
<1>7. Holds(w, ActionLock(w))'
  BY <1>2, <1>3 DEF Holds, ActionLock, Key
<1>8. at'[w] = "check_persisted" /\ made'[w] \in Traces
  BY <1>1, <1>2, <1>4 DEF CacheInv, Shapes
<1>9. Local(w)'
  BY <1>2, <1>7, <1>8, Acting
  DEF Local, Stages, Hashing, Locked, Loading, Indexing, Compiling, Sampling
<1>10. \A k \in Keys : \/ action'[k] \in {action[k], None} /\ trace'[k] \in {trace[k], None}
                       \/ \A x \in Processes \ {w} : holder[<<"actions", k>>] # x
  BY <1>1, <1>2, <1>3 DEF Holds, ActionLock, CacheInv, FilesOK
<1> QED BY <1>2, <1>5, <1>6, <1>9, <1>10, AloneKeeps

\* Reading the trace back keeps the invariant.
LEMMA CheckPersistedKeeps ==
  ASSUME CacheInv, NEW w \in Processes, CheckPersisted(w) PROVE CacheInv'
<1>1. at[w] = "check_persisted" /\ UNCHANGED <<request, files, result>>
  BY DEF CheckPersisted
<1>2. CASE trace[Key(w)] = made[w]
  <2>1. at' = [at EXCEPT ![w] = "write_action"] /\ UNCHANGED <<holder, seen, made>>
    BY <1>2 DEF CheckPersisted, Go
  <2>2. Alone(w) /\ seen' \in [Processes -> Seen]
    BY <1>1, <2>1 DEF Alone, CacheInv, Shapes
  <2>3. made[w] \in Traces /\ Holds(w, ActionLock(w))
    BY <1>1 DEF CacheInv, Local, Locked
  <2>4. Holds(w, ActionLock(w))' /\ at'[w] = "write_action"
    BY <1>1, <2>1, <2>3 DEF Holds, ActionLock, Key, CacheInv, Shapes
  <2>5. Local(w)'
    BY <1>1, <2>1, <2>3, <2>4, Acting
    DEF Local, Stages, Hashing, Locked, Loading, Indexing, Compiling, Sampling
  <2> QED BY <1>1, <2>2, <2>5, ReadingKeeps
<1>3. CASE trace[Key(w)] # made[w]
  BY <1>1, <1>3, Acting, AgainKeeps DEF CheckPersisted
<1> QED BY <1>2, <1>3

\* Replacing the action file, after the trace, keeps the invariant.
LEMMA WriteActionKeeps ==
  ASSUME CacheInv, NEW w \in Processes, WriteAction(w) PROVE CacheInv'
<1>1. /\ at[w] = "write_action" /\ at' = [at EXCEPT ![w] = "read_action"]
      /\ action' = [action EXCEPT ![Key(w)] = made[w]]
      /\ UNCHANGED <<request, trace, probability, index, holder, seen, made, result>>
  BY DEF WriteAction, Go
<1>2. Holds(w, ActionLock(w)) /\ Key(w) \in Keys /\ made[w] \in Traces
  BY <1>1, Acting DEF CacheInv, Local, Locked
<1>3. FilesOK'
  BY <1>1, <1>2 DEF CacheInv, FilesOK, Files
<1>4. Alone(w) /\ seen' \in [Processes -> Seen]
  BY <1>1 DEF Alone, CacheInv, Shapes
<1>5. at'[w] = "read_action"
  BY <1>1 DEF CacheInv, Shapes
<1>6. Local(w)'
  BY <1>1, <1>5, Acting
  DEF Local, Stages, Hashing, Locked, Loading, Indexing, Compiling, Sampling
<1>7. \A k \in Keys : \/ action'[k] \in {action[k], None} /\ trace'[k] \in {trace[k], None}
                      \/ \A x \in Processes \ {w} : holder[<<"actions", k>>] # x
  BY <1>1, <1>2 DEF Holds, ActionLock, CacheInv, FilesOK
<1> QED BY <1>1, <1>3, <1>4, <1>6, <1>7, AloneKeeps

\* What a process that works with a probability has seen.
LEMMA LoadedTrace ==
  ASSUME CacheInv, NEW w \in Processes, at[w] \in Loading \cup Indexing
  PROVE  /\ seen[w].action \in Traces /\ seen[w].trace = seen[w].action
         /\ at[w] \in Indexing => seen[w].probability = seen[w].action
         /\ ProbabilityLock(w) \in Locks /\ w \in DOMAIN request
         /\ probability[seen[w].action] \in {seen[w].action, None}
         /\ Whole(seen[w].action) /\ Stored(w, "probability") = probability[seen[w].action]
<1>1. seen[w].action \in Traces /\ Whole(seen[w].action)
  BY CacheAssumption DEF CacheInv, Local, Whole, Traces
<1>2. at[w] # "done"
  BY DEF Loading, Indexing
<1> QED BY <1>1, <1>2, Acting DEF CacheInv, Local, FilesOK, Stored

\* Reading the probability keeps the invariant.
LEMMA ReadProbabilityKeeps ==
  ASSUME CacheInv, NEW w \in Processes, ReadProbability(w) PROVE CacheInv'
<1> DEFINE t == seen[w].action
           found == probability[t]
<1>1. at[w] = "read_probability" /\ UNCHANGED <<request, files>>
  BY DEF ReadProbability
<1>2. /\ t \in Traces /\ seen[w].trace = t /\ found \in {t, None}
      /\ Stored(w, "probability") = found /\ w \in DOMAIN request
      /\ ProbabilityLock(w) \in Locks
  BY <1>1, LoadedTrace DEF Loading
<1>3. result[w] # None => \E u \in Traces : result[w] = Answer(u)
  BY <1>1, Acting
<1>4. probability' = probability /\ Key(w)' = Key(w)
  BY <1>1 DEF files, Key
<1>5. ASSUME See(w, "probability")
      PROVE  /\ seen' \in [Processes -> Seen] /\ \A x \in Processes \ {w} : seen'[x] = seen[x]
             /\ seen'[w].action = t /\ seen'[w].trace = t /\ seen'[w].probability = found
  BY <1>1, <1>2, <1>5, SeeIsSeen
<1>6. ASSUME NEW where, Leave(w, where), See(w, "probability"),
             DOMAIN result' = Processes, \A x \in Processes \ {w} : result'[x] = result[x]
      PROVE  Alone(w) /\ at'[w] = where
  <2>1. Alone(w)
    BY <1>1, <1>5, <1>6, ReleasedLocks DEF Leave, Go, Keep, Alone, CacheInv, Shapes
  <2>2. at'[w] = where
    BY <1>6 DEF Leave, Go, CacheInv, Shapes
  <2> QED BY <2>1, <2>2
<1>7. ASSUME NEW where, Go(w, where), See(w, "probability"), UNCHANGED <<holder, made, result>>
      PROVE  Alone(w) /\ at'[w] = where
  <2>1. Alone(w)
    BY <1>1, <1>5, <1>7 DEF Go, Alone, CacheInv, Shapes
  <2>2. at'[w] = where
    BY <1>7 DEF Go, CacheInv, Shapes
  <2> QED BY <2>1, <2>2
<1>8. CASE /\ Whole(found) /\ See(w, "probability") /\ Leave(w, "lock_index") /\ UNCHANGED result
  <2>1. Alone(w) /\ at'[w] = "lock_index"
    BY <1>6, <1>8 DEF CacheInv, Shapes
  <2>2. Local(w)'
    BY <1>2, <1>3, <1>5, <1>8, <2>1, <1>1
    DEF Local, Stages, Hashing, Locked, Loading, Indexing, Compiling, Sampling, Whole
  <2> QED BY <1>1, <1>5, <1>8, <2>1, <2>2, ReadingKeeps
<1>9. CASE /\ Whole(found) /\ See(w, "probability") /\ Leave(w, "done")
           /\ Return(w, <<t, found>>, [seen[w] EXCEPT !.probability = found])
  <2>1. [seen[w] EXCEPT !.probability = found] = [action |-> t, trace |-> t, probability |-> t]
    BY <1>1, <1>2, <1>9, Acting DEF Whole, Seen
  <2>2. result' = [result EXCEPT ![w] = Answer(t)]
    BY <1>2, <1>9, <2>1 DEF Whole, Return, Answer
  <2>3. Alone(w) /\ at'[w] = "done"
    BY <1>6, <1>9, <2>2 DEF CacheInv, Shapes
  <2>4. result'[w] = Answer(t)
    BY <2>2 DEF CacheInv, Shapes
  <2>5. Local(w)'
    BY <1>2, <2>3, <2>4 DEF Local, Stages, Hashing, Locked, Loading, Indexing, Compiling, Sampling
  <2> QED BY <1>1, <1>5, <1>9, <2>3, <2>5, ReadingKeeps
<1>10. CASE See(w, "probability") /\ Leave(w, "missed") /\ UNCHANGED result
  <2>1. Alone(w) /\ at'[w] = "missed"
    BY <1>6, <1>10 DEF CacheInv, Shapes
  <2>2. Local(w)'
    BY <1>1, <1>2, <1>3, <1>10, <2>1
    DEF Local, Stages, Hashing, Locked, Loading, Indexing, Compiling, Sampling
  <2> QED BY <1>1, <1>5, <1>10, <2>1, <2>2, ReadingKeeps
<1>11. CASE /\ See(w, "probability") /\ Go(w, "lock_probability")
            /\ UNCHANGED <<holder, made, result>>
  <2>1. Alone(w) /\ at'[w] = "lock_probability"
    BY <1>7, <1>11
  <2>2. Local(w)'
    BY <1>1, <1>2, <1>3, <1>5, <1>11, <2>1
    DEF Local, Stages, Hashing, Locked, Loading, Indexing, Compiling, Sampling
  <2> QED BY <1>1, <1>5, <1>11, <2>1, <2>2, ReadingKeeps
<1>12. CASE /\ ~Whole(found) /\ Holds(w, ProbabilityLock(w))
            /\ See(w, "probability") /\ Go(w, "write_probability")
            /\ UNCHANGED <<holder, made, result>>
  <2>1. Alone(w) /\ at'[w] = "write_probability"
    BY <1>7, <1>12
  <2>2. Holds(w, ProbabilityLock(w))' /\ ~Whole(probability[seen[w].action])'
    BY <1>4, <1>5, <1>12 DEF Holds, ProbabilityLock, Whole
  <2>3. Local(w)'
    BY <1>1, <1>2, <1>3, <1>5, <1>12, <2>1, <2>2
    DEF Local, Stages, Hashing, Locked, Loading, Indexing, Compiling, Sampling
  <2> QED BY <1>1, <1>5, <1>12, <2>1, <2>3, ReadingKeeps
<1>13. CASE Again(w) /\ UNCHANGED result
  BY <1>1, <1>2, <1>13, AgainKeeps
<1> QED BY <1>8, <1>9, <1>10, <1>11, <1>12, <1>13 DEF ReadProbability

\* Taking the lock of the probability keeps the invariant.
LEMMA LockProbabilityKeeps ==
  ASSUME CacheInv, NEW w \in Processes, LockProbability(w) PROVE CacheInv'
<1>1. /\ at[w] = "lock_probability" /\ UNCHANGED <<request, files, result>>
      /\ TakeLock(w, ProbabilityLock(w), "read_probability")
  BY DEF LockProbability
<1>2. ASSUME at'[w] = "read_probability", seen'[w] = seen[w] PROVE Local(w)'
  BY <1>1, <1>2, Acting, LoadedTrace
  DEF Local, Stages, Hashing, Locked, Loading, Indexing, Compiling, Sampling
<1>3. w \in DOMAIN request /\ ProbabilityLock(w) \in Locks
  BY <1>1, LoadedTrace DEF Loading
<1> QED BY <1>1, <1>2, <1>3, TakeLockKeeps

\* Replacing the probability file keeps the invariant.
LEMMA WriteProbabilityKeeps ==
  ASSUME CacheInv, NEW w \in Processes, WriteProbability(w) PROVE CacheInv'
<1> DEFINE t == seen[w].action
<1>1. /\ at[w] = "write_probability" /\ at' = [at EXCEPT ![w] = "read_probability"]
      /\ made' = [made EXCEPT ![w] = seen[w].trace]
      /\ probability' = [probability EXCEPT ![t] = seen[w].trace]
      /\ UNCHANGED <<request, action, trace, index, holder, seen, result>>
  BY DEF WriteProbability, Go, Keep
<1>2. t \in Traces /\ seen[w].trace = t
  BY <1>1, LoadedTrace DEF Loading
<1>3. Holds(w, ProbabilityLock(w))
  BY <1>1 DEF CacheInv, Local, Sampling
<1>4. FilesOK'
  BY <1>1, <1>2 DEF CacheInv, FilesOK, Files
<1>5. Alone(w) /\ seen' \in [Processes -> Seen]
  BY <1>1 DEF Alone, CacheInv, Shapes
<1>6. at'[w] = "read_probability"
  BY <1>1 DEF CacheInv, Shapes
<1>7. Local(w)'
  BY <1>1, <1>2, <1>6, Acting
  DEF Local, Stages, Hashing, Locked, Loading, Indexing, Compiling, Sampling
<1>8. \A u \in Traces : \/ probability'[u] \in {probability[u], None}
                        \/ \A x \in Processes \ {w} : holder[<<"probabilities", u>>] # x
  BY <1>1, <1>3 DEF Holds, ProbabilityLock, CacheInv, FilesOK
<1> QED BY <1>1, <1>4, <1>5, <1>7, <1>8, AloneKeeps

\* Taking the lock of the index keeps the invariant.
LEMMA LockIndexKeeps ==
  ASSUME CacheInv, NEW w \in Processes, LockIndex(w) PROVE CacheInv'
<1>1. /\ at[w] = "lock_index" /\ UNCHANGED <<request, files, result>>
      /\ TakeLock(w, IndexLock(w), "check_action")
  BY DEF LockIndex
<1>2. ASSUME at'[w] = "check_action", seen'[w] = seen[w] PROVE Local(w)'
  BY <1>1, <1>2, Acting, LoadedTrace
  DEF Local, Stages, Hashing, Locked, Loading, Indexing, Compiling, Sampling
<1> QED BY <1>1, <1>2, Acting, TakeLockKeeps

\* Looking the index up again under its lock keeps the invariant.
LEMMA RecheckKeeps ==
  ASSUME CacheInv, NEW w \in Processes, Recheck(w) PROVE CacheInv'
<1>1. /\ at[w] \in {"check_action", "check_trace", "check_probability"}
      /\ UNCHANGED <<request, files, result>>
  BY DEF Recheck
<1>2. CASE Again(w)
  BY <1>1, <1>2, Acting, AgainKeeps
<1>3. CASE Go(w, AfterHash[at[w]]) /\ UNCHANGED <<holder, seen, made>>
  <2>1. AfterHash[at[w]] \in {"check_trace", "check_probability", "write_index"}
    BY <1>1 DEF AfterHash
  <2>2. at'[w] \in {"check_trace", "check_probability", "write_index"}
    BY <1>3, <2>1 DEF Go, CacheInv, Shapes
  <2>3. Alone(w) /\ seen' \in [Processes -> Seen]
    BY <1>1, <1>3 DEF Go, Alone, CacheInv, Shapes
  <2>4. Local(w)'
    BY <1>1, <1>3, <2>2, Acting, LoadedTrace
    DEF Local, Stages, Hashing, Locked, Loading, Indexing, Compiling, Sampling
  <2> QED BY <1>1, <2>3, <2>4, ReadingKeeps
<1> QED BY <1>2, <1>3 DEF Recheck

\* Replacing the index file keeps the invariant.
LEMMA WriteIndexKeeps ==
  ASSUME CacheInv, NEW w \in Processes, WriteIndex(w) PROVE CacheInv'
<1> DEFINE t == seen[w].action
           bytes == Fingerprints(w)
<1>1. at[w] = "write_index" /\ UNCHANGED <<request, action, trace, probability, seen>>
  BY DEF WriteIndex
<1>2. /\ t \in Traces /\ seen[w].trace = t /\ seen[w].probability = t /\ w \in DOMAIN request
      /\ Key(w) \in Keys
  BY <1>1, Acting, LoadedTrace DEF Indexing
<1>3. bytes = [action |-> t, trace |-> t, probability |-> t]
  BY <1>2 DEF Fingerprints, NoFiles
<1>4. Group(w) = <<t, t>>
  BY <1>2 DEF Group
<1>5. /\ index' = [index EXCEPT ![Key(w)] = Entry(t)]
      /\ result' = [result EXCEPT ![w] = Answer(t)]
  <2>1. [action |-> bytes.action, trace |-> bytes.trace, probability |-> bytes.probability,
         group |-> Group(w)] = Entry(t)
    BY <1>3, <1>4 DEF Entry
  <2> QED BY <2>1, <1>3, <1>4 DEF WriteIndex, Return, Answer
<1>6. Leave(w, "done")
  BY DEF WriteIndex
<1>7. Alone(w) /\ seen' \in [Processes -> Seen]
  BY <1>1, <1>5, <1>6, ReleasedLocks DEF Leave, Go, Keep, Alone, CacheInv, Shapes
<1>8. FilesOK'
  BY <1>1, <1>2, <1>5 DEF CacheInv, FilesOK
<1>9. at'[w] = "done" /\ result'[w] = Answer(t)
  BY <1>5, <1>6 DEF Leave, Go, CacheInv, Shapes
<1>10. Local(w)'
  BY <1>2, <1>9 DEF Local, Stages, Hashing, Locked, Loading, Indexing, Compiling, Sampling
<1>11. \A k \in Keys : action'[k] \in {action[k], None} /\ trace'[k] \in {trace[k], None}
  BY <1>1
<1>12. \A u \in Traces : probability'[u] \in {probability[u], None}
  BY <1>1
<1> QED BY <1>7, <1>8, <1>10, <1>11, <1>12, AloneKeeps

\* The death of a process, its locks lost and its files left, keeps the invariant.
LEMMA CrashKeeps ==
  ASSUME CacheInv, NEW w \in Processes, Crash(w) PROVE CacheInv'
BY Acting, AgainKeeps DEF Crash

\* What is lost is not replaced, so nobody is disturbed.
LEMMA DamageKeeps ==
  ASSUME CacheInv, Damage PROVE CacheInv'
<1>1. UNCHANGED <<request, holder, at, seen, made, result>>
  BY DEF Damage
<1>2. /\ action' \in [Keys -> Files] /\ \A k \in Keys : action'[k] \in {action[k], None}
      /\ trace' \in [Keys -> Files] /\ \A k \in Keys : trace'[k] \in {trace[k], None}
      /\ probability' \in [Traces -> Files]
      /\ \A t \in Traces : probability'[t] \in {probability[t], None}
      /\ DOMAIN index' = Keys /\ \A k \in Keys : index'[k] \in {index[k], None}
  <2> USE DEF CacheInv, FilesOK, Files
  <2>1. CASE /\ \E k \in Keys : Whole(action[k]) /\ action' = [action EXCEPT ![k] = None]
             /\ UNCHANGED <<trace, probability, index>>
    BY <2>1
  <2>2. CASE /\ \E k \in Keys : Whole(trace[k]) /\ trace' = [trace EXCEPT ![k] = None]
             /\ UNCHANGED <<action, probability, index>>
    BY <2>2
  <2>3. CASE /\ \E t \in Traces : Whole(probability[t])
                                  /\ probability' = [probability EXCEPT ![t] = None]
             /\ UNCHANGED <<action, trace, index>>
    BY <2>3
  <2>4. CASE /\ \E k \in Keys : Whole(index[k]) /\ index' = [index EXCEPT ![k] = None]
             /\ UNCHANGED <<action, trace, probability>>
    BY <2>4
  <2>5. CASE UNCHANGED <<action, trace, probability, index>>
    BY <2>5
  <2> QED BY <2>1, <2>2, <2>3, <2>4, <2>5 DEF Damage
<1>3. FilesOK'
  BY <1>2 DEF CacheInv, FilesOK, Whole
<1>4. Shapes'
  BY <1>1 DEF CacheInv, Shapes
<1>5. ASSUME NEW x \in Processes PROVE Local(x)'
  <2>1. Undisturbed(x)
    BY <1>1, <1>2, LocksOfRequest DEF Undisturbed, CacheInv
  <2> QED BY <2>1, UndisturbedKeeps DEF CacheInv
<1> QED BY <1>3, <1>4, <1>5 DEF CacheInv

\* Removing the component operations disturbs nobody.
LEMMA RemoveCorruptKeeps ==
  ASSUME CacheInv, RemoveCorrupt PROVE CacheInv'
<1>1. UNCHANGED <<request, action, trace, probability, index, holder, at, seen, made, result>>
  BY DEF RemoveCorrupt
<1>2. FilesOK' /\ Shapes'
  BY <1>1 DEF CacheInv, FilesOK, Shapes
<1>3. ASSUME NEW x \in Processes PROVE Local(x)'
  <2>1. Undisturbed(x)
    BY <1>1 DEF Undisturbed
  <2> QED BY <2>1, UndisturbedKeeps DEF CacheInv
<1> QED BY <1>2, <1>3 DEF CacheInv

-----------------------------------------------------------------------------
(* The theorems.                                                             *)

LEMMA CacheInit ==
  Init => CacheInv
<1> SUFFICES ASSUME Init PROVE CacheInv
  OBVIOUS
<1>1. FilesOK
  BY DEF Init, FilesOK, Files, Whole
<1>2. Shapes
  BY DEF Init, Shapes, Seen, NoFiles, Files
<1>3. ASSUME NEW w \in Processes PROVE Local(w)
  BY DEF Init, Local, Stages, Hashing, Locked, Loading, Indexing, Compiling, Sampling
<1> QED BY <1>1, <1>2, <1>3 DEF CacheInv

\* Every step of the processes keeps the invariant.
LEMMA CacheNext ==
  CacheInv /\ [Next]_vars => CacheInv'
<1> SUFFICES ASSUME CacheInv, [Next]_vars PROVE CacheInv'
  OBVIOUS
<1>1. CASE UNCHANGED vars
  <2>1. FilesOK'
    BY <1>1 DEF CacheInv, FilesOK, vars, files
  <2>2. Shapes'
    BY <1>1 DEF CacheInv, Shapes, vars
  <2>3. ASSUME NEW x \in Processes PROVE Local(x)'
    <3>1. Undisturbed(x)
      BY <1>1 DEF Undisturbed, vars, files
    <3> QED BY <3>1, UndisturbedKeeps DEF CacheInv
  <2> QED BY <2>1, <2>2, <2>3 DEF CacheInv
<1>2. CASE Damage
  BY <1>2, DamageKeeps
<1>3. CASE RemoveCorrupt
  BY <1>3, RemoveCorruptKeeps
<1>4. ASSUME NEW w \in Processes, Work(w) \/ Crash(w) PROVE CacheInv'
  BY <1>4, ReadIndexKeeps, CompareKeeps, ReadActionKeeps, ReadTraceKeeps, LockActionKeeps,
     LockComponentsKeeps, CompileComponentsKeeps, WriteTraceKeeps, CheckPersistedKeeps,
     WriteActionKeeps, ReadProbabilityKeeps, LockProbabilityKeeps, WriteProbabilityKeeps,
     LockIndexKeeps, RecheckKeeps, WriteIndexKeeps, CrashKeeps DEF Work
<1> QED BY <1>1, <1>2, <1>3, <1>4 DEF Next

\* The inductive invariant of the cache: what its files hold and what each process
\* of joint_cache.py knows of them, at every place it can stand or die.
THEOREM CacheInvariant ==
  Spec => []CacheInv
BY CacheInit, CacheNext, PTL DEF Spec

\* Every group that is returned, and every index entry, is of one compilation:
\* the steps of joint_cache.py that read and replace the files one by one can
\* be interleaved, and their processes can die between them, in any way.
THEOREM GroupsAlwaysGenuine ==
  Spec => []GroupsGenuine
<1>1. CacheInv => GroupsGenuine
  <2> SUFFICES ASSUME CacheInv PROVE GroupsGenuine
    OBVIOUS
  <2>1. ASSUME NEW w \in Processes, result[w] # None
        PROVE  Genuine(result[w].group, result[w].bytes)
    <3>1. PICK t \in Traces : result[w] = Answer(t)
      BY <2>1 DEF CacheInv, Local
    <3> QED BY <3>1 DEF Answer, Genuine
  <2>2. ASSUME NEW k \in Keys, Whole(index[k])
        PROVE  Genuine(index[k].group, [f \in DOMAIN NoFiles |-> index[k][f]])
    <3>1. PICK t \in Traces : index[k] = Entry(t)
      BY <2>2 DEF CacheInv, FilesOK
    <3>2. [f \in DOMAIN NoFiles |-> Entry(t)[f]] = [action |-> t, trace |-> t, probability |-> t]
      BY DEF Entry, NoFiles
    <3>3. Entry(t).group = <<t, t>>
      BY DEF Entry
    <3> QED BY <3>1, <3>2, <3>3 DEF Genuine
  <2> QED BY <2>1, <2>2 DEF GroupsGenuine
<1> QED BY <1>1, CacheInvariant, PTL

\* No process compiles or samples what is complete, and no two do the same work
\* at once: what was seen before the lock of joint_cache.py was had is looked up
\* again under it.
THEOREM NoWorkIsDoneTwice ==
  Spec => []NoWorkTwice
<1>1. CacheInv => NoWorkTwice
  <2> SUFFICES ASSUME CacheInv, NEW w \in Processes
               PROVE  /\ Compiling(w) =>
                           /\ ~(Whole(action[Key(w)]) /\ trace[Key(w)] = action[Key(w)])
                           /\ \A x \in Processes \ {w} : Compiling(x) => Key(x) # Key(w)
                      /\ Sampling(w) =>
                           /\ ~Whole(probability[seen[w].action])
                           /\ \A x \in Processes \ {w} : Sampling(x) => seen[x].action # seen[w].action
    BY DEF NoWorkTwice
  <2>1. \A x \in Processes : Compiling(x) => holder[<<"actions", Key(x)>>] = x
    BY DEF CacheInv, Local, Compiling, Locked, Holds, ActionLock
  <2>2. \A x \in Processes : Sampling(x) => holder[<<"probabilities", seen[x].action>>] = x
    BY DEF CacheInv, Local, Holds, ProbabilityLock
  <2> QED BY <2>1, <2>2 DEF CacheInv, Local
<1> QED BY <1>1, CacheInvariant, PTL
=============================================================================

------------------------ MODULE JointCalibrationCache ------------------------
(* The cache of joint calibrations (joint_cache.py) with the operation cache *)
(* its compiler uses (component_reuse.py) and the locks and atomic writes of *)
(* the experiment journal.  Producers (get_or_create) and readers (lookup)   *)
(* are processes; each access to a file and each lock is a step, and a       *)
(* process may die between any two.  For each key there is an action with    *)
(* its trace, for each trace a probability, and an index over the three that *)
(* only saves the checks.  A producer may compile a key to different traces. *)
(* It compiles from the native operations of one component, a file that is   *)
(* compiled when it is missing and refused when it is damaged.               *)
EXTENDS Naturals, FiniteSets, TLC

CONSTANTS
  Producers, Readers,
  Keys,         \* actions that may be asked for
  Requests,     \* which key each process asks for, if it does
  Variants,     \* of the trace a compilation may come to
  Nobody, None, \* no process, and no file or one that is not whole
  MaxCrashes,   \* bound: processes that die
  MaxDamage     \* bound: files that are lost or damaged by others

ASSUME CacheAssumption ==
  /\ Producers \cap Readers = {} /\ Nobody \notin Producers \cup Readers
  /\ None \notin Keys \X Variants
  /\ \A q \in Requests : q \in [DOMAIN q -> Keys]
  /\ MaxCrashes \in Nat /\ MaxDamage \in Nat

Processes == Producers \cup Readers

\* One component operation serves every key, kept in one file.
ComponentLock == <<"component_operations">>

\* The traces; an action names its trace by hash, and is named as it here.
Traces == Keys \X Variants

VARIABLES
  request,      \* the key each process asks for
  action,       \* action.json of each key: the trace it is for
  trace,        \* trace.json of each key
  probability,  \* probability.json of each trace: the trace it was sampled from
  index,        \* index.json of each key: [action, trace, probability, group]
  operations,   \* operations.json: "absent", "whole" or "corrupt"
  holder,       \* who holds each lock
  at,           \* what each process does next
  seen,         \* the bytes it has read last of each file (validated_bytes)
  made,         \* what it has compiled or sampled under the lock it holds
  result,       \* [group, bytes] it returned
  crashes, damages

files == <<action, trace, probability, index, operations>>
vars == <<request, files, holder, at, seen, made, result, crashes, damages>>

Locks == {ComponentLock} \cup ({"actions", "read_indexes"} \X Keys) \cup ({"probabilities"} \X Traces)

NoFiles == [action |-> None, trace |-> None, probability |-> None]
Whole(file) == file # None

Key(w) == request[w]
Reading(w) == w \in Readers

\* What is at a path of the request now; the probability is that of the trace
\* of the action that was read.
Stored(w, file) ==
  CASE file = "action" -> action[Key(w)]
    [] file = "trace" -> trace[Key(w)]
    [] file = "probability" -> IF Whole(seen[w].action) THEN probability[seen[w].action] ELSE None

Init ==
  /\ request \in Requests
  /\ action = [k \in Keys |-> None] /\ trace = [k \in Keys |-> None]
  /\ probability = [t \in Traces |-> None]
  /\ index = [k \in Keys |-> None]
  /\ operations = "absent"
  /\ holder = [l \in Locks |-> Nobody]
  /\ at = [w \in Processes |-> IF w \in DOMAIN request THEN "read_index" ELSE "done"]
  /\ seen = [w \in Processes |-> NoFiles]
  /\ made = [w \in Processes |-> None]
  /\ result = [w \in Processes |-> None]
  /\ crashes = 0 /\ damages = 0

Go(w, where) == at' = [at EXCEPT ![w] = where]
Keep(w, what) == made' = [made EXCEPT ![w] = what]
See(w, file) == seen' = [seen EXCEPT ![w][file] = Stored(w, file)]

Free(l) == holder[l] = Nobody
Holds(w, l) == holder[l] = w
Released(w) == [l \in Locks |-> IF holder[l] = w THEN Nobody ELSE holder[l]]

\* Every lock of the process is released.
Leave(w, where) ==
  /\ Go(w, where)
  /\ holder' = Released(w)
  /\ Keep(w, None)

\* The request is deferred, fails or dies, and is made again by the task it
\* belongs to.
Again(w) == Leave(w, "read_index") /\ seen' = [seen EXCEPT ![w] = NoFiles]

ActionLock(w) == <<"actions", Key(w)>>
ProbabilityLock(w) == <<"probabilities", seen[w].action>>
IndexLock(w) == <<"read_indexes", Key(w)>>

\* _key_lock: taken at once, or the request is deferred.
TakeLock(w, l, next) ==
  IF Free(l) THEN /\ holder' = [holder EXCEPT ![l] = w]
                  /\ Go(w, next) /\ Keep(w, None) /\ UNCHANGED seen
             ELSE Again(w)

-----------------------------------------------------------------------------
(* The index: its fingerprints are compared with the bytes of the files, one *)
(* after another.                                                            *)

\* The index names a probability by its action, like the files do.
ReadIndex(w) ==
  /\ at[w] = "read_index"
  /\ IF Whole(index[Key(w)])
     THEN /\ Keep(w, index[Key(w)]) /\ Go(w, "hash_action")
          /\ seen' = [seen EXCEPT ![w].action = index[Key(w)].action]
     ELSE /\ Go(w, "read_action") /\ UNCHANGED <<made, seen>>
  /\ UNCHANGED <<request, files, holder, result, crashes, damages>>

\* The next file to be compared, and what to do if it is as it should be.
Compared == [hash_action |-> "action", hash_trace |-> "trace", hash_probability |-> "probability",
             check_action |-> "action", check_trace |-> "trace", check_probability |-> "probability"]
AfterHash == [hash_action |-> "hash_trace", hash_trace |-> "hash_probability",
              hash_probability |-> "done",
              check_action |-> "check_trace", check_trace |-> "check_probability",
              check_probability |-> "write_index"]

Return(w, group, bytes) == result' = [result EXCEPT ![w] = [group |-> group, bytes |-> bytes]]

\* The checks may read on after a difference; nothing they do depends on it.
Compare(w) ==
  /\ at[w] \in {"hash_action", "hash_trace", "hash_probability"}
  /\ LET file == Compared[at[w]] IN
     IF Stored(w, file) = made[w][file]
     THEN /\ Go(w, AfterHash[at[w]])
          /\ IF at[w] = "hash_probability"
             THEN /\ Return(w, made[w].group, [f \in DOMAIN NoFiles |-> made[w][f]])
                  /\ Keep(w, None)
             ELSE UNCHANGED <<result, made>>
          /\ UNCHANGED seen
     ELSE /\ Go(w, "read_action") /\ Keep(w, None)
          /\ seen' = [seen EXCEPT ![w] = NoFiles]
          /\ UNCHANGED result
  /\ UNCHANGED <<request, files, holder, crashes, damages>>

-----------------------------------------------------------------------------
(* The action and its trace.                                                 *)

ReadAction(w) ==
  /\ at[w] = "read_action"
  /\ See(w, "action") /\ Go(w, "read_trace")
  /\ UNCHANGED <<request, files, holder, made, result, crashes, damages>>

\* Variant: an action and a trace that are both there go together.
LoadedAny(w) == Whole(seen[w].action) /\ Whole(trace[Key(w)])

\* _check_action: the action is for this trace.
Loaded(w) == Whole(seen[w].action) /\ trace[Key(w)] = seen[w].action

\* Loaded, a producer gives up the lock; not loaded, it takes it, looks again,
\* compiles, and must then find what it published.
ReadTrace(w) ==
  /\ at[w] = "read_trace"
  /\ \/ Loaded(w) /\ See(w, "trace") /\ Leave(w, "read_probability")
     \/ ~Loaded(w) /\ Reading(w) /\ See(w, "trace") /\ Leave(w, "missed")
     \/ /\ ~Loaded(w) /\ ~Reading(w) /\ ~Holds(w, ActionLock(w))
        /\ See(w, "trace") /\ Go(w, "lock_action") /\ UNCHANGED <<holder, made>>
     \/ /\ ~Loaded(w) /\ Holds(w, ActionLock(w)) /\ made[w] = None
        /\ See(w, "trace") /\ Go(w, "lock_components") /\ UNCHANGED <<holder, made>>
     \/ ~Loaded(w) /\ Holds(w, ActionLock(w)) /\ made[w] # None /\ Again(w)
  /\ UNCHANGED <<request, files, result, crashes, damages>>

\* Variant: what was missing before the lock is compiled without another look.
LockActionBlindly(w) ==
  /\ at[w] = "lock_action"
  /\ TakeLock(w, ActionLock(w), "lock_components")
  /\ UNCHANGED <<request, files, result, crashes, damages>>

LockAction(w) ==
  /\ at[w] = "lock_action"
  /\ TakeLock(w, ActionLock(w), "read_action")
  /\ UNCHANGED <<request, files, result, crashes, damages>>

\* ComponentOperationCache.get, inside the lock of the action: the operations
\* are loaded or compiled under a lock that all keys share.
LockComponents(w) ==
  /\ at[w] = "lock_components"
  /\ TakeLock(w, ComponentLock, "compile_components")
  /\ UNCHANGED <<request, files, result, crashes, damages>>

\* Variant: a request that finds them corrupt dies with the lock it has.
CompileComponentsHolding(w) ==
  /\ at[w] = "compile_components"
  /\ \/ /\ operations = "corrupt"                  \* COMPONENT_OPERATION_CACHE_CORRUPT
        /\ Go(w, "read_index") /\ Keep(w, None)
        /\ seen' = [seen EXCEPT ![w] = NoFiles]
        /\ holder' = [l \in Locks |-> IF holder[l] = w THEN None ELSE holder[l]]
        /\ UNCHANGED operations
     \/ /\ operations # "corrupt" /\ operations' = "whole"
        /\ holder' = [holder EXCEPT ![ComponentLock] = Nobody]
        /\ Go(w, "write_trace") /\ UNCHANGED <<seen, made>>
  /\ UNCHANGED <<request, action, trace, probability, index, result, crashes, damages>>

\* Corrupt operations fail the request and are never compiled again; missing
\* ones are compiled and written in place of nothing.
CompileComponents(w) ==
  /\ at[w] = "compile_components"
  /\ \/ operations = "corrupt" /\ Again(w) /\ UNCHANGED operations
                                                    \* COMPONENT_OPERATION_CACHE_CORRUPT
     \/ /\ operations # "corrupt" /\ operations' = "whole"
        /\ holder' = [holder EXCEPT ![ComponentLock] = Nobody]
        /\ Go(w, "write_trace") /\ UNCHANGED <<seen, made>>
  /\ UNCHANGED <<request, action, trace, probability, index, result, crashes, damages>>

\* What a compilation comes to is known once its trace is written.
WriteTrace(w) ==
  /\ at[w] = "write_trace"
  /\ \E v \in Variants : /\ Keep(w, <<Key(w), v>>)
                         /\ trace' = [trace EXCEPT ![Key(w)] = <<Key(w), v>>]
  /\ Go(w, "check_persisted")
  /\ UNCHANGED <<request, action, probability, index, operations, holder, seen, result,
                 crashes, damages>>

CheckPersisted(w) ==
  /\ at[w] = "check_persisted"
  /\ IF trace[Key(w)] = made[w] THEN Go(w, "write_action") /\ UNCHANGED <<holder, seen, made>>
                                ELSE Again(w)
  /\ UNCHANGED <<request, files, result, crashes, damages>>

WriteAction(w) ==
  /\ at[w] = "write_action"
  /\ action' = [action EXCEPT ![Key(w)] = made[w]]
  /\ Go(w, "read_action")
  /\ UNCHANGED <<request, trace, probability, index, operations, holder, seen, made, result,
                 crashes, damages>>

-----------------------------------------------------------------------------
(* The probability of the trace, then the index.                             *)

\* A producer goes on to the index, a reader returns.
ReadProbability(w) ==
  LET found == probability[seen[w].action]
      read == See(w, "probability")
      locked == Holds(w, ProbabilityLock(w))
  IN
  /\ at[w] = "read_probability"
  /\ \/ Whole(found) /\ ~Reading(w) /\ read /\ Leave(w, "lock_index") /\ UNCHANGED result
     \/ /\ Whole(found) /\ Reading(w) /\ read /\ Leave(w, "done")
        /\ Return(w, <<seen[w].action, found>>, [seen[w] EXCEPT !.probability = found])
     \/ ~Whole(found) /\ Reading(w) /\ read /\ Leave(w, "missed") /\ UNCHANGED result
     \/ /\ ~Whole(found) /\ ~Reading(w) /\ ~locked
        /\ read /\ Go(w, "lock_probability") /\ UNCHANGED <<holder, made, result>>
     \/ /\ ~Whole(found) /\ locked /\ made[w] = None
        /\ read /\ Go(w, "write_probability") /\ UNCHANGED <<holder, made, result>>
     \/ ~Whole(found) /\ locked /\ made[w] # None /\ Again(w) /\ UNCHANGED result
  /\ UNCHANGED <<request, files, crashes, damages>>

LockProbability(w) ==
  /\ at[w] = "lock_probability"
  /\ TakeLock(w, ProbabilityLock(w), "read_probability")
  /\ UNCHANGED <<request, files, result, crashes, damages>>

\* What is sampled is the trace in memory.
WriteProbability(w) ==
  /\ at[w] = "write_probability"
  /\ Keep(w, seen[w].trace)
  /\ probability' = [probability EXCEPT ![seen[w].action] = seen[w].trace]
  /\ Go(w, "read_probability")
  /\ UNCHANGED <<request, action, trace, index, operations, holder, seen, result,
                 crashes, damages>>

LockIndex(w) ==
  /\ at[w] = "lock_index"
  /\ TakeLock(w, IndexLock(w), "check_action")
  /\ UNCHANGED <<request, files, result, crashes, damages>>

\* _publish_read_index: the files must still be the bytes that were read.
Recheck(w) ==
  /\ at[w] \in {"check_action", "check_trace", "check_probability"}
  /\ IF Stored(w, Compared[at[w]]) = seen[w][Compared[at[w]]]
     THEN Go(w, AfterHash[at[w]]) /\ UNCHANGED <<holder, seen, made>>
     ELSE Again(w)
  /\ UNCHANGED <<request, files, result, crashes, damages>>

Group(w) == <<seen[w].action, seen[w].probability>>

\* Variant: the fingerprints are of what the files are by now.
FingerprintsNow(w) == [f \in DOMAIN NoFiles |-> Stored(w, f)]

Fingerprints(w) == [f \in DOMAIN NoFiles |-> seen[w][f]]

WriteIndex(w) ==
  /\ at[w] = "write_index"
  /\ LET bytes == Fingerprints(w) IN
     /\ index' = [index EXCEPT ![Key(w)] =
          [action |-> bytes.action, trace |-> bytes.trace, probability |-> bytes.probability,
           group |-> Group(w)]]
     /\ Return(w, Group(w), bytes)
  /\ Leave(w, "done")
  /\ UNCHANGED <<request, action, trace, probability, operations, seen, crashes, damages>>

-----------------------------------------------------------------------------
(* Faults.  The death of a reader changes nothing for the others.            *)

\* Variant: the lock is a file that stays.
CrashHolding(w) ==
  /\ w \in Producers /\ at[w] # "done"
  /\ crashes < MaxCrashes /\ crashes' = crashes + 1
  /\ Go(w, "read_index") /\ Keep(w, None)
  /\ seen' = [seen EXCEPT ![w] = NoFiles]
  /\ holder' = [l \in Locks |-> IF holder[l] = w THEN None ELSE holder[l]]
  /\ UNCHANGED <<request, files, result, damages>>

\* The operating system releases the locks of the dead.
Crash(w) ==
  /\ w \in Producers /\ at[w] # "done"
  /\ crashes < MaxCrashes /\ crashes' = crashes + 1
  /\ Again(w)
  /\ UNCHANGED <<request, files, result, damages>>

\* A file is lost or damaged.  Damaged operations are not as good as lost ones.
Damage ==
  /\ damages < MaxDamage
  /\ damages' = damages + 1
  /\ \/ /\ \E k \in Keys : Whole(action[k]) /\ action' = [action EXCEPT ![k] = None]
        /\ UNCHANGED <<trace, probability, index, operations>>
     \/ /\ \E k \in Keys : Whole(trace[k]) /\ trace' = [trace EXCEPT ![k] = None]
        /\ UNCHANGED <<action, probability, index, operations>>
     \/ /\ \E t \in Traces : Whole(probability[t]) /\ probability' = [probability EXCEPT ![t] = None]
        /\ UNCHANGED <<action, trace, index, operations>>
     \/ /\ \E k \in Keys : Whole(index[k]) /\ index' = [index EXCEPT ![k] = None]
        /\ UNCHANGED <<action, trace, probability, operations>>
     \/ /\ operations = "whole" /\ operations' \in {"absent", "corrupt"}
        /\ UNCHANGED <<action, trace, probability, index>>
  /\ UNCHANGED <<request, holder, at, seen, made, result, crashes>>

\* Somebody removes the operations that are corrupt, or nobody does.
RemoveCorrupt ==
  /\ operations = "corrupt" /\ operations' = "absent"
  /\ UNCHANGED <<request, action, trace, probability, index, holder, at, seen, made, result,
                 crashes, damages>>

Work(w) ==
  \/ ReadIndex(w) \/ Compare(w)
  \/ ReadAction(w) \/ ReadTrace(w) \/ LockAction(w)
  \/ LockComponents(w) \/ CompileComponents(w)
  \/ WriteTrace(w) \/ CheckPersisted(w) \/ WriteAction(w)
  \/ ReadProbability(w) \/ LockProbability(w) \/ WriteProbability(w)
  \/ LockIndex(w) \/ Recheck(w) \/ WriteIndex(w)

Next == Damage \/ RemoveCorrupt \/ \E w \in Processes : Work(w) \/ Crash(w)

Spec == Init /\ [][Next]_vars /\ \A w \in Processes : WF_vars(Work(w))

-----------------------------------------------------------------------------
(* Properties.                                                               *)

\* A group is of one compilation: its probability was sampled from the trace
\* its action was compiled with, and the bytes it is certified by are the
\* bytes it was made from, though action, trace, probability and index are
\* read and replaced one by one by processes that may die between them.
Genuine(group, bytes) ==
  /\ group[1] = group[2]
  /\ bytes = [action |-> group[1], trace |-> group[1], probability |-> group[2]]

GroupsGenuine ==
  /\ \A w \in Processes : result[w] # None => Genuine(result[w].group, result[w].bytes)
  /\ \A k \in Keys : LET i == index[k] IN Whole(i) =>
       Genuine(i.group, [f \in DOMAIN NoFiles |-> i[f]])

\* Nobody compiles or samples what is complete, and no two processes do the
\* same work at once, whatever they saw before they had the lock.
Compiling(w) == at[w] \in {"lock_components", "compile_components", "write_trace"}
Sampling(w) == at[w] = "write_probability"

NoWorkTwice ==
  \A w \in Processes :
    /\ Compiling(w) =>
         /\ ~(Whole(action[Key(w)]) /\ trace[Key(w)] = action[Key(w)])
         /\ \A x \in Processes \ {w} : Compiling(x) => Key(x) # Key(w)
    /\ Sampling(w) =>
         /\ ~Whole(probability[seen[w].action])
         /\ \A x \in Processes \ {w} : Sampling(x) => seen[x].action # seen[w].action

\* The action of the key and its trace are there and go together.
Compiled(k) == Whole(action[k]) /\ trace[k] = action[k]

\* Every producer gets its group, through deferrals, deaths and damage, unless
\* the component operations stay corrupt: that keeps it waiting for good, but
\* only for a key that was not compiled before, or whose files were lost.
Served ==
  \A w \in Producers :
    <>(at[w] = "done") \/ <>[](operations = "corrupt" /\ ~Compiled(Key(w)))
=============================================================================

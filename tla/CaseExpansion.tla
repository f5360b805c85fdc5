--------------------------- MODULE CaseExpansion ---------------------------
(***************************************************************************)
(* The engine of cases/engine.py: it expands the root calls of a case, the  *)
(* continuations their sampled outcomes select and their retries into one   *)
(* static call graph.  A queue ordered by time holds what is to be done     *)
(* next; every invocation takes itself through start, release and advance.  *)
(*                                                                         *)
(* An invocation is named by its path: <<root>> for a root call, and for a  *)
(* continuation the path of its parent with the attempt, branch and step    *)
(* that selected it, the arguments of the digest the engine names it by.    *)
(* A call is named by its place in calls.                                   *)
(***************************************************************************)
EXTENDS Integers, FiniteSets, SequencesExt, FiniteSetsExt, TLC

CONSTANTS
  Cases,      \* the inputs: root calls, component catalogue, expansion limit
  None        \* no failure, no result-ready offset, no branch

(***************************************************************************)
(* A case gives every root its component, the roles it binds, its          *)
(* predecessors and its attempt budget, and every component of the         *)
(* catalogue its roles, the offsets of its exit and of its result, and the  *)
(* branches its event may select: steps, then a transition.                *)
(***************************************************************************)
VARIABLES
  case,       \* the input being expanded
  nodes,      \* the invocations known so far
  queue,      \* what is due, in the order it was enqueued
  calls,      \* the bodies expanded so far
  deliveries, \* the invocations that delivered, with their attempt
  failure,    \* None, or why the expansion stopped
  clock

vars == <<case, nodes, queue, calls, deliveries, failure, clock>>

\* Predecessors are known roots and no cycle holds a root back for ever.
ValidGraph(c) ==
  /\ \A r \in DOMAIN c.roots : c.roots[r].after \subseteq DOMAIN c.roots
  /\ \A some \in SUBSET DOMAIN c.roots \ {{}} :
       \E r \in some : c.roots[r].after \cap some = {}

ASSUME CaseAssumption == \A c \in Cases : ValidGraph(c)

Catalog == case.catalog

Known(component) == component \in DOMAIN Catalog

Component(n) == Catalog[nodes[n].component]

\* A fresh _Node.
Node(component, roles, attempts, after) ==
  [component |-> component, roles |-> roles, attempts |-> attempts,
   after |-> after, attempt |-> 0, completed |-> FALSE, terminal |-> None,
   call |-> None, branch |-> None, next |-> 1]

Due(time, n, action) == [time |-> time, node |-> n, action |-> action]

IsRoot(n) == Len(n) = 1

Parent(n) == Front(n)

Init ==
  /\ case \in Cases
  /\ nodes = [n \in {<<r>> : r \in DOMAIN case.roots} |->
                LET root == case.roots[n[1]]
                IN  Node(root.component, root.roles, root.attempts, {})]
  /\ queue = LET free == {r \in DOMAIN case.roots : case.roots[r].after = {}}
             IN  [i \in 1..Cardinality(free) |->
                    Due(0, <<SetToSortSeq(free, <)[i]>>, "start")]
  /\ calls = <<>>
  /\ deliveries = {}
  /\ failure = None
  /\ clock = 0

----------------------------------------------------------------------------
(***************************************************************************)
(* The heap orders by time, then by the invocation's name, then by the      *)
(* serial number of the entry.  Continuations are named by digests and      *)
(* roots by the caller, so of different invocations due at one time any may *)
(* come first.                                                              *)
(***************************************************************************)
Earliest ==
  {i \in DOMAIN queue :
     /\ \A j \in DOMAIN queue : queue[i].time <= queue[j].time
     /\ \A j \in 1..(i - 1) :
          queue[j].time = queue[i].time => queue[j].node # queue[i].node}

Fail(n, code) ==
  failure' = [code |-> code, node |-> n, attempt |-> nodes[n].attempt]

StartFault(n) ==
  CASE ~Known(nodes[n].component) -> "UNSUPPORTED_COMPONENT"
    [] Known(nodes[n].component) /\ nodes[n].roles # Component(n).roles
         -> "INVALID_PARTICIPANT_BINDING"
    [] Known(nodes[n].component) /\ nodes[n].roles = Component(n).roles
         /\ Len(calls) >= case.limit -> "EXPANSION_BUDGET_EXHAUSTED"
    [] OTHER -> None

\* The latest of a call's exit and its result.
Released(call) ==
  IF call.ready = None THEN call.exit ELSE Max({call.exit, call.ready})

Start(n, time, rest) ==
  LET component == Component(n)
      call == [node |-> n, attempt |-> nodes[n].attempt,
               after |-> nodes[n].after, start |-> time,
               exit |-> time + component.exit,
               ready |-> IF component.ready = None THEN None
                         ELSE time + component.ready]
  IN  IF StartFault(n) # None
        THEN /\ Fail(n, StartFault(n))
             /\ queue' = rest
             /\ UNCHANGED <<nodes, calls, deliveries>>
        ELSE /\ calls' = Append(calls, call)
             /\ nodes' = [nodes EXCEPT ![n].call = Len(calls) + 1,
                                       ![n].terminal = Len(calls) + 1]
             /\ queue' = Append(rest, Due(Released(call), n, "release"))
             /\ UNCHANGED <<deliveries, failure>>

(***************************************************************************)
(* A whole invocation is finished: a continuation hands its last call to    *)
(* its parent and lets it advance; a root starts the roots whose           *)
(* predecessors have now all completed.                                     *)
(***************************************************************************)
Freed(n) ==
  {r \in DOMAIN case.roots :
     /\ IsRoot(n) /\ n[1] \in case.roots[r].after
     /\ \A p \in case.roots[r].after : <<p>> = n \/ nodes[<<p>>].completed}

\* Variant: a parent goes on after its own body, not after its continuations.
FinishedBodyOnly(n) ==
  LET done == [nodes EXCEPT ![n].completed = TRUE]
      freed == {<<r>> : r \in Freed(n)}
  IN  [m \in freed |-> [done[m] EXCEPT !.after =
         {nodes[<<p>>].terminal : p \in case.roots[m[1]].after}]] @@ done

FinishedNodes(n) ==
  LET done == [nodes EXCEPT ![n].completed = TRUE]
      freed == {<<r>> : r \in Freed(n)}
      behind(m) == {nodes[<<p>>].terminal : p \in case.roots[m[1]].after}
  IN  IF IsRoot(n)
        THEN [m \in freed |-> [done[m] EXCEPT !.after = behind(m)]] @@ done
        ELSE [done EXCEPT ![Parent(n)].terminal = nodes[n].terminal]

FinishedDue(n, time) ==
  LET order == SetToSeq(Freed(n))
  IN  IF IsRoot(n)
        THEN [i \in DOMAIN order |-> Due(time, <<order[i]>>, "start")]
        ELSE <<Due(time, Parent(n), "advance")>>

Finish(n, time, rest) ==
  /\ nodes' = FinishedNodes(n)
  /\ queue' = rest \o FinishedDue(n, time)

(***************************************************************************)
(* The backend draws one whole outcome, hence one branch; a draw outside    *)
(* the declared mass is a failure of the case.                              *)
(***************************************************************************)
Release(n, time, rest) ==
  \/ /\ Component(n).ready = None
     /\ Finish(n, time, rest)
     /\ UNCHANGED <<calls, deliveries, failure>>
  \/ /\ Component(n).ready # None
     /\ \E branch \in Component(n).branches :
          nodes' = [nodes EXCEPT ![n].branch = branch, ![n].next = 1]
     /\ queue' = Append(rest, Due(time, n, "advance"))
     /\ UNCHANGED <<calls, deliveries, failure>>
  \/ /\ Component(n).ready # None
     /\ Fail(n, "EVENT_BACKEND_FAILURE")
     /\ queue' = rest
     /\ UNCHANGED <<nodes, calls, deliveries>>

StepFault(n, step) ==
  CASE ~Known(step.component) -> "UNSUPPORTED_COMPONENT"
    [] Known(step.component)
         /\ \/ Cardinality(step.roles) # Cardinality(Catalog[step.component].roles)
            \/ ~(step.roles \subseteq nodes[n].roles)
         -> "INVALID_PARTICIPANT_BINDING"
    [] OTHER -> None

ExpandStep(n, time, rest) ==
  LET node == nodes[n]
      step == node.branch.steps[node.next]
      child == Append(n, [attempt |-> node.attempt, branch |-> node.branch.key,
                          step |-> node.next])
  IN  IF StepFault(n, step) # None
        THEN /\ Fail(n, StepFault(n, step))
             /\ queue' = rest
             /\ UNCHANGED nodes
        ELSE /\ nodes' = child :> Node(step.component,
                                       Catalog[step.component].roles,
                                       node.attempts, {node.terminal})
                           @@ [nodes EXCEPT ![n].next = @ + 1]
             /\ queue' = Append(rest, Due(time, child, "start"))
             /\ UNCHANGED failure

Retry(n, time, rest) ==
  IF nodes[n].attempt + 1 >= nodes[n].attempts
    THEN /\ Fail(n, "RETRY_BUDGET_EXHAUSTED")
         /\ queue' = rest
         /\ UNCHANGED nodes
    ELSE /\ nodes' = [nodes EXCEPT ![n].attempt = @ + 1,
                                   ![n].after = {nodes[n].terminal}]
         /\ queue' = Append(rest, Due(time, n, "start"))
         /\ UNCHANGED failure

Advance(n, time, rest) ==
  LET node == nodes[n]
      more == node.next <= Len(node.branch.steps)
  IN  /\ UNCHANGED calls
      /\ \/ more /\ ExpandStep(n, time, rest) /\ UNCHANGED deliveries
         \/ ~more /\ node.branch.transition = "retry"
              /\ Retry(n, time, rest) /\ UNCHANGED deliveries
         \/ ~more /\ node.branch.transition = "deliver"
              /\ deliveries' = deliveries
                   \cup {[node |-> n, attempt |-> node.attempt, at |-> time]}
              /\ Finish(n, time, rest) /\ UNCHANGED failure
         \/ ~more /\ node.branch.transition = "continue"
              /\ Finish(n, time, rest) /\ UNCHANGED <<deliveries, failure>>

Ended == queue = <<>> \/ failure # None

\* One turn of run().
Turn(i) ==
  LET due == queue[i]
      rest == RemoveAt(queue, i)
  IN  /\ clock' = due.time
      /\ UNCHANGED case
      /\ \/ due.action = "start" /\ Start(due.node, due.time, rest)
         \/ due.action = "release" /\ Release(due.node, due.time, rest)
         \/ due.action = "advance" /\ Advance(due.node, due.time, rest)

Next == ~Ended /\ \E i \in Earliest : Turn(i)

Spec == Init /\ [][Next]_vars /\ WF_vars(Next)

----------------------------------------------------------------------------
(***************************************************************************)
(* Where a call stands in the protocol of its root: the attempt and step of *)
(* every continuation on the way down, then its own attempt, whose body     *)
(* comes before the attempt's steps.                                        *)
(***************************************************************************)
Place(call) ==
  Append([k \in 1..(Len(call.node) - 1) |->
            <<call.node[k + 1].attempt, call.node[k + 1].step>>],
         <<call.attempt, 0>>)

Earlier(a, b) == a[1] < b[1] \/ (a[1] = b[1] /\ a[2] < b[2])

\* The order of the text: the first place where two calls differ decides.
InTextOrder(p, q) ==
  \E k \in DOMAIN p \cap DOMAIN q :
    /\ \A j \in 1..(k - 1) : p[j] = q[j]
    /\ Earlier(p[k], q[k])

\* The roots that a root waits for, over any number of roots between.
RootBefore(r, s) ==
  LET grow[k \in 0..Cardinality(DOMAIN case.roots)] ==
        IF k = 0 THEN case.roots[s].after
        ELSE grow[k - 1] \cup UNION {case.roots[q].after : q \in grow[k - 1]}
  IN  r \in grow[Cardinality(DOMAIN case.roots)]

MustPrecede(c, d) ==
  IF c.node[1] = d.node[1] THEN InTextOrder(Place(c), Place(d))
  ELSE RootBefore(c.node[1], d.node[1])

\* The calls a call has behind it in the exported graph.
Behind[i \in Nat] ==
  IF i = 0 THEN {} ELSE calls[i].after \cup UNION {Behind[j] : j \in calls[i].after}

(***************************************************************************)
(* A case that ends without a failure has completed every invocation, with  *)
(* every step of the branches it took (the assertion of export and the      *)
(* meaning of "complete"); and of every case, partial ones included, the    *)
(* exported graph orders two calls exactly when the protocols do: calls of  *)
(* one root in the order of its text through every nesting and retry, calls *)
(* of two roots when one waits for the other.  A call starts at the moment  *)
(* the last call it comes after has exited and has its result.              *)
(***************************************************************************)
Resolved ==
  \A n \in DOMAIN nodes :
    /\ nodes[n].completed
    /\ nodes[n].branch # None =>
         /\ nodes[n].branch.transition # "retry"
         /\ nodes[n].next = Len(nodes[n].branch.steps) + 1

GraphExact ==
  \A i, j \in DOMAIN calls :
    (i \in Behind[j]) <=> MustPrecede(calls[i], calls[j])

StartsWhenFree ==
  \A i \in DOMAIN calls :
    calls[i].start = Max({0} \cup {Released(calls[j]) : j \in calls[i].after})

ExportTrue ==
  Ended => (failure = None => Resolved) /\ GraphExact /\ StartsWhenFree
============================================================================

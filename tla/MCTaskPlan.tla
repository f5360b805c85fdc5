------------------------------ MODULE MCTaskPlan ------------------------------
(* Small campaigns for TLC.                                                *)
EXTENDS TaskPlan

CONSTANTS first, second, cached, report

MCOrder == <<report, first, cached, second>>

(* A report waits for the first task.                                      *)
MCNeeds == [t \in Tasks |-> IF t = report THEN {first} ELSE {}]

(* Two tasks may miss the same cache entry.                                *)
SharedRequests == [t \in Tasks |-> IF t \in {first, second} THEN {{cached}} ELSE {}]

(* Two tasks of which each may ask for the other.                          *)
MutualRequests == [t \in Tasks |-> CASE t = first -> {{cached}, {second}}
                                     [] t = second -> {{first}}
                                     [] OTHER -> {}]

(* One task, which asks for nothing.                                       *)
AloneRequests == [t \in Tasks |-> {}]

Quiet ==
  [plan |-> {first, second}, terminalMode |-> {}, finalizers |-> {}, workers |-> 1,
   attempts |-> 1, refreshes |-> 1, starts |-> 2, damage |-> 1, deferrals |-> 0,
   clocks |-> {}, samples |-> {"fits"}]

(* Two planned tasks; one task with retries; a driver that asks for work   *)
(* and a report that waits for it, under both deadlines and every sample.  *)
MCCampaigns ==
  {Quiet,
   [Quiet EXCEPT !.plan = {first}, !.attempts = 2, !.damage = 2],
   [Quiet EXCEPT !.plan = {first, report}, !.terminalMode = {first, report},
                 !.finalizers = {report}, !.refreshes = 0,
                 !.clocks = {"reserve", "over"},
                 !.samples = {"fits", "reserve", "brims", "full"}]}

(* Two workers, retries, and answers that defer.                           *)
BusyCampaigns == {[Quiet EXCEPT !.workers = 2, !.attempts = 2, !.starts = 1, !.deferrals = 1]}

DamagedCampaigns == {[Quiet EXCEPT !.plan = {first}, !.starts = 4, !.damage = 2]}
===============================================================================

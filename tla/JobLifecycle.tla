---------------------------- MODULE JobLifecycle ----------------------------
(***************************************************************************)
(* What the queue promises to a caller that enqueues a job, without        *)
(* leases, tokens, workers or time: a job waits, is held by one claim at a *)
(* time, and every claim ends in one of three ways.  It is given back for  *)
(* free, it spends one unit of the failure budget, or it ends the job.     *)
(* Claims of several jobs can be given up together, when the queue         *)
(* recovers a batch of them.                                               *)
(***************************************************************************)
EXTENDS Naturals

CONSTANTS JobIds, MaxAttempts

VARIABLES
    stage,  \* "absent", "waiting", "held", "succeeded" or "failed"
    spent   \* units of the failure budget that are gone

lifecycleVars == <<stage, spent>>

LifecycleInit ==
    /\ stage = [j \in JobIds |-> "absent"]
    /\ spent = [j \in JobIds |-> 0]

Move(j, from, to) ==
    /\ stage[j] = from
    /\ stage' = [stage EXCEPT ![j] = to]
    /\ UNCHANGED spent

Submit(j) == Move(j, "absent", "waiting")
Withdraw(j) == Move(j, "waiting", "failed")
Take(j) == Move(j, "waiting", "held") /\ spent[j] < MaxAttempts
GiveBack(j) == Move(j, "held", "waiting")
Finish(j) == Move(j, "held", "succeeded")
GiveUp(j) == Move(j, "held", "failed")

\* Held jobs lose their claims; the one whose budget is gone has failed.
Spend(lost) ==
    /\ \A j \in lost : stage[j] = "held"
    /\ spent' = [j \in JobIds |-> IF j \in lost THEN spent[j] + 1 ELSE spent[j]]
    /\ stage' = [j \in JobIds |->
                    IF j \in lost
                    THEN IF spent[j] + 1 >= MaxAttempts THEN "failed" ELSE "waiting"
                    ELSE stage[j]]

LifecycleNext ==
    \/ \E j \in JobIds :
          \/ Submit(j) \/ Withdraw(j) \/ Take(j)
          \/ GiveBack(j) \/ Finish(j) \/ GiveUp(j)
    \/ \E lost \in SUBSET JobIds : Spend(lost)

LifecycleSpec == LifecycleInit /\ [][LifecycleNext]_lifecycleVars
=============================================================================

------------------------------ MODULE JobLedger ------------------------------
(***************************************************************************)
(* What the provision queue promises to the users who enqueue work, with   *)
(* no worker process, flag, log or request in sight: jobs are numbered in  *)
(* the order they were accepted, the oldest waiting job is taken next, the *)
(* script of a job is started at most once, a job ends at most once, and   *)
(* the only thing that can happen to an ended job is that it is forgotten. *)
(***************************************************************************)
EXTENDS Naturals

CONSTANT JobId          \* 1..n, the order of remote_server_provision_jobs.createdAt

VARIABLES phase,        \* what has become of each job
          runs          \* how often the script of each job was started

ledgerVars == <<phase, runs>>

Phase == {"none", "pending", "running", "done", "error", "gone"}

LedgerInit ==
    /\ phase = [j \in JobId |-> "none"]
    /\ runs = [j \in JobId |-> 0]

Accept(j) ==
    /\ phase[j] = "none"
    /\ \A i \in JobId : i < j => phase[i] # "none"
    /\ phase' = [phase EXCEPT ![j] = "pending"]
    /\ UNCHANGED runs

Take(j) ==
    /\ phase[j] = "pending"
    /\ \A i \in JobId : i < j => phase[i] # "pending"
    /\ phase' = [phase EXCEPT ![j] = "running"]
    /\ UNCHANGED runs

\* A job whose row was deleted after it was taken still runs its script.
RunScript(j) ==
    /\ phase[j] \in {"running", "gone"}
    /\ runs[j] = 0
    /\ runs' = [runs EXCEPT ![j] = 1]
    /\ UNCHANGED phase

End(j) ==
    /\ phase[j] = "running"
    /\ \/ runs[j] = 1 /\ phase' = [phase EXCEPT ![j] = "done"]
       \/ phase' = [phase EXCEPT ![j] = "error"]
    /\ UNCHANGED runs

Forget(S) ==
    /\ \A j \in S : phase[j] # "none"
    /\ phase' = [j \in JobId |-> IF j \in S THEN "gone" ELSE phase[j]]
    /\ UNCHANGED runs

LedgerNext ==
    \/ \E j \in JobId : Accept(j) \/ Take(j) \/ RunScript(j) \/ End(j)
    \/ \E S \in SUBSET JobId : Forget(S)

LedgerSpec == LedgerInit /\ [][LedgerNext]_ledgerVars
==============================================================================

-------------------------- MODULE StorageBarrier --------------------------
(***************************************************************************)
(* What disk_job_fence promises of the jobs of one storage.  Jobs are      *)
(* started in the order in which they arrived; a fence job has the storage *)
(* to itself.  Nothing is said here of counters, flags or flush jobs.      *)
(***************************************************************************)
EXTENDS Naturals, Sequences

CONSTANT Jobs

VARIABLES
    waiting,   \* jobs that have arrived and were not started, in order
    active,    \* jobs that were started and have not completed
    fences     \* the jobs, of those that arrived, that need the storage alone

Elements(s) == {s[i] : i \in DOMAIN s}

(* A fence job shares the storage with no other job. *)
Exclusive(jobs, alone) == \A f \in jobs \cap alone : jobs = {f}

BarrierInit ==
    /\ waiting = <<>>
    /\ active = {}
    /\ fences = {}

(* At most one job completes, a few arrive, and the oldest n are started.  *)
BarrierStep(gone, arrived, n) ==
    LET all == waiting \o arrived
    IN  /\ n <= Len(all)
        /\ waiting' = SubSeq(all, n + 1, Len(all))
        /\ active' = (active \ gone) \cup {all[i] : i \in 1 .. n}
        /\ Exclusive(active', fences')

BarrierNext ==
    \/ \E j \in active, n \in 0 .. Len(waiting) :
          BarrierStep({j}, <<>>, n) /\ UNCHANGED fences
    \/ \E j \in Jobs, n \in {0, 1} :
          BarrierStep({}, <<j>>, n) /\ fences' \in {fences, fences \cup {j}}
    \/ \E f, j \in Jobs, n \in {0, 1} :
          BarrierStep({}, <<f, j>>, n) /\ fences' = fences \cup {j}

BarrierSpec == BarrierInit /\ [][BarrierNext]_<<waiting, active, fences>>
=============================================================================

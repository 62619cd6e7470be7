--------------------------- MODULE DiskJobFence ---------------------------
(***************************************************************************)
(* disk_job_fence, one per storage.  Disk jobs of a storage run side by    *)
(* side, except for the jobs that need the storage alone (moving, renaming *)
(* or deleting files, stopping the torrent ...): these raise a fence.      *)
(* While a fence is up new jobs are put in a queue.  When the last         *)
(* outstanding job completes the fence job runs, and after it the jobs up  *)
(* to the next fence.                                                      *)
(*                                                                         *)
(* Each operation holds m_mutex from its beginning to its end and is one   *)
(* action.  The flags of a job are sets of jobs.                           *)
(***************************************************************************)
EXTENDS Naturals, Sequences, FiniteSets

CONSTANT Jobs

VARIABLES
    m_has_fence,          \* fence jobs in the queue or in progress
    m_blocked_jobs,       \* jobs that wait behind a fence
    m_outstanding_jobs,   \* jobs let through and not completed
    fence,                \* jobs with the flag fence
    in_progress,          \* jobs with the flag in_progress
    finished              \* jobs completed or discarded

fenceVars == <<m_has_fence, m_blocked_jobs, m_outstanding_jobs, fence, in_progress, finished>>

Blocked == {m_blocked_jobs[i] : i \in DOMAIN m_blocked_jobs}

(* The caller has just allocated the job. *)
Fresh(j) == j \notin in_progress \cup Blocked \cup finished

FenceInit ==
    /\ m_has_fence = 0
    /\ m_blocked_jobs = <<>>
    /\ m_outstanding_jobs = 0
    /\ fence = {}
    /\ in_progress = {}
    /\ finished = {}

(* Mutant: a job that goes through is not counted. *)
LetThroughUncounted(jobs, n) ==
    in_progress' = in_progress \cup jobs /\ UNCHANGED m_outstanding_jobs

(* The jobs go through, and are accounted for. *)
LetThrough(jobs, n) ==
    /\ in_progress' = in_progress \cup jobs
    /\ m_outstanding_jobs' = m_outstanding_jobs + n
-----------------------------------------------------------------------------
(* is_blocked(j) *)

IsBlocked(j) ==
    /\ Fresh(j)
    /\ IF m_has_fence = 0
       THEN LetThrough({j}, 1) /\ UNCHANGED m_blocked_jobs
       ELSE /\ m_blocked_jobs' = Append(m_blocked_jobs, j)
            /\ UNCHANGED <<in_progress, m_outstanding_jobs>>
    /\ UNCHANGED <<m_has_fence, fence, finished>>
-----------------------------------------------------------------------------
(* raise_fence(j, fj): j is the fence job, fj the flush job before it *)

(* Nothing is going on: the fence job can be posted, fj is discarded. *)
PostFence(j, fj) ==
    /\ m_has_fence = 0 /\ m_outstanding_jobs = 0
    /\ LetThrough({j}, 1)
    /\ finished' = finished \cup {fj}
    /\ UNCHANGED m_blocked_jobs

(* The first fence: the flush job is to be posted at once. *)
PostFlush(j, fj) ==
    /\ m_has_fence = 0 /\ m_outstanding_jobs > 0
    /\ LetThrough({fj}, 1)
    /\ m_blocked_jobs' = Append(m_blocked_jobs, j)
    /\ UNCHANGED finished

(* Mutant: the flush job is not queued before the fence job. *)
PostNothing(j, fj) ==
    /\ m_has_fence > 0
    /\ m_blocked_jobs' = Append(m_blocked_jobs, j)
    /\ finished' = finished \cup {fj}
    /\ UNCHANGED <<in_progress, m_outstanding_jobs>>

(* Mutant: the flush job is queued after the fence job. *)
PostFenceFirst(j, fj) ==
    /\ m_has_fence > 0
    /\ m_blocked_jobs' = m_blocked_jobs \o <<j, fj>>
    /\ UNCHANGED <<in_progress, m_outstanding_jobs, finished>>

(* A fence is up already: both wait. *)
PostNone(j, fj) ==
    /\ m_has_fence > 0
    /\ m_blocked_jobs' = m_blocked_jobs \o <<fj, j>>
    /\ UNCHANGED <<in_progress, m_outstanding_jobs, finished>>

RaiseFence(j, fj) ==
    /\ Fresh(j) /\ Fresh(fj) /\ j # fj
    /\ {j, fj} \cap fence = {}
    /\ fence' = fence \cup {j}
    /\ m_has_fence' = m_has_fence + 1
    /\ PostFence(j, fj) \/ PostFlush(j, fj) \/ PostNone(j, fj)
-----------------------------------------------------------------------------
(* job_complete(j, jobs): what it puts on the list jobs, the first n of    *)
(* the blocked jobs.  The list may hold jobs of other storages already.    *)

(* The blocked jobs up to the next fence, k of them. *)
UpToFence(k) ==
    /\ k \in 0 .. Len(m_blocked_jobs)
    /\ \A i \in 1 .. k : m_blocked_jobs[i] \notin fence
    /\ k < Len(m_blocked_jobs) => m_blocked_jobs[k + 1] \in fence

(* Mutant: a single job is released when the fence is lowered. *)
LoweredByOne(empty, n) == n = IF m_blocked_jobs = <<>> THEN 0 ELSE 1

(* The next fence job follows only if there is nothing else to run. *)
LoweredBy(empty, n) ==
    \E k \in 0 .. Len(m_blocked_jobs) :
        /\ UpToFence(k)
        /\ n = IF k < Len(m_blocked_jobs) /\ m_outstanding_jobs = 1 /\ k = 0 /\ empty
               THEN 1 ELSE k

(* Mutant: a fence job runs although others are outstanding. *)
ReachedByAny(n) == n = IF m_has_fence = 0 \/ m_blocked_jobs = <<>> THEN 0 ELSE 1

(* The job was the last one that the fence job had to wait for. *)
ReachedBy(n) == n = IF m_outstanding_jobs > 1 \/ m_has_fence = 0 THEN 0 ELSE 1

(* Mutant: the fence is lowered by any job. *)
JobCompleteLowers(j, empty, n) ==
    /\ j \in in_progress
    /\ IF j \in fence THEN LoweredBy(empty, n) ELSE ReachedBy(n)
    /\ m_has_fence' = m_has_fence - 1
    /\ in_progress' = (in_progress \ {j}) \cup {m_blocked_jobs[i] : i \in 1 .. n}
    /\ m_outstanding_jobs' = m_outstanding_jobs - 1 + n
    /\ m_blocked_jobs' = SubSeq(m_blocked_jobs, n + 1, Len(m_blocked_jobs))
    /\ finished' = finished \cup {j}
    /\ UNCHANGED fence

JobComplete(j, empty, n) ==
    /\ j \in in_progress
    /\ IF j \in fence
       THEN LoweredBy(empty, n) /\ m_has_fence' = m_has_fence - 1
       ELSE ReachedBy(n) /\ UNCHANGED m_has_fence
    /\ in_progress' = (in_progress \ {j}) \cup {m_blocked_jobs[i] : i \in 1 .. n}
    /\ m_outstanding_jobs' = m_outstanding_jobs - 1 + n
    /\ m_blocked_jobs' = SubSeq(m_blocked_jobs, n + 1, Len(m_blocked_jobs))
    /\ finished' = finished \cup {j}
    /\ UNCHANGED fence
-----------------------------------------------------------------------------
FenceNext ==
    \/ \E j \in Jobs : IsBlocked(j)
    \/ \E j, fj \in Jobs : RaiseFence(j, fj)
    \/ \E j \in Jobs, empty \in BOOLEAN, n \in 0 .. Len(m_blocked_jobs) : JobComplete(j, empty, n)

FenceSpec == FenceInit /\ [][FenceNext]_fenceVars
-----------------------------------------------------------------------------
(* The variables have their types; the counters do not go below zero. *)
FenceTypeOK ==
    /\ m_has_fence \in Nat
    /\ m_outstanding_jobs \in Nat
    /\ m_blocked_jobs \in Seq(Jobs)
    /\ fence \subseteq Jobs
    /\ in_progress \subseteq Jobs
    /\ finished \subseteq Jobs

(* The two counters agree with the flags: m_outstanding_jobs counts the    *)
(* jobs in progress, m_has_fence the fence jobs that were not completed.   *)
CountersAgree ==
    /\ IsFiniteSet(in_progress)
    /\ Cardinality(in_progress) = m_outstanding_jobs
    /\ IsFiniteSet(fence \ finished)
    /\ Cardinality(fence \ finished) = m_has_fence

(* A fence job has the storage to itself from the moment it is posted to   *)
(* the moment it completes, whatever was posted, queued or released in     *)
(* between (the assertion m_outstanding_jobs == 0 in job_complete, and     *)
(* num_outstanding_jobs() == 1 in each fence job of disk_io_thread).       *)
FenceIsExclusive == \A f \in fence \cap in_progress : in_progress = {f}

(* As long as a fence is up some job is in progress that will lower it     *)
(* when it completes; a fence with nobody behind it would block the        *)
(* storage for good.  job_complete may decline to post the next fence job  *)
(* because the list has jobs of other storages on it: it can only be right *)
(* because a flush job lies between any two fences.                        *)
FenceIsHeld == m_has_fence > 0 => m_outstanding_jobs > 0

(* Any job that is blocked is blocked by a fence, and when no fence job    *)
(* runs the job at the head of the queue is one: what job_complete pops    *)
(* there is the fence job (its assertion on the flag).                     *)
HeadIsFence ==
    /\ m_has_fence = 0 => m_blocked_jobs = <<>>
    /\ m_has_fence > 0 /\ fence \cap in_progress = {} =>
          m_blocked_jobs # <<>> /\ m_blocked_jobs[1] \in fence

(* Behind the invariants above: a job is in one place, what is marked as a *)
(* fence was seen by raise_fence, and between two fences in the queue, or  *)
(* between the one that runs and the queue, there is always another job    *)
(* (raise_fence puts the flush job there).                                 *)
OnePlace ==
    /\ \A i, k \in DOMAIN m_blocked_jobs : m_blocked_jobs[i] = m_blocked_jobs[k] => i = k
    /\ Blocked \cap in_progress = {}
    /\ finished \cap (Blocked \cup in_progress) = {}
    /\ fence \subseteq Blocked \cup in_progress \cup finished

FencesApart ==
    /\ \A i \in DOMAIN m_blocked_jobs :
          i > 1 /\ m_blocked_jobs[i] \in fence => m_blocked_jobs[i - 1] \notin fence
    /\ fence \cap in_progress # {} /\ m_blocked_jobs # <<>> => m_blocked_jobs[1] \notin fence

Barrier == INSTANCE StorageBarrier WITH
    waiting <- m_blocked_jobs, active <- in_progress, fences <- fence

(* Jobs are started in the order of their arrival, and fences are          *)
(* respected: disk_job_fence implements StorageBarrier.                    *)
ImplementsBarrier == Barrier!BarrierSpec
=============================================================================

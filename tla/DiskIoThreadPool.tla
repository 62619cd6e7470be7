------------------------- MODULE DiskIoThreadPool -------------------------
(***************************************************************************)
(* The two pools of disk threads, disk_io_thread_pool, and the loop that   *)
(* each thread runs, disk_io_thread::thread_fun.  Threads are started when *)
(* jobs are queued, told to exit when they were idle for a minute or the   *)
(* maximum was lowered, and told to exit for good by abort().  Nobody      *)
(* joins them: they are detached, and the last one cleans up.              *)
(*                                                                         *)
(* There are three kinds of mutex.  m_job_mutex is held by a thread from   *)
(* the moment it looks at its queue to the moment it has a job, sleeps or  *)
(* is gone; stop_threads() does not take it.  The mutex of a pool is held  *)
(* in sections that are one step here, but for reap_idle_threads, which    *)
(* reads a counter and replaces another.  A job is only counted here;      *)
(* what it does is DiskIoThread.                                           *)
(***************************************************************************)
EXTENDS Integers, FiniteSets

CONSTANTS
    AioThreads,       \* values that the setting aio_threads is given
    Divisor,          \* hasher_thread_divisor
    Releasing,        \* pools whose jobs, when they complete, release others
    MaxJobs,          \* bound: jobs that are queued, a job that is tried again counts again
    MaxReaps,         \* bound: times the idle timer goes off
    MaxChanges        \* bound: changes of the settings

Pools == {"generic", "hash"}

(* settings_updated: a share of the threads is for hashing. *)
MaxThreads(n) == [generic |-> n - n \div Divisor, hash |-> n \div Divisor]

ASSUME PoolAssumption ==
    /\ AioThreads \subseteq Nat \ {0} /\ AioThreads # {} /\ IsFiniteSet(AioThreads)
    /\ Divisor \in Nat \ {0, 1}
    /\ Releasing \subseteq Pools
    /\ MaxJobs \in Nat /\ MaxReaps \in Nat /\ MaxChanges \in Nat

(* Names for the threads that can exist at a time. *)
Threads == UNION {{p} \X (1 .. MaxThreads(n)[p]) : p \in Pools, n \in AioThreads}
PoolOf(t) == t[1]

VARIABLES
    queued,                 \* [Pools -> Nat] the length of m_queued_jobs
    m_deferred_submit_disk_jobs,
    m_max_threads, m_threads_to_exit, m_num_idle_threads, m_min_idle_threads,
    m_threads,              \* [Pools -> SUBSET Threads]
    m_idle_timer,           \* [Pools -> BOOLEAN] is it armed?
    pool_abort,             \* [Pools -> BOOLEAN] m_abort of the pool
    m_abort, m_jobs_aborted, m_num_running_threads,
    pc,                     \* where a thread is
    cleaning,               \* threads that have left and are in abort_jobs
    net,                    \* where the network thread is
    jobs, reaps, changes    \* for the bounds

poolVars == <<m_max_threads, m_threads_to_exit, m_num_idle_threads, m_min_idle_threads,
              m_threads, m_idle_timer, pool_abort>>
bounds == <<jobs, reaps, changes>>
vars == <<queued, m_deferred_submit_disk_jobs, poolVars, m_abort, m_jobs_aborted,
          m_num_running_threads, pc, cleaning, net, bounds>>

(* What the network thread is doing, for which pool, and a number it has read. *)
NetAt(at, p, n) == [at |-> at, pool |-> p, n |-> n]
NetIdle == NetAt("idle", "generic", 0)

(* A thread is: "none", not there; "start", new, or "lock", back from a    *)
(* job, and about to take m_job_mutex; "check", about to look at           *)
(* should_exit; "exit", in try_thread_exit; "leave", erased; "sleep",      *)
(* about to wait; "waiting"; "notified", to take the mutex again; "work",  *)
(* with a job; "submit", about to announce the jobs it released.           *)
Init ==
    /\ queued = [p \in Pools |-> 0]
    /\ m_deferred_submit_disk_jobs = FALSE
    /\ m_max_threads \in {MaxThreads(n) : n \in AioThreads}
    /\ m_threads_to_exit = [p \in Pools |-> 0]
    /\ m_num_idle_threads = [p \in Pools |-> 0]
    /\ m_min_idle_threads = [p \in Pools |-> 0]
    /\ m_threads = [p \in Pools |-> {}]
    /\ m_idle_timer = [p \in Pools |-> FALSE]
    /\ pool_abort = [p \in Pools |-> FALSE]
    /\ m_abort = FALSE /\ m_jobs_aborted = FALSE
    /\ m_num_running_threads = 0
    /\ pc = [t \in Threads |-> "none"] /\ cleaning = 0
    /\ net = NetIdle
    /\ jobs = 0 /\ reaps = 0 /\ changes = 0
-----------------------------------------------------------------------------
HoldsJobMutex == {"check", "exit", "leave", "sleep"}
JobMutexFree == \A t \in Threads : pc[t] \notin HoldsJobMutex

(* The network thread holds the mutex of p while it reaps. *)
PoolMutexFree(p) == ~ (net.at = "reap" /\ net.pool = p)

Goes(t, where) == pc' = [pc EXCEPT ![t] = where]

(* notify_all on the conditions of the pools *)
Woken(t, pools) == pc[t] = "waiting" /\ PoolOf(t) \in pools
NotifyAll(pools) == pc' = [t \in Threads |-> IF Woken(t, pools) THEN "notified" ELSE pc[t]]
-----------------------------------------------------------------------------
(* disk_io_thread_pool *)

(* stop_threads: the request and the wake-up, without m_job_mutex *)
StopThreads(p, n) ==
    /\ m_threads_to_exit' = [m_threads_to_exit EXCEPT ![p] = n]
    /\ NotifyAll({p})

(* Mutant: a higher maximum asks threads to exit too. *)
SetMaxThreadsUnchecked(p, n) ==
    /\ m_max_threads' = [m_max_threads EXCEPT ![p] = n]
    /\ StopThreads(p, Cardinality(m_threads[p]) - n)
    /\ UNCHANGED <<m_num_idle_threads, m_min_idle_threads, m_threads, m_idle_timer, pool_abort>>

(* set_max_threads *)
SetMaxThreads(p, n) ==
    /\ m_max_threads' = [m_max_threads EXCEPT ![p] = n]
    /\ IF n = m_max_threads[p] \/ Cardinality(m_threads[p]) < n
       THEN UNCHANGED <<m_threads_to_exit, pc>>
       ELSE StopThreads(p, Cardinality(m_threads[p]) - n)
    /\ UNCHANGED <<m_num_idle_threads, m_min_idle_threads, m_threads, m_idle_timer, pool_abort>>

(* job_queued on the pools announced, after their idle threads were woken. *)
(* Nothing is done where there are idle threads enough, or after abort().  *)
Short(p) == m_num_idle_threads[p] < queued[p] /\ ~ pool_abort[p]

(* Threads are started for the jobs that no idle thread will take, as many *)
(* as the maximum allows; the first one of a pool starts its timer.        *)
NewThreads(p) ==
    LET free  == {t \in Threads : PoolOf(t) = p /\ pc[t] = "none"}
        nth(t) == Cardinality({u \in free : u[2] <= t[2]})
    IN  {t \in free : /\ Short(p)
                      /\ nth(t) <= queued[p] - m_num_idle_threads[p]
                      /\ nth(t) <= m_max_threads[p] - Cardinality(m_threads[p])}

(* No thread can be spared: the requests to exit are withdrawn.  The       *)
(* caller, if it is a disk thread, goes on to take m_job_mutex.            *)
JobQueued(announced, caller) ==
    LET new(p) == IF p \in announced THEN NewThreads(p) ELSE {}
    IN  /\ \A p \in announced : Short(p) => PoolMutexFree(p)
        /\ m_threads_to_exit' = [p \in Pools |->
              IF p \in announced /\ Short(p) THEN 0 ELSE m_threads_to_exit[p]]
        /\ m_threads' = [p \in Pools |-> m_threads[p] \cup new(p)]
        /\ m_idle_timer' = [p \in Pools |->
              m_idle_timer[p] \/ (new(p) # {} /\ m_threads[p] = {})]
        /\ pc' = [t \in Threads |-> CASE t \in new(PoolOf(t)) -> "start"
                                     [] Woken(t, announced)  -> "notified"
                                     [] t \in caller          -> "lock"
                                     [] OTHER                -> pc[t]]
        /\ UNCHANGED <<m_max_threads, m_num_idle_threads, m_min_idle_threads, pool_abort>>

(* thread_active: the number of idle threads, and the least there was      *)
ThreadActive(p) ==
    LET n == m_num_idle_threads[p] - 1
    IN  /\ m_num_idle_threads' = [m_num_idle_threads EXCEPT ![p] = n]
        /\ m_min_idle_threads' = [m_min_idle_threads EXCEPT ![p] = IF n < @ THEN n ELSE @]

ThreadIdle(p) ==
    /\ m_num_idle_threads' = [m_num_idle_threads EXCEPT ![p] = @ + 1]
    /\ UNCHANGED m_min_idle_threads
-----------------------------------------------------------------------------
(* The network thread *)

(* queue_for_job *)
QueueFor(hash) == IF hash /\ m_max_threads["hash"] > 0 THEN "hash" ELSE "generic"

(* add_job: nobody is told yet *)
AddJob ==
    /\ net = NetIdle /\ ~ m_abort /\ JobMutexFree
    /\ jobs < MaxJobs
    /\ jobs' = jobs + 1
    /\ \E hash \in BOOLEAN : queued' = [queued EXCEPT ![QueueFor(hash)] = @ + 1]
    /\ m_deferred_submit_disk_jobs' = TRUE
    /\ UNCHANGED <<poolVars, m_abort, m_jobs_aborted, m_num_running_threads, pc, cleaning,
                   net, reaps, changes>>

(* Mutant: the hash pool is not told. *)
SubmitGeneric ==
    /\ JobMutexFree
    /\ JobQueued({p \in {"generic"} : queued[p] > 0}, {})
    /\ m_deferred_submit_disk_jobs' = FALSE
    /\ \/ net = NetIdle /\ m_deferred_submit_disk_jobs /\ UNCHANGED net
       \/ net = NetIdle /\ ~ m_abort /\ net' = NetAt("abort", "generic", 0)
    /\ UNCHANGED <<queued, m_abort, m_jobs_aborted, m_num_running_threads, cleaning,
                   bounds>>

(* submit_jobs, on its own and as the first thing that abort() does *)
SubmitJobs ==
    /\ JobMutexFree
    /\ JobQueued({p \in Pools : queued[p] > 0}, {})
    /\ m_deferred_submit_disk_jobs' = FALSE
    /\ \/ net = NetIdle /\ m_deferred_submit_disk_jobs /\ UNCHANGED net
       \/ net = NetIdle /\ ~ m_abort /\ net' = NetAt("abort", "generic", 0)
    /\ UNCHANGED <<queued, m_abort, m_jobs_aborted, m_num_running_threads, cleaning,
                   bounds>>

(* Mutant: the cleanup is left to the threads. *)
AbortTrusting ==
    /\ net.at = "abort" /\ JobMutexFree
    /\ m_abort' = TRUE
    /\ net' = NetAt("stop", "generic", 0)
    /\ UNCHANGED <<queued, m_deferred_submit_disk_jobs, poolVars, m_jobs_aborted,
                   m_num_running_threads, pc,
                   cleaning, bounds>>

(* abort(): the rest.  If there are no threads it has to clean up itself.  *)
Abort ==
    /\ net.at = "abort" /\ JobMutexFree
    /\ m_abort' = TRUE
    /\ m_jobs_aborted' = (\A p \in Pools : m_threads[p] = {})
    /\ net' = NetAt("stop", "generic", 0)
    /\ UNCHANGED <<queued, m_deferred_submit_disk_jobs, poolVars, m_num_running_threads, pc,
                   cleaning, bounds>>

(* disk_io_thread_pool::abort(false), for one pool and then the other *)
AbortPool(p) ==
    /\ net.at = "stop" /\ net.pool = p
    /\ pool_abort' = [pool_abort EXCEPT ![p] = TRUE]
    /\ m_idle_timer' = [m_idle_timer EXCEPT ![p] = FALSE]
    /\ StopThreads(p, Cardinality(m_threads[p]))
    /\ m_threads' = [m_threads EXCEPT ![p] = {}]
    /\ net' = NetAt(IF p = "generic" THEN "stop" ELSE "done", "hash", 0)
    /\ UNCHANGED <<queued, m_deferred_submit_disk_jobs, m_max_threads, m_num_idle_threads,
                   m_min_idle_threads, m_abort, m_jobs_aborted, m_num_running_threads, cleaning,
                   bounds>>

(* settings_updated, for one pool and then the other *)
SettingsUpdated(n) ==
    /\ \/ /\ net = NetIdle /\ ~ m_abort /\ changes < MaxChanges
          /\ changes' = changes + 1
          /\ SetMaxThreads("generic", MaxThreads(n).generic)
          /\ net' = NetAt("settings", "hash", n)
       \/ /\ net = NetAt("settings", "hash", n)
          /\ SetMaxThreads("hash", MaxThreads(n).hash)
          /\ net' = NetIdle /\ UNCHANGED changes
    /\ UNCHANGED <<queued, m_deferred_submit_disk_jobs, m_abort, m_jobs_aborted,
                   m_num_running_threads, jobs, reaps, cleaning>>

(* reap_idle_threads: the timer is armed again, the number of idle threads *)
(* is read ...                                                             *)
ReapIdleThreads(p) ==
    /\ net = NetIdle /\ m_idle_timer[p] /\ ~ pool_abort[p] /\ m_threads[p] # {}
    /\ reaps < MaxReaps
    /\ reaps' = reaps + 1
    /\ net' = NetAt("reap", p, m_num_idle_threads[p])
    /\ UNCHANGED <<queued, m_deferred_submit_disk_jobs, poolVars, m_abort, m_jobs_aborted,
                   m_num_running_threads, pc, jobs, changes, cleaning>>

(* ... and exchanged for the least number in the last minute: so many      *)
(* threads are asked to exit, or more if there are too many.               *)
ReapStop(p) ==
    LET least == m_min_idle_threads[p]
        over  == Cardinality(m_threads[p]) - m_max_threads[p]
    IN  /\ net.at = "reap" /\ net.pool = p
        /\ m_min_idle_threads' = [m_min_idle_threads EXCEPT ![p] = net.n]
        /\ IF least <= 0 THEN UNCHANGED <<m_threads_to_exit, pc>>
           ELSE StopThreads(p, IF least > over THEN least ELSE over)
        /\ net' = NetIdle
        /\ UNCHANGED <<queued, m_deferred_submit_disk_jobs, m_max_threads, m_num_idle_threads,
                       m_threads, m_idle_timer, pool_abort, m_abort, m_jobs_aborted,
                       m_num_running_threads, bounds, cleaning>>
-----------------------------------------------------------------------------
(* thread_fun *)

(* The top of the loop, with m_job_mutex: a job is taken, or the thread is *)
(* idle and looks whether it should exit.                                  *)
TakeOrIdle(t) ==
    LET p == PoolOf(t)
    IN  IF queued[p] > 0
        THEN /\ queued' = [queued EXCEPT ![p] = @ - 1]
             /\ Goes(t, "work")
             /\ UNCHANGED <<m_num_idle_threads, m_min_idle_threads>>
        ELSE /\ ThreadIdle(p)
             /\ Goes(t, "check")
             /\ UNCHANGED queued

Start(t) ==
    /\ pc[t] = "start" /\ JobMutexFree
    /\ m_num_running_threads' = m_num_running_threads + 1
    /\ TakeOrIdle(t)
    /\ UNCHANGED <<m_deferred_submit_disk_jobs, m_max_threads, m_threads_to_exit, m_threads,
                   m_idle_timer, pool_abort, m_abort, m_jobs_aborted, net, bounds, cleaning>>

Relock(t) ==
    /\ pc[t] = "lock" /\ JobMutexFree
    /\ TakeOrIdle(t)
    /\ UNCHANGED <<m_deferred_submit_disk_jobs, m_max_threads, m_threads_to_exit, m_threads,
                   m_idle_timer, pool_abort, m_abort, m_jobs_aborted, m_num_running_threads,
                   net, bounds, cleaning>>

(* should_exit, and the counter in try_thread_exit.  The queue is empty    *)
(* whenever a thread gets here.                                            *)
Check(t) ==
    /\ pc[t] = "check"
    /\ IF m_threads_to_exit[PoolOf(t)] > 0
       THEN /\ m_threads_to_exit' = [m_threads_to_exit EXCEPT ![PoolOf(t)] = @ - 1]
            /\ Goes(t, "exit")
       ELSE Goes(t, "sleep") /\ UNCHANGED m_threads_to_exit
    /\ UNCHANGED <<queued, m_deferred_submit_disk_jobs, m_max_threads, m_num_idle_threads,
                   m_min_idle_threads, m_threads, m_idle_timer, pool_abort, m_abort,
                   m_jobs_aborted, m_num_running_threads, net, bounds, cleaning>>

Sleep(t) ==
    /\ pc[t] = "sleep"
    /\ Goes(t, "waiting")
    /\ UNCHANGED <<queued, m_deferred_submit_disk_jobs, poolVars, m_abort, m_jobs_aborted,
                   m_num_running_threads, net, bounds, cleaning>>

(* Back from the wait *)
Wake(t) ==
    LET p == PoolOf(t)
    IN  /\ pc[t] = "notified" /\ JobMutexFree
        /\ IF queued[p] > 0
           THEN /\ ThreadActive(p)
                /\ queued' = [queued EXCEPT ![p] = @ - 1]
                /\ Goes(t, "work")
           ELSE Goes(t, "check") /\ UNCHANGED <<queued, m_num_idle_threads, m_min_idle_threads>>
        /\ UNCHANGED <<m_deferred_submit_disk_jobs, m_max_threads, m_threads_to_exit, m_threads,
                       m_idle_timer, pool_abort, m_abort, m_jobs_aborted, m_num_running_threads,
                       net, bounds, cleaning>>

(* Mutant: every job has to be tried again. *)
WorkRetries(t) ==
    /\ pc[t] = "work" /\ JobMutexFree
    /\ queued' = [queued EXCEPT ![PoolOf(t)] = @ + 1]
    /\ Goes(t, "lock")
    /\ UNCHANGED <<m_deferred_submit_disk_jobs, poolVars, m_abort, m_jobs_aborted,
                   m_num_running_threads, net, bounds, cleaning>>

(* perform_job for a job that has to be tried again: it is put back, and   *)
(* nobody is told.  One that hashes goes to the queue that is for hashing  *)
(* now; the generic threads have such a job only if there was a time       *)
(* without hash threads.                                                   *)
Retry(t) ==
    /\ jobs < MaxJobs /\ JobMutexFree
    /\ jobs' = jobs + 1
    /\ \E hash \in BOOLEAN :
          /\ PoolOf(t) = "hash" => hash
          /\ PoolOf(t) = "generic" /\ hash => \E n \in AioThreads : MaxThreads(n).hash = 0
          /\ queued' = [queued EXCEPT ![QueueFor(hash)] = @ + 1]
    /\ Goes(t, "lock")

(* execute_job.  A job that completes may release others, which go to the  *)
(* generic queue.                                                          *)
Work(t) ==
    /\ pc[t] = "work"
    /\ \/ Goes(t, "lock") /\ UNCHANGED <<queued, jobs>>
       \/ Retry(t)
       \/ /\ PoolOf(t) \in Releasing
          /\ jobs < MaxJobs /\ JobMutexFree
          /\ jobs' = jobs + 1
          /\ queued' = [queued EXCEPT !["generic"] = @ + 1]
          /\ Goes(t, "submit")
    /\ UNCHANGED <<m_deferred_submit_disk_jobs, poolVars, m_abort, m_jobs_aborted,
                   m_num_running_threads, net, reaps, changes, cleaning>>

Submit(t) ==
    /\ pc[t] = "submit" /\ JobMutexFree
    /\ JobQueued({"generic"}, {t})
    /\ UNCHANGED <<queued, m_deferred_submit_disk_jobs, m_abort, m_jobs_aborted,
                   m_num_running_threads, net, bounds, cleaning>>

(* Mutant: the timer is not cancelled when the last thread goes. *)
EraseArmed(t) ==
    LET p == PoolOf(t)
    IN  /\ pc[t] = "exit" /\ PoolMutexFree(p)
        /\ m_threads' = [m_threads EXCEPT ![p] = IF pool_abort[p] THEN @ ELSE @ \ {t}]
        /\ Goes(t, "leave")
        /\ UNCHANGED <<queued, m_deferred_submit_disk_jobs, m_max_threads, m_threads_to_exit,
                       m_num_idle_threads, m_min_idle_threads, m_idle_timer, pool_abort, m_abort,
                       m_jobs_aborted, m_num_running_threads, net, bounds, cleaning>>

(* try_thread_exit: the thread is forgotten, unless abort() forgot all. *)
Erase(t) ==
    LET p == PoolOf(t)
        left == IF pool_abort[p] THEN m_threads[p] ELSE m_threads[p] \ {t}
    IN  /\ pc[t] = "exit" /\ PoolMutexFree(p)
        /\ m_threads' = [m_threads EXCEPT ![p] = left]
        /\ m_idle_timer' = [m_idle_timer EXCEPT ![p] = @ /\ left # {}]
        /\ Goes(t, "leave")
        /\ UNCHANGED <<queued, m_deferred_submit_disk_jobs, m_max_threads, m_threads_to_exit,
                       m_num_idle_threads, m_min_idle_threads, pool_abort, m_abort,
                       m_jobs_aborted, m_num_running_threads, net, bounds, cleaning>>

(* Mutant: the number of idle threads is not adjusted. *)
LeaveIdle(t) ==
    /\ pc[t] = "leave"
    /\ m_num_running_threads' = m_num_running_threads - 1
    /\ Goes(t, "none")
    /\ cleaning' = IF m_num_running_threads' > 0 \/ ~ m_abort THEN cleaning ELSE cleaning + 1
    /\ UNCHANGED <<queued, m_deferred_submit_disk_jobs, poolVars, m_abort, m_jobs_aborted, net, bounds>>

(* The thread goes, and the last one after abort() cleans up. *)
Leave(t) ==
    /\ pc[t] = "leave"
    /\ ThreadActive(PoolOf(t))
    /\ m_num_running_threads' = m_num_running_threads - 1
    /\ Goes(t, "none")
    /\ cleaning' = IF m_num_running_threads' > 0 \/ ~ m_abort THEN cleaning ELSE cleaning + 1
    /\ UNCHANGED <<queued, m_deferred_submit_disk_jobs, m_max_threads, m_threads_to_exit,
                   m_threads, m_idle_timer, pool_abort, m_abort, m_jobs_aborted, net, bounds>>

(* abort_jobs, by a thread that is no longer one of the pool's *)
Cleanup ==
    /\ cleaning > 0
    /\ m_jobs_aborted' = TRUE
    /\ cleaning' = cleaning - 1
    /\ UNCHANGED <<queued, m_deferred_submit_disk_jobs, poolVars, m_abort, m_num_running_threads,
                   pc, net, bounds>>
-----------------------------------------------------------------------------
ThreadStep(t) ==
    \/ Start(t) \/ Relock(t) \/ Check(t) \/ Sleep(t) \/ Wake(t) \/ Work(t) \/ Submit(t)
    \/ Erase(t) \/ Leave(t)

(* What the network thread has begun, or does on the next tick. *)
NetStep ==
    \/ SubmitJobs /\ m_deferred_submit_disk_jobs
    \/ Abort \/ \E p \in Pools : AbortPool(p) \/ ReapStop(p)

Next ==
    \/ AddJob \/ SubmitJobs \/ Abort
    \/ \E p \in Pools : AbortPool(p) \/ ReapIdleThreads(p) \/ ReapStop(p)
    \/ \E n \in AioThreads : SettingsUpdated(n)
    \/ Cleanup \/ \E t \in Threads : ThreadStep(t)

Spec == Init /\ [][Next]_vars

(* The operating system runs every thread, and the network thread ends     *)
(* what it began and submits what was deferred.  Jobs, timers, settings    *)
(* and the call of abort() need not come.  The bounds make every run end,  *)
(* so that weak fairness is enough for the mutexes.                        *)
Fairness ==
    /\ WF_vars(NetStep) /\ \A n \in AioThreads : WF_vars(net.at = "settings" /\ SettingsUpdated(n))
    /\ WF_vars(Cleanup) /\ \A t \in Threads : WF_vars(ThreadStep(t))

FairSpec == Spec /\ Fairness
-----------------------------------------------------------------------------
(* The counters never go below zero, and a pool has threads of its own.    *)
PoolTypeOK ==
    /\ queued \in [Pools -> Nat] /\ m_threads_to_exit \in [Pools -> Nat]
    /\ m_num_idle_threads \in [Pools -> Nat] /\ m_min_idle_threads \in [Pools -> Nat]
    /\ m_max_threads \in [Pools -> Nat]
    /\ \A p \in Pools : m_threads[p] \subseteq {t \in Threads : PoolOf(t) = p}
    /\ m_num_running_threads \in Nat
    /\ net.n \in Nat /\ net.pool \in Pools

(* Between thread_idle and thread_active. *)
IdlePcs == {"check", "exit", "leave", "sleep", "waiting", "notified"}

(* The counters are those of the threads: idle ones, running ones and, up  *)
(* to abort(), the ones that exist.  job_queued starts threads, and        *)
(* thread_fun cleans up, by what they say.                                 *)
PoolCountersAgree ==
    /\ \A p \in Pools :
          /\ m_num_idle_threads[p] = Cardinality({t \in Threads : PoolOf(t) = p /\ pc[t] \in IdlePcs})
          /\ ~ pool_abort[p] =>
                m_threads[p] = {t \in Threads : PoolOf(t) = p /\ pc[t] \notin {"none", "leave"}}
    /\ m_num_running_threads =
          Cardinality({t \in Threads : pc[t] \notin {"none", "start"}})

(* abort() has stopped the pool, and its threads have left or are leaving. *)
Gone(p) == pool_abort[p] /\ \A t \in Threads : PoolOf(t) = p => pc[t] \in {"none", "leave"}

(* A job that is queued has somebody to take it: unless the jobs are still *)
(* to be announced, a thread of the pool is not asleep.  Threads that were *)
(* counted as idle and exit or sleep instead, or a wake-up that comes      *)
(* before the wait, would leave it in the queue.  The exception is a pool  *)
(* whose last thread is gone after abort(): the other pool may still       *)
(* release a job into its queue.                                           *)
JobsNotStranded ==
    \A p \in Pools : queued[p] > 0 =>
        \/ m_deferred_submit_disk_jobs
        \/ \E t \in Threads :
              pc[t] \in {"submit"} \cup IF PoolOf(t) = p THEN {"start", "lock", "notified", "work"} ELSE {}
        \/ Gone(p)

(* The idle timer is armed as long as the pool has threads. *)
ReaperArmed == \A p \in Pools : ~ pool_abort[p] => (m_idle_timer[p] <=> m_threads[p] # {})

(* When abort() is over and the threads are gone, the queue of hash jobs   *)
(* is empty and the cleanup was done: by the last thread, or by abort()    *)
(* itself if it saw none.  No order of the last threads' exits and abort() *)
(* loses it.                                                               *)
AbortCleansUp ==
    net.at = "done" /\ cleaning = 0 /\ (\A t \in Threads : pc[t] = "none") =>
        m_jobs_aborted /\ queued["hash"] = 0

(* The comment in thread_fun: when the last thread cleans up there are no  *)
(* queued jobs left.                                                       *)
CleanupIsLast == m_jobs_aborted => \A p \in Pools : queued[p] = 0

(* Every job that is queued is taken, or its pool is gone. *)
JobsTaken == \A p \in Pools : queued[p] > 0 ~> queued[p] = 0 \/ Gone(p)

(* After abort() the threads end, and let the network thread go. *)
ThreadsEnd == m_abort ~> cleaning = 0 /\ \A t \in Threads : pc[t] = "none"
=============================================================================

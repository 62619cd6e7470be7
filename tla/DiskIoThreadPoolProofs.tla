---------------------- MODULE DiskIoThreadPoolProofs ----------------------
(***************************************************************************)
(* Proofs about the pools of disk threads, for any settings, any number of *)
(* threads, jobs, timers and changes of the settings.                      *)
(***************************************************************************)
EXTENDS DiskIoThreadPool, FiniteSetTheorems, TLAPS

Pcs == {"none", "start", "lock", "check", "exit", "leave", "sleep", "waiting", "notified", "work",
        "submit"}

(* The types, with what PoolTypeOK leaves out. *)
PoolTypes ==
    /\ PoolTypeOK
    /\ m_threads \in [Pools -> SUBSET Threads]
    /\ m_idle_timer \in [Pools -> BOOLEAN] /\ pool_abort \in [Pools -> BOOLEAN]
    /\ \A p \in Pools : \E n \in AioThreads : m_max_threads[p] = MaxThreads(n)[p]
    /\ pc \in [Threads -> Pcs]
    /\ cleaning \in Nat
    /\ net \in [at : {"idle", "settings", "reap", "abort", "stop", "done"}, pool : Pools, n : Nat]
    /\ m_abort \in BOOLEAN /\ m_jobs_aborted \in BOOLEAN /\ m_deferred_submit_disk_jobs \in BOOLEAN
    /\ net.at = "settings" => net.n \in AioThreads

(* The sets that the counters count. *)
Idle(p) == {t \in Threads : PoolOf(t) = p /\ pc[t] \in IdlePcs}
Existing(p) == {t \in Threads : PoolOf(t) = p /\ pc[t] \notin {"none", "leave"}}
Active == {t \in Threads : pc[t] \notin {"none", "start"}}

(* What abort() and the last thread know of each other: nothing is queued  *)
(* for the next tick once abort() has begun, the pools are stopped only by *)
(* it, and until the cleanup is done somebody is there to do it.           *)
AbortStages ==
    /\ m_abort <=> net.at \in {"stop", "done"}
    /\ net.at \in {"abort", "stop", "done"} => ~ m_deferred_submit_disk_jobs
    /\ \A p \in Pools : pool_abort[p] => m_abort

Cleaner == m_abort => m_jobs_aborted \/ cleaning > 0 \/ \E t \in Threads : pc[t] # "none"

(* Not asleep, and on the way to the queue of the pool p. *)
Coming(t, p) == PoolOf(t) = p /\ pc[t] \in {"start", "lock", "notified", "work", "submit"}

(* JobsNotStranded, with two things that make it inductive: a thread that  *)
(* announces jobs announces generic jobs only, and the threads of the hash *)
(* pool do not leave a job behind after abort().                           *)
SomebodyComes ==
    /\ queued["hash"] > 0 =>
          m_deferred_submit_disk_jobs \/ \E t \in Threads : Coming(t, "hash")
    /\ queued["generic"] > 0 =>
          \/ m_deferred_submit_disk_jobs
          \/ \E t \in Threads : Coming(t, "generic") \/ pc[t] = "submit"
          \/ Gone("generic")

(* The hash pool has threads whatever the settings are, or it has none     *)
(* whatever they are: then no job is ever queued for it.                   *)
HashPoolStays == (\A n \in AioThreads : n < Divisor) \/ (\A n \in AioThreads : n >= Divisor)

HashJobsHaveThreads == queued["hash"] > 0 => m_max_threads["hash"] > 0

(* The part of the invariant that is about the pools, and all of it. *)
PoolPart == PoolTypes /\ PoolCountersAgree /\ ReaperArmed
PoolInv == PoolPart /\ AbortStages /\ Cleaner
-----------------------------------------------------------------------------
(* The share of the hash threads: never all of them. *)
LEMMA Shares ==
    ASSUME NEW n \in AioThreads
    PROVE  /\ n \in Nat \ {0} /\ n \div Divisor \in Nat /\ n \div Divisor < n
           /\ n < Divisor => n \div Divisor = 0
           /\ n >= Divisor => n \div Divisor > 0
<1>1. n \in Nat \ {0} /\ Divisor \in Nat \ {0, 1}
  BY PoolAssumption DEF PoolAssumption
<1> DEFINE q == n \div Divisor
           r == n % Divisor
<1>2. q \in Int /\ r \in 0 .. Divisor - 1 /\ n = Divisor * q + r
  BY <1>1
<1> HIDE DEF q, r
<1>3. q >= 0
  <2>1. q < 0 => Divisor * q <= - Divisor
    BY <1>1, <1>2
  <2> QED
    BY <1>1, <1>2, <2>1
<1>4. q < n
  <2>1. q >= 1 => Divisor * q >= 2 * q
    BY <1>1, <1>2
  <2> QED
    BY <1>1, <1>2, <1>3, <2>1
<1>5. n < Divisor => q = 0
  <2>1. q >= 1 => Divisor * q >= Divisor
    BY <1>1, <1>2
  <2> QED
    BY <1>1, <1>2, <1>3, <2>1
<1>6. n >= Divisor => q > 0
  <2>1. q = 0 => Divisor * q = 0
    BY <1>1, <1>2
  <2> QED
    BY <1>1, <1>2, <1>3, <2>1
<1> QED
  BY <1>1, <1>2, <1>3, <1>4, <1>5, <1>6 DEF q

(* The maximum of a pool under a setting, and the names of its threads. *)
LEMMA Maxima ==
    ASSUME NEW n \in AioThreads
    PROVE  /\ MaxThreads(n) \in [Pools -> Nat]
           /\ MaxThreads(n).generic \in Nat \ {0} /\ MaxThreads(n).hash \in Nat
           /\ n < Divisor => MaxThreads(n).hash = 0
           /\ n >= Divisor => MaxThreads(n).hash > 0
           /\ \A p \in Pools : MaxThreads(n)[p] \in Nat /\ {p} \X (1 .. MaxThreads(n)[p]) \subseteq Threads
<1>1. /\ MaxThreads(n) \in [Pools -> Nat]
      /\ MaxThreads(n).generic \in Nat \ {0} /\ MaxThreads(n).hash = n \div Divisor
      /\ MaxThreads(n).hash \in Nat
  BY Shares DEF MaxThreads, Pools
<1>2. ASSUME NEW p \in Pools
      PROVE  {p} \X (1 .. MaxThreads(n)[p]) \subseteq Threads
  <2> DEFINE of(q, m) == {q} \X (1 .. MaxThreads(m)[q])
  <2>1. Threads = UNION {of(q, m) : q \in Pools, m \in AioThreads}
    BY DEF Threads
  <2> HIDE DEF of
  <2>2. of(p, n) \subseteq Threads
    BY <2>1
  <2> QED
    BY <2>2 DEF of
<1> QED
  BY <1>1, <1>2, Shares

(* There are finitely many threads, each of one pool. *)
LEMMA ThreadsFinite ==
    /\ IsFiniteSet(Threads)
    /\ \A t \in Threads : PoolOf(t) \in Pools
<1> DEFINE of(p, n) == {p} \X (1 .. MaxThreads(n)[p])
           f == [x \in Pools \X AioThreads |-> of(x[1], x[2])]
           T == {of(p, n) : p \in Pools, n \in AioThreads}
<1>1. IsFiniteSet(Pools \X AioThreads)
  <2>1. IsFiniteSet({"generic"})
    BY FS_Singleton
  <2>2. IsFiniteSet({"generic"} \cup {"hash"})
    BY <2>1, FS_AddElement
  <2>3. Pools = {"generic"} \cup {"hash"}
    BY DEF Pools
  <2> QED
    BY <2>2, <2>3, FS_Product, PoolAssumption DEF PoolAssumption
<1>2. f \in Surjection(Pools \X AioThreads, T)
  <2> HIDE DEF of
  <2>1. f \in [Pools \X AioThreads -> T]
    OBVIOUS
  <2>2. ASSUME NEW S \in T
        PROVE  \E x \in Pools \X AioThreads : f[x] = S
    <3>1. PICK p \in Pools, n \in AioThreads : S = of(p, n)
      OBVIOUS
    <3>2. <<p, n>> \in Pools \X AioThreads /\ f[<<p, n>>] = S
      BY <3>1
    <3> QED
      BY <3>2
  <2> HIDE DEF f, T
  <2> QED
    BY <2>1, <2>2 DEF Surjection
<1>3. IsFiniteSet(T)
  <2> HIDE DEF f, T
  <2> QED
    BY <1>1, <1>2, FS_Surjection
<1>4. ASSUME NEW p \in Pools, NEW n \in AioThreads
      PROVE  IsFiniteSet(of(p, n))
  <2>1. IsFiniteSet(1 .. MaxThreads(n)[p])
    BY Maxima, FS_Interval
  <2>2. IsFiniteSet({p})
    BY FS_Singleton
  <2> QED
    BY <2>1, <2>2, FS_Product
<1>5. IsFiniteSet(UNION T)
  <2>1. \A S \in T : IsFiniteSet(S)
    BY <1>4
  <2> HIDE DEF T
  <2> QED
    BY <1>3, <2>1, FS_UNION
<1>6. Threads = UNION T
  BY DEF Threads
<1>7. \A t \in Threads : PoolOf(t) \in Pools
  BY DEF Threads, PoolOf
<1> QED
  BY <1>5, <1>6, <1>7

(* Counting threads. *)
LEMMA Counts ==
    ASSUME NEW S \in SUBSET Threads
    PROVE  /\ IsFiniteSet(S) /\ Cardinality(S) \in Nat
           /\ S = {} => Cardinality(S) = 0
           /\ \A t \in Threads :
                 /\ Cardinality(S \cup {t}) = IF t \in S THEN Cardinality(S) ELSE Cardinality(S) + 1
                 /\ Cardinality(S \ {t}) = IF t \in S THEN Cardinality(S) - 1 ELSE Cardinality(S)
                 /\ t \in S => Cardinality(S) > 0
<1>1. IsFiniteSet(S) /\ Cardinality(S) \in Nat
  BY ThreadsFinite, FS_Subset, FS_CardinalityType
<1>2. S = {} <=> Cardinality(S) = 0
  BY <1>1, FS_EmptySet
<1>3. ASSUME NEW t \in Threads
      PROVE  /\ Cardinality(S \cup {t}) = IF t \in S THEN Cardinality(S) ELSE Cardinality(S) + 1
             /\ Cardinality(S \ {t}) = IF t \in S THEN Cardinality(S) - 1 ELSE Cardinality(S)
             /\ t \in S => Cardinality(S) > 0
  <2>1. Cardinality(S \cup {t}) = IF t \in S THEN Cardinality(S) ELSE Cardinality(S) + 1
    BY <1>1, FS_AddElement
  <2>2. Cardinality(S \ {t}) = IF t \in S THEN Cardinality(S) - 1 ELSE Cardinality(S)
    BY <1>1, FS_RemoveElement
  <2> QED
    BY <1>1, <1>2, <2>1, <2>2
<1> QED
  BY <1>1, <1>2, <1>3

(* The counters, said with the sets they count, before and after a step. *)
LEMMA CountersSaid ==
    PoolCountersAgree <=>
        /\ \A p \in Pools : m_num_idle_threads[p] = Cardinality(Idle(p))
        /\ \A p \in Pools : ~ pool_abort[p] => m_threads[p] = Existing(p)
        /\ m_num_running_threads = Cardinality(Active)
BY DEF PoolCountersAgree, Idle, Existing, Active

LEMMA CountersSaidNext ==
    PoolCountersAgree' <=>
        /\ \A p \in Pools : m_num_idle_threads'[p] = Cardinality(Idle(p)')
        /\ \A p \in Pools : ~ pool_abort'[p] => m_threads'[p] = Existing(p)'
        /\ m_num_running_threads' = Cardinality(Active')
BY DEF PoolCountersAgree, Idle, Existing, Active

(* One thread goes on. *)
LEMMA Moved ==
    ASSUME PoolTypes, NEW t \in Threads, NEW w \in Pcs, Goes(t, w)
    PROVE  /\ pc' \in [Threads -> Pcs]
           /\ pc'[t] = w /\ \A u \in Threads : u # t => pc'[u] = pc[u]
           /\ \A p \in Pools :
                 /\ Idle(p)' = IF p # PoolOf(t) THEN Idle(p)
                               ELSE IF w \in IdlePcs THEN Idle(p) \cup {t} ELSE Idle(p) \ {t}
                 /\ Existing(p)' = IF p # PoolOf(t) THEN Existing(p)
                                   ELSE IF w \in {"none", "leave"} THEN Existing(p) \ {t}
                                   ELSE Existing(p) \cup {t}
           /\ Active' = IF w \in {"none", "start"} THEN Active \ {t} ELSE Active \cup {t}
<1>1. pc \in [Threads -> Pcs] /\ pc' = [pc EXCEPT ![t] = w]
  BY DEF PoolTypes, Goes
<1>2. /\ pc' \in [Threads -> Pcs]
      /\ pc'[t] = w /\ \A u \in Threads : u # t => pc'[u] = pc[u]
  BY <1>1
<1>3. ASSUME NEW p \in Pools
      PROVE  Idle(p)' = IF p # PoolOf(t) THEN Idle(p)
                        ELSE IF w \in IdlePcs THEN Idle(p) \cup {t} ELSE Idle(p) \ {t}
  BY <1>2 DEF Idle
<1>4. ASSUME NEW p \in Pools
      PROVE  Existing(p)' = IF p # PoolOf(t) THEN Existing(p)
                            ELSE IF w \in {"none", "leave"} THEN Existing(p) \ {t}
                            ELSE Existing(p) \cup {t}
  BY <1>2 DEF Existing
<1>5. Active' = IF w \in {"none", "start"} THEN Active \ {t} ELSE Active \cup {t}
  BY <1>2 DEF Active
<1> QED
  BY <1>2, <1>3, <1>4, <1>5

(* Threads that wait are notified. *)
LEMMA Notified ==
    ASSUME PoolTypes, NEW pools, NotifyAll(pools) \/ UNCHANGED pc
    PROVE  /\ pc' \in [Threads -> Pcs]
           /\ \A u \in Threads : pc'[u] = pc[u] \/ (pc[u] = "waiting" /\ pc'[u] = "notified")
           /\ \A p \in Pools : Idle(p)' = Idle(p) /\ Existing(p)' = Existing(p)
           /\ Active' = Active
<1>1. pc \in [Threads -> Pcs]
  BY DEF PoolTypes
<1>2. /\ pc' \in [Threads -> Pcs]
      /\ \A u \in Threads : pc'[u] = pc[u] \/ (pc[u] = "waiting" /\ pc'[u] = "notified")
  BY <1>1 DEF NotifyAll, Woken, Pcs
<1> QED
  BY <1>2 DEF Idle, Existing, Active, IdlePcs

(* job_queued: the threads that it starts were not there, and the pool has *)
(* not been stopped.                                                       *)
LEMMA Started ==
    ASSUME NEW p \in Pools
    PROVE  /\ \A t \in NewThreads(p) : t \in Threads /\ PoolOf(t) = p /\ pc[t] = "none"
           /\ NewThreads(p) # {} => ~ pool_abort[p]
BY DEF NewThreads, Short

(* What job_queued does to the threads: some start, some are notified, and *)
(* the caller goes on; nobody's idleness changes.                          *)
LEMMA Announced ==
    ASSUME PoolTypes, NEW announced \in SUBSET Pools, NEW caller \in SUBSET Threads,
           \A t \in caller : pc[t] = "submit",
           JobQueued(announced, caller)
    PROVE  LET new(p) == IF p \in announced THEN NewThreads(p) ELSE {}
           IN  /\ pc' \in [Threads -> Pcs]
               /\ \A u \in Threads :
                     \/ pc'[u] = pc[u] /\ ~ Woken(u, announced) /\ u \notin caller
                     \/ Woken(u, announced) /\ pc'[u] = "notified"
                     \/ u \in caller /\ pc'[u] = "lock"
                     \/ u \in new(PoolOf(u)) /\ pc[u] = "none" /\ pc'[u] = "start"
               /\ \A u \in Threads : u \in new(PoolOf(u)) => pc'[u] = "start"
               /\ \A p \in Pools : Idle(p)' = Idle(p) /\ Existing(p)' = Existing(p) \cup new(p)
               /\ Active' = Active
<1> DEFINE new(p) == IF p \in announced THEN NewThreads(p) ELSE {}
<1>1. pc \in [Threads -> Pcs]
  BY DEF PoolTypes
<1>2. pc' = [t \in Threads |-> CASE t \in new(PoolOf(t)) -> "start"
                                [] Woken(t, announced)   -> "notified"
                                [] t \in caller          -> "lock"
                                [] OTHER                 -> pc[t]]
  BY DEF JobQueued
<1>3. \A p \in Pools : \A t \in new(p) : t \in Threads /\ PoolOf(t) = p /\ pc[t] = "none"
  BY Started
<1>4. \A t \in Threads : PoolOf(t) \in Pools
  BY ThreadsFinite
<1> HIDE DEF new
<1>5. \A u \in Threads :
         \/ pc'[u] = pc[u] /\ ~ Woken(u, announced) /\ u \notin caller /\ u \notin new(PoolOf(u))
         \/ Woken(u, announced) /\ pc'[u] = "notified" /\ u \notin new(PoolOf(u))
         \/ u \in caller /\ pc'[u] = "lock" /\ u \notin new(PoolOf(u))
         \/ u \in new(PoolOf(u)) /\ pc[u] = "none" /\ pc'[u] = "start"
  <2> TAKE u \in Threads
  <2>1. u \in new(PoolOf(u)) => pc[u] = "none" /\ u \notin caller /\ ~ Woken(u, announced)
    BY <1>3, <1>4 DEF Woken
  <2>2. u \in caller => ~ Woken(u, announced)
    BY DEF Woken
  <2> HIDE DEF Woken
  <2>3. CASE u \in new(PoolOf(u))
    BY <1>2, <2>1, <2>3
  <2>4. CASE u \notin new(PoolOf(u)) /\ Woken(u, announced)
    BY <1>2, <2>2, <2>4
  <2>5. CASE u \notin new(PoolOf(u)) /\ u \in caller
    BY <1>2, <2>2, <2>5
  <2>6. CASE u \notin new(PoolOf(u)) /\ ~ Woken(u, announced) /\ u \notin caller
    BY <1>2, <2>6
  <2> QED
    BY <2>3, <2>4, <2>5, <2>6
<1>6. pc' \in [Threads -> Pcs]
  BY <1>1, <1>2 DEF Pcs
<1>7. \A p \in Pools : Idle(p)' = Idle(p)
  BY <1>5 DEF Idle, IdlePcs, Woken
<1>8. Active' = Active
  BY <1>5 DEF Active, Woken
<1>9. ASSUME NEW p \in Pools
      PROVE  Existing(p)' = Existing(p) \cup new(p)
  BY <1>3, <1>5 DEF Existing, Woken
<1> QED
  BY <1>5, <1>6, <1>7, <1>8, <1>9 DEF new

(* Whoever calls job_queued keeps it. *)
LEMMA AnnouncedKeepsPools ==
    ASSUME PoolPart, NEW announced \in SUBSET Pools, NEW caller \in SUBSET Threads,
           \A t \in caller : pc[t] = "submit",
           JobQueued(announced, caller),
           UNCHANGED <<queued, m_abort, m_jobs_aborted, m_num_running_threads, cleaning>>,
           m_deferred_submit_disk_jobs' \in BOOLEAN,
           \/ UNCHANGED net
           \/ net' = NetAt("abort", "generic", 0)
    PROVE  PoolPart'
<1> DEFINE new(p) == IF p \in announced THEN NewThreads(p) ELSE {}
<1>1. /\ pc' \in [Threads -> Pcs]
      /\ \A p \in Pools : Idle(p)' = Idle(p) /\ Existing(p)' = Existing(p) \cup new(p)
      /\ Active' = Active
  BY Announced DEF PoolPart
<1>2. \A p \in Pools : /\ \A t \in new(p) : t \in Threads /\ PoolOf(t) = p
                       /\ new(p) # {} => ~ pool_abort[p]
  BY Started
<1>3. /\ m_threads' = [p \in Pools |-> m_threads[p] \cup new(p)]
      /\ m_idle_timer' = [p \in Pools |-> m_idle_timer[p] \/ (new(p) # {} /\ m_threads[p] = {})]
      /\ m_threads_to_exit' \in [Pools -> Nat]
      /\ UNCHANGED <<m_max_threads, m_num_idle_threads, m_min_idle_threads, pool_abort>>
  BY DEF JobQueued, PoolPart, PoolTypes, PoolTypeOK
<1> HIDE DEF new
<1>4. PoolTypes'
  <2>1. m_threads' \in [Pools -> SUBSET Threads] /\ m_idle_timer' \in [Pools -> BOOLEAN]
    BY <1>2, <1>3 DEF PoolPart, PoolTypes
  <2>2. \A p \in Pools : m_threads'[p] \subseteq {t \in Threads : PoolOf(t) = p}
    BY <1>2, <1>3 DEF PoolPart, PoolTypes, PoolTypeOK
  <2>3. /\ net' \in [at : {"idle", "settings", "reap", "abort", "stop", "done"}, pool : Pools, n : Nat]
        /\ net'.at = "settings" => net'.n \in AioThreads
        /\ net'.n \in Nat /\ net'.pool \in Pools
    BY DEF PoolPart, PoolTypes, PoolTypeOK, NetAt, Pools
  <2> QED
    BY <1>1, <1>3, <2>1, <2>2, <2>3 DEF PoolPart, PoolTypes, PoolTypeOK
<1>5. PoolCountersAgree'
  BY <1>1, <1>3, CountersSaid, CountersSaidNext DEF PoolPart
<1>6. ReaperArmed'
  <2>1. ASSUME NEW p \in Pools, ~ pool_abort'[p]
        PROVE  m_idle_timer'[p] <=> m_threads'[p] # {}
    <3>1. m_idle_timer[p] <=> m_threads[p] # {}
      BY <1>3, <2>1 DEF PoolPart, ReaperArmed
    <3>2. /\ m_threads'[p] = m_threads[p] \cup new(p)
          /\ m_idle_timer'[p] = (m_idle_timer[p] \/ (new(p) # {} /\ m_threads[p] = {}))
      BY <1>3
    <3> QED
      BY <3>1, <3>2
  <2> QED
    BY <2>1 DEF ReaperArmed
<1> QED
  BY <1>4, <1>5, <1>6 DEF PoolPart

(* The network thread keeps it. *)
LEMMA QuietNetKeepsPools ==
    ASSUME PoolPart, AddJob \/ Abort \/ (\E p \in Pools : ReapIdleThreads(p))
    PROVE  PoolPart'
<1>1. UNCHANGED poolVars /\ UNCHANGED <<pc, m_num_running_threads, cleaning>>
  BY DEF AddJob, Abort, ReapIdleThreads
<1>2. /\ \A p \in Pools : Idle(p)' = Idle(p) /\ Existing(p)' = Existing(p)
      /\ Active' = Active
  BY <1>1, Notified DEF PoolPart
<1>3. queued' \in [Pools -> Nat]
  <2>1. queued \in [Pools -> Nat]
    BY DEF PoolPart, PoolTypes, PoolTypeOK
  <2>2. CASE AddJob
    <3>1. PICK h \in BOOLEAN : queued' = [queued EXCEPT ![QueueFor(h)] = @ + 1]
      BY <2>2 DEF AddJob
    <3>2. QueueFor(h) \in Pools
      BY DEF QueueFor, Pools
    <3> HIDE DEF QueueFor
    <3> QED
      BY <2>1, <3>1, <3>2
  <2> QED
    BY <2>1, <2>2 DEF Abort, ReapIdleThreads
<1>4. /\ net' \in [at : {"idle", "settings", "reap", "abort", "stop", "done"}, pool : Pools, n : Nat]
      /\ net'.at = "settings" => net'.n \in AioThreads
  <2>1. CASE AddJob
    BY <2>1 DEF AddJob, PoolPart, PoolTypes
  <2>2. CASE Abort
    BY <2>2 DEF Abort, NetAt, Pools
  <2>3. ASSUME NEW p \in Pools, ReapIdleThreads(p)
        PROVE  net' = NetAt("reap", p, m_num_idle_threads[p]) /\ m_num_idle_threads[p] \in Nat
    BY <2>3 DEF ReapIdleThreads, PoolPart, PoolTypes, PoolTypeOK
  <2> QED
    BY <2>1, <2>2, <2>3 DEF NetAt
<1>5. m_abort' \in BOOLEAN /\ m_jobs_aborted' \in BOOLEAN /\ m_deferred_submit_disk_jobs' \in BOOLEAN
  BY DEF AddJob, Abort, ReapIdleThreads, PoolPart, PoolTypes
<1>6. PoolTypes'
  BY <1>1, <1>3, <1>4, <1>5 DEF poolVars, PoolPart, PoolTypes, PoolTypeOK
<1>7. PoolCountersAgree'
  BY <1>1, <1>2, CountersSaid, CountersSaidNext DEF PoolPart, poolVars
<1>8. ReaperArmed'
  BY <1>1 DEF PoolPart, ReaperArmed, poolVars
<1> QED
  BY <1>6, <1>7, <1>8 DEF PoolPart

LEMMA SubmitJobsKeepsPools ==
    ASSUME PoolPart, SubmitJobs
    PROVE  PoolPart'
<1>1. /\ JobQueued({p \in Pools : queued[p] > 0}, {})
      /\ UNCHANGED <<queued, m_abort, m_jobs_aborted, m_num_running_threads, cleaning>>
      /\ m_deferred_submit_disk_jobs' \in BOOLEAN
      /\ UNCHANGED net \/ net' = NetAt("abort", "generic", 0)
  BY DEF SubmitJobs
<1>2. {p \in Pools : queued[p] > 0} \in SUBSET Pools /\ {} \in SUBSET Threads
  OBVIOUS
<1> QED
  BY <1>1, <1>2, AnnouncedKeepsPools

LEMMA AbortPoolKeepsPools ==
    ASSUME PoolPart, NEW p \in Pools, AbortPool(p)
    PROVE  PoolPart'
<1>1. /\ pc' \in [Threads -> Pcs]
      /\ \A q \in Pools : Idle(q)' = Idle(q) /\ Existing(q)' = Existing(q)
      /\ Active' = Active
  BY Notified DEF PoolPart, AbortPool, StopThreads
<1>2. Cardinality(m_threads[p]) \in Nat
  BY Counts DEF PoolPart, PoolTypes
<1>3. /\ net' \in [at : {"idle", "settings", "reap", "abort", "stop", "done"}, pool : Pools, n : Nat]
      /\ net'.at # "settings"
  BY DEF AbortPool, NetAt, Pools
<1>4. /\ m_threads_to_exit' \in [Pools -> Nat]
      /\ m_threads' \in [Pools -> SUBSET Threads]
      /\ \A q \in Pools : m_threads'[q] \subseteq {t \in Threads : PoolOf(t) = q}
      /\ m_idle_timer' \in [Pools -> BOOLEAN] /\ pool_abort' \in [Pools -> BOOLEAN]
      /\ pool_abort'[p] /\ \A q \in Pools : q # p => /\ pool_abort'[q] = pool_abort[q]
                                                     /\ m_threads'[q] = m_threads[q]
                                                     /\ m_idle_timer'[q] = m_idle_timer[q]
  BY <1>2 DEF AbortPool, StopThreads, PoolPart, PoolTypes, PoolTypeOK
<1>5. UNCHANGED <<queued, m_deferred_submit_disk_jobs, m_max_threads, m_num_idle_threads,
                  m_min_idle_threads, m_abort, m_jobs_aborted, m_num_running_threads, cleaning>>
  BY DEF AbortPool
<1>6. PoolTypes'
  BY <1>1, <1>3, <1>4, <1>5 DEF PoolPart, PoolTypes, PoolTypeOK
<1>7. PoolCountersAgree'
  BY <1>1, <1>4, <1>5, CountersSaid, CountersSaidNext DEF PoolPart
<1>8. ReaperArmed'
  BY <1>4 DEF PoolPart, ReaperArmed
<1> QED
  BY <1>6, <1>7, <1>8 DEF PoolPart

(* set_max_threads asks for a number of threads that is not negative. *)
LEMMA SettingsKeepPools ==
    ASSUME PoolPart, NEW n \in AioThreads, SettingsUpdated(n)
    PROVE  PoolPart'
<1>1. PICK p \in Pools : SetMaxThreads(p, MaxThreads(n)[p])
  <2>1. CASE SetMaxThreads("generic", MaxThreads(n).generic)
    BY <2>1 DEF Pools
  <2>2. CASE SetMaxThreads("hash", MaxThreads(n).hash)
    BY <2>2 DEF Pools
  <2> QED
    BY <2>1, <2>2 DEF SettingsUpdated
<1>2. UNCHANGED pc \/ NotifyAll({p})
  BY <1>1 DEF SetMaxThreads, StopThreads
<1>3. /\ pc' \in [Threads -> Pcs]
      /\ \A q \in Pools : Idle(q)' = Idle(q) /\ Existing(q)' = Existing(q)
      /\ Active' = Active
  BY <1>2, Notified DEF PoolPart
<1>4. MaxThreads(n)[p] \in Nat
  BY Maxima
<1>5. m_threads_to_exit' \in [Pools -> Nat]
  <2>1. Cardinality(m_threads[p]) \in Nat
    BY Counts DEF PoolPart, PoolTypes
  <2>2. Cardinality(m_threads[p]) >= MaxThreads(n)[p] =>
            Cardinality(m_threads[p]) - MaxThreads(n)[p] \in Nat
    BY <1>4, <2>1
  <2>3. \/ UNCHANGED m_threads_to_exit
        \/ /\ Cardinality(m_threads[p]) >= MaxThreads(n)[p]
           /\ m_threads_to_exit' = [m_threads_to_exit EXCEPT
                                       ![p] = Cardinality(m_threads[p]) - MaxThreads(n)[p]]
    BY <1>1, <1>4, <2>1 DEF SetMaxThreads, StopThreads
  <2> QED
    BY <2>2, <2>3 DEF PoolPart, PoolTypes, PoolTypeOK
<1>6. /\ m_max_threads' \in [Pools -> Nat]
      /\ \A q \in Pools : \E m \in AioThreads : m_max_threads'[q] = MaxThreads(m)[q]
  <2>1. m_max_threads' = [m_max_threads EXCEPT ![p] = MaxThreads(n)[p]]
    BY <1>1 DEF SetMaxThreads
  <2> QED
    BY <1>4, <2>1 DEF PoolPart, PoolTypes, PoolTypeOK
<1>7. /\ net' \in [at : {"idle", "settings", "reap", "abort", "stop", "done"}, pool : Pools, n : Nat]
      /\ net'.at = "settings" => net'.n \in AioThreads
  BY Shares DEF SettingsUpdated, NetIdle, NetAt, Pools
<1>8. UNCHANGED <<queued, m_deferred_submit_disk_jobs, m_num_idle_threads, m_min_idle_threads,
                  m_threads, m_idle_timer, pool_abort, m_abort, m_jobs_aborted,
                  m_num_running_threads, cleaning>>
  BY <1>1 DEF SettingsUpdated, SetMaxThreads
<1>9. PoolTypes'
  BY <1>3, <1>5, <1>6, <1>7, <1>8 DEF PoolPart, PoolTypes, PoolTypeOK
<1>10. PoolCountersAgree' /\ ReaperArmed'
  BY <1>3, <1>8, CountersSaid, CountersSaidNext DEF PoolPart, ReaperArmed
<1> QED
  BY <1>9, <1>10 DEF PoolPart

LEMMA ReapStopKeepsPools ==
    ASSUME PoolPart, NEW p \in Pools, ReapStop(p)
    PROVE  PoolPart'
<1>1. UNCHANGED pc \/ NotifyAll({p})
  BY DEF ReapStop, StopThreads
<1>2. /\ pc' \in [Threads -> Pcs]
      /\ \A q \in Pools : Idle(q)' = Idle(q) /\ Existing(q)' = Existing(q)
      /\ Active' = Active
  BY <1>1, Notified DEF PoolPart
<1>3. Cardinality(m_threads[p]) \in Nat
  BY Counts DEF PoolPart, PoolTypes
<1>4. m_threads_to_exit' \in [Pools -> Nat] /\ m_min_idle_threads' \in [Pools -> Nat]
  BY <1>3 DEF ReapStop, StopThreads, PoolPart, PoolTypes, PoolTypeOK
<1>5. net' \in [at : {"idle", "settings", "reap", "abort", "stop", "done"}, pool : Pools, n : Nat]
      /\ net'.at # "settings"
  BY DEF ReapStop, NetIdle, NetAt, Pools
<1>6. UNCHANGED <<queued, m_deferred_submit_disk_jobs, m_max_threads, m_num_idle_threads,
                  m_threads, m_idle_timer, pool_abort, m_abort, m_jobs_aborted,
                  m_num_running_threads, cleaning>>
  BY DEF ReapStop
<1>7. PoolTypes'
  BY <1>2, <1>4, <1>5, <1>6 DEF PoolPart, PoolTypes, PoolTypeOK
<1>8. PoolCountersAgree' /\ ReaperArmed'
  BY <1>2, <1>6, CountersSaid, CountersSaidNext DEF PoolPart, ReaperArmed
<1> QED
  BY <1>7, <1>8 DEF PoolPart

(* How the counters have to move when one thread goes on. *)
LEMMA MovedCounts ==
    ASSUME PoolPart, NEW t \in Threads, NEW w \in Pcs, Goes(t, w)
    PROVE  /\ \A q \in Pools :
                 Cardinality(Idle(q)') = m_num_idle_threads[q] +
                     (IF q # PoolOf(t) \/ (pc[t] \in IdlePcs <=> w \in IdlePcs) THEN 0
                      ELSE IF w \in IdlePcs THEN 1 ELSE -1)
           /\ Cardinality(Active') = m_num_running_threads +
                 (IF pc[t] \in {"none", "start"} <=> w \in {"none", "start"} THEN 0
                  ELSE IF w \in {"none", "start"} THEN -1 ELSE 1)
           /\ pc[t] \in IdlePcs => m_num_idle_threads[PoolOf(t)] > 0
           /\ pc[t] \notin {"none", "start"} => m_num_running_threads > 0
<1>1. /\ \A p \in Pools :
            Idle(p)' = IF p # PoolOf(t) THEN Idle(p)
                       ELSE IF w \in IdlePcs THEN Idle(p) \cup {t} ELSE Idle(p) \ {t}
      /\ Active' = IF w \in {"none", "start"} THEN Active \ {t} ELSE Active \cup {t}
  BY Moved DEF PoolPart
<1>2. /\ \A p \in Pools : m_num_idle_threads[p] = Cardinality(Idle(p))
      /\ m_num_running_threads = Cardinality(Active)
  BY CountersSaid DEF PoolPart
<1>3. PoolOf(t) \in Pools
  BY ThreadsFinite
<1>4. /\ \A p \in Pools : Idle(p) \in SUBSET Threads
      /\ Active \in SUBSET Threads
  BY DEF Idle, Active
<1>5. /\ t \in Idle(PoolOf(t)) <=> pc[t] \in IdlePcs
      /\ t \in Active <=> pc[t] \notin {"none", "start"}
  BY DEF Idle, Active
<1>6. ASSUME NEW S \in SUBSET Threads
      PROVE  /\ Cardinality(S) \in Nat
             /\ Cardinality(S \cup {t}) = IF t \in S THEN Cardinality(S) ELSE Cardinality(S) + 1
             /\ Cardinality(S \ {t}) = IF t \in S THEN Cardinality(S) - 1 ELSE Cardinality(S)
             /\ t \in S => Cardinality(S) > 0
  BY Counts
<1>7. ASSUME NEW q \in Pools
      PROVE  Cardinality(Idle(q)') = m_num_idle_threads[q] +
                     (IF q # PoolOf(t) \/ (pc[t] \in IdlePcs <=> w \in IdlePcs) THEN 0
                      ELSE IF w \in IdlePcs THEN 1 ELSE -1)
  <2> DEFINE c == Cardinality(Idle(q))
             d == Cardinality(Idle(q)')
             was == t \in Idle(q)
             is  == w \in IdlePcs
  <2>1. c \in Nat /\ m_num_idle_threads[q] = c
    BY <1>2, <1>4, <1>6
  <2>2. q # PoolOf(t) => d = c
    BY <1>1
  <2>3. q = PoolOf(t) /\ is => d = IF was THEN c ELSE c + 1
    BY <1>1, <1>4, <1>6
  <2>4. q = PoolOf(t) /\ ~ is => d = IF was THEN c - 1 ELSE c
    BY <1>1, <1>4, <1>6
  <2>5. q = PoolOf(t) => (was <=> pc[t] \in IdlePcs)
    BY <1>5
  <2>6. d = c + (IF q # PoolOf(t) \/ (was <=> is) THEN 0 ELSE IF is THEN 1 ELSE -1)
    <3> HIDE DEF c, d, was, is
    <3>1. CASE q # PoolOf(t)
      BY <2>1, <2>2, <3>1
    <3>2. CASE q = PoolOf(t) /\ is
      BY <2>1, <2>3, <3>2
    <3>3. CASE q = PoolOf(t) /\ ~ is
      BY <2>1, <2>4, <3>3
    <3> QED
      BY <3>1, <3>2, <3>3
  <2> HIDE DEF c, d, was
  <2>7. CASE q # PoolOf(t)
    BY <2>1, <2>6, <2>7 DEF d
  <2>8. CASE q = PoolOf(t)
    BY <2>1, <2>5, <2>6, <2>8 DEF d
  <2> QED
    BY <2>7, <2>8
<1>8. Cardinality(Active') = m_num_running_threads +
                 (IF pc[t] \in {"none", "start"} <=> w \in {"none", "start"} THEN 0
                  ELSE IF w \in {"none", "start"} THEN -1 ELSE 1)
  <2> DEFINE c == Cardinality(Active)
             was == t \in Active
             is  == w \notin {"none", "start"}
  <2>1. c \in Nat /\ m_num_running_threads = c
    BY <1>2, <1>4, <1>6
  <2>2. is => Cardinality(Active') = IF was THEN c ELSE c + 1
    BY <1>1, <1>4, <1>6
  <2>3. ~ is => Cardinality(Active') = IF was THEN c - 1 ELSE c
    BY <1>1, <1>4, <1>6
  <2>4. was <=> pc[t] \notin {"none", "start"}
    BY <1>5
  <2> HIDE DEF c, was
  <2>5. CASE is
    BY <2>1, <2>2, <2>4, <2>5
  <2>6. CASE ~ is
    BY <2>1, <2>3, <2>4, <2>6
  <2> QED
    BY <2>5, <2>6
<1> QED
  BY <1>2, <1>3, <1>4, <1>5, <1>6, <1>7, <1>8

(* A thread takes a job, or is idle. *)
LEMMA TakingKeepsPools ==
    ASSUME PoolPart, NEW t \in Threads, Start(t) \/ Relock(t)
    PROVE  PoolPart'
<1> DEFINE p == PoolOf(t)
<1>1. p \in Pools
  BY ThreadsFinite
<1>2. PICK w \in {"work", "check"} :
         /\ Goes(t, w)
         /\ w = "work" => /\ queued[p] > 0 /\ queued' = [queued EXCEPT ![p] = @ - 1]
                          /\ UNCHANGED <<m_num_idle_threads, m_min_idle_threads>>
         /\ w = "check" => /\ ThreadIdle(p) /\ UNCHANGED queued
  <2>1. TakeOrIdle(t)
    BY DEF Start, Relock
  <2> QED
    BY <2>1 DEF TakeOrIdle
<1>3. w \in Pcs /\ pc[t] \in {"start", "lock"}
  BY DEF Pcs, Start, Relock
<1>4. /\ pc' \in [Threads -> Pcs]
      /\ \A q \in Pools : Existing(q)' = IF q = p THEN Existing(q) \cup {t} ELSE Existing(q)
  BY <1>2, <1>3, Moved DEF PoolPart
<1>5. t \in Existing(p)
  BY <1>3 DEF Existing
<1>6. \A q \in Pools : Existing(q)' = Existing(q)
  BY <1>4, <1>5
<1>7. UNCHANGED <<m_deferred_submit_disk_jobs, m_max_threads, m_threads_to_exit, m_threads,
                  m_idle_timer, pool_abort, m_abort, m_jobs_aborted, net, cleaning>>
  BY DEF Start, Relock
<1>8. /\ \A q \in Pools : Cardinality(Idle(q)') = m_num_idle_threads[q] +
            (IF q # p \/ w = "work" THEN 0 ELSE 1)
      /\ Cardinality(Active') = m_num_running_threads + (IF pc[t] = "start" THEN 1 ELSE 0)
  BY <1>2, <1>3, MovedCounts DEF IdlePcs
<1>9. /\ queued' \in [Pools -> Nat]
      /\ m_num_idle_threads' \in [Pools -> Nat] /\ m_min_idle_threads' \in [Pools -> Nat]
      /\ \A q \in Pools : m_num_idle_threads'[q] = m_num_idle_threads[q] +
            (IF q # p \/ w = "work" THEN 0 ELSE 1)
  <2>1. /\ queued \in [Pools -> Nat]
        /\ m_num_idle_threads \in [Pools -> Nat] /\ m_min_idle_threads \in [Pools -> Nat]
    BY DEF PoolPart, PoolTypes, PoolTypeOK
  <2> HIDE DEF p
  <2>2. CASE w = "work"
    BY <1>1, <1>2, <2>1, <2>2
  <2>3. CASE w = "check"
    BY <1>1, <1>2, <2>1, <2>3 DEF ThreadIdle
  <2> QED
    BY <2>2, <2>3
<1>10. m_num_running_threads' = m_num_running_threads + (IF pc[t] = "start" THEN 1 ELSE 0)
       /\ m_num_running_threads' \in Nat
  BY <1>3 DEF Start, Relock, PoolPart, PoolTypes, PoolTypeOK
<1>11. PoolTypes'
  BY <1>4, <1>7, <1>9, <1>10 DEF PoolPart, PoolTypes, PoolTypeOK
<1>12. PoolCountersAgree' /\ ReaperArmed'
  BY <1>6, <1>7, <1>8, <1>9, <1>10, CountersSaid, CountersSaidNext DEF PoolPart, ReaperArmed
<1> QED
  BY <1>11, <1>12 DEF PoolPart

(* A thread goes on between thread_idle and thread_active, or outside. *)
LEMMA GoingOnKeepsPools ==
    ASSUME PoolPart, NEW t \in Threads, Check(t) \/ Sleep(t) \/ Work(t)
    PROVE  PoolPart'
<1>1. PICK w \in {"exit", "sleep", "waiting", "lock", "submit"} :
         /\ Goes(t, w)
         /\ w \in {"exit", "sleep", "waiting"} => pc[t] \in {"check", "sleep"}
         /\ w \in {"lock", "submit"} => pc[t] = "work"
  BY DEF Check, Sleep, Work, Retry
<1>2. w \in Pcs /\ PoolOf(t) \in Pools
  BY ThreadsFinite DEF Pcs
<1>3. /\ pc' \in [Threads -> Pcs]
      /\ \A q \in Pools : Existing(q)' = IF q = PoolOf(t) THEN Existing(q) \cup {t} ELSE Existing(q)
  BY <1>1, <1>2, Moved DEF PoolPart
<1>4. t \in Existing(PoolOf(t))
  BY <1>1 DEF Existing
<1>5. \A q \in Pools : Existing(q)' = Existing(q)
  BY <1>3, <1>4
<1>6. /\ \A q \in Pools : Cardinality(Idle(q)') = m_num_idle_threads[q] + 0
      /\ Cardinality(Active') = m_num_running_threads + 0
  <2>1. pc[t] \in IdlePcs <=> w \in IdlePcs
    BY <1>1 DEF IdlePcs
  <2>2. pc[t] \notin {"none", "start"} /\ w \notin {"none", "start"}
    BY <1>1
  <2> QED
    BY <1>1, <1>2, <2>1, <2>2, MovedCounts
<1>7. UNCHANGED <<m_deferred_submit_disk_jobs, m_max_threads, m_num_idle_threads,
                  m_min_idle_threads, m_threads, m_idle_timer, pool_abort, m_abort,
                  m_jobs_aborted, m_num_running_threads, net, cleaning>>
  BY DEF Check, Sleep, Work, poolVars
<1>8. /\ m_num_idle_threads \in [Pools -> Nat] /\ m_num_running_threads \in Nat
      /\ queued \in [Pools -> Nat] /\ m_threads_to_exit \in [Pools -> Nat]
  BY DEF PoolPart, PoolTypes, PoolTypeOK
<1>9. queued' \in [Pools -> Nat]
  <2>1. ASSUME NEW h \in BOOLEAN
        PROVE  [queued EXCEPT ![QueueFor(h)] = @ + 1] \in [Pools -> Nat]
    <3>1. QueueFor(h) \in Pools
      BY DEF QueueFor, Pools
    <3> HIDE DEF QueueFor
    <3> QED
      BY <1>8, <3>1
  <2>2. [queued EXCEPT !["generic"] = @ + 1] \in [Pools -> Nat]
    BY <1>8 DEF Pools
  <2> QED
    BY <1>8, <2>1, <2>2 DEF Check, Sleep, Work, Retry
<1>10. m_threads_to_exit' \in [Pools -> Nat]
  BY <1>2, <1>8 DEF Check, Sleep, Work, poolVars
<1>11. PoolTypes'
  BY <1>3, <1>7, <1>9, <1>10 DEF PoolPart, PoolTypes, PoolTypeOK
<1>12. PoolCountersAgree' /\ ReaperArmed'
  BY <1>5, <1>6, <1>7, <1>8, CountersSaid, CountersSaidNext DEF PoolPart, ReaperArmed
<1> QED
  BY <1>11, <1>12 DEF PoolPart

(* thread_active: there is a thread to be counted off. *)
LEMMA CountedOff ==
    ASSUME PoolPart, NEW t \in Threads, pc[t] \in IdlePcs, NEW w \in Pcs \ IdlePcs, Goes(t, w),
           ThreadActive(PoolOf(t))
    PROVE  /\ m_num_idle_threads' \in [Pools -> Nat] /\ m_min_idle_threads' \in [Pools -> Nat]
           /\ \A q \in Pools : Cardinality(Idle(q)') = m_num_idle_threads'[q]
<1> DEFINE p == PoolOf(t)
<1>1. p \in Pools
  BY ThreadsFinite
<1>2. /\ m_num_idle_threads[p] > 0
      /\ \A q \in Pools : Cardinality(Idle(q)') = m_num_idle_threads[q] + IF q # p THEN 0 ELSE -1
  BY MovedCounts
<1>3. m_num_idle_threads \in [Pools -> Nat] /\ m_min_idle_threads \in [Pools -> Nat]
  BY DEF PoolPart, PoolTypes, PoolTypeOK
<1>4. /\ m_num_idle_threads' = [m_num_idle_threads EXCEPT ![p] = m_num_idle_threads[p] - 1]
      /\ m_min_idle_threads' = [m_min_idle_threads EXCEPT ![p] =
            IF m_num_idle_threads[p] - 1 < m_min_idle_threads[p]
            THEN m_num_idle_threads[p] - 1 ELSE m_min_idle_threads[p]]
  BY DEF ThreadActive
<1> HIDE DEF p
<1>5. m_num_idle_threads' \in [Pools -> Nat] /\ m_min_idle_threads' \in [Pools -> Nat]
  BY <1>1, <1>2, <1>3, <1>4
<1>6. ASSUME NEW q \in Pools
      PROVE  Cardinality(Idle(q)') = m_num_idle_threads'[q]
  <2>1. Cardinality(Idle(q)') = m_num_idle_threads[q] + IF q # p THEN 0 ELSE -1
    BY <1>2
  <2> QED
    BY <1>1, <1>3, <1>4, <2>1
<1> QED
  BY <1>5, <1>6

LEMMA WakeKeepsPools ==
    ASSUME PoolPart, NEW t \in Threads, Wake(t)
    PROVE  PoolPart'
<1> DEFINE p == PoolOf(t)
<1>1. p \in Pools /\ pc[t] = "notified"
  BY ThreadsFinite DEF Wake
<1>2. PICK w \in {"work", "check"} :
         /\ Goes(t, w)
         /\ w = "work" => /\ queued[p] > 0 /\ queued' = [queued EXCEPT ![p] = @ - 1]
                          /\ ThreadActive(p)
         /\ w = "check" => UNCHANGED <<queued, m_num_idle_threads, m_min_idle_threads>>
  BY DEF Wake
<1>3. w \in Pcs
  BY DEF Pcs
<1>4. /\ pc' \in [Threads -> Pcs]
      /\ \A q \in Pools : Existing(q)' = IF q = p THEN Existing(q) \cup {t} ELSE Existing(q)
  BY <1>2, <1>3, Moved DEF PoolPart
<1>5. t \in Existing(p)
  BY <1>1 DEF Existing
<1>6. \A q \in Pools : Existing(q)' = Existing(q)
  BY <1>4, <1>5
<1>7. UNCHANGED <<m_deferred_submit_disk_jobs, m_max_threads, m_threads_to_exit, m_threads,
                  m_idle_timer, pool_abort, m_abort, m_jobs_aborted, m_num_running_threads,
                  net, cleaning>>
  BY DEF Wake
<1>8. /\ queued \in [Pools -> Nat] /\ m_num_running_threads \in Nat
      /\ m_num_idle_threads \in [Pools -> Nat] /\ m_min_idle_threads \in [Pools -> Nat]
  BY DEF PoolPart, PoolTypes, PoolTypeOK
<1>9. Cardinality(Active') = m_num_running_threads + 0
  BY <1>1, <1>2, <1>3, MovedCounts
<1>10. /\ m_num_idle_threads' \in [Pools -> Nat] /\ m_min_idle_threads' \in [Pools -> Nat]
       /\ \A q \in Pools : Cardinality(Idle(q)') = m_num_idle_threads'[q]
  <2>1. CASE w = "work"
    BY <1>1, <1>2, <1>3, <2>1, CountedOff DEF IdlePcs
  <2>2. CASE w = "check"
    <3>1. \A q \in Pools : Cardinality(Idle(q)') = m_num_idle_threads[q] + 0
      BY <1>1, <1>2, <1>3, <2>2, MovedCounts DEF IdlePcs
    <3> QED
      BY <1>2, <1>8, <2>2, <3>1
  <2> QED
    BY <2>1, <2>2
<1>11. queued' \in [Pools -> Nat]
  <2> HIDE DEF p
  <2> QED
    BY <1>1, <1>2, <1>8
<1>12. PoolTypes'
  BY <1>4, <1>7, <1>10, <1>11 DEF PoolPart, PoolTypes, PoolTypeOK
<1>13. PoolCountersAgree' /\ ReaperArmed'
  BY <1>6, <1>7, <1>8, <1>9, <1>10, CountersSaid, CountersSaidNext DEF PoolPart, ReaperArmed
<1> QED
  BY <1>12, <1>13 DEF PoolPart

LEMMA SubmitKeepsPools ==
    ASSUME PoolPart, NEW t \in Threads, Submit(t)
    PROVE  PoolPart'
<1>1. /\ JobQueued({"generic"}, {t})
      /\ UNCHANGED <<queued, m_abort, m_jobs_aborted, m_num_running_threads, cleaning>>
      /\ m_deferred_submit_disk_jobs' \in BOOLEAN
      /\ UNCHANGED net
      /\ \A u \in {t} : pc[u] = "submit"
  BY DEF Submit, PoolPart, PoolTypes
<1>2. {"generic"} \in SUBSET Pools /\ {t} \in SUBSET Threads
  BY DEF Pools
<1> QED
  BY <1>1, <1>2, AnnouncedKeepsPools

(* A thread is forgotten under the mutex of its pool ... *)
LEMMA EraseKeepsPools ==
    ASSUME PoolPart, NEW t \in Threads, Erase(t)
    PROVE  PoolPart'
<1> DEFINE p == PoolOf(t)
           left == IF pool_abort[p] THEN m_threads[p] ELSE m_threads[p] \ {t}
<1>1. p \in Pools /\ pc[t] = "exit" /\ Goes(t, "leave") /\ "leave" \in Pcs
  BY ThreadsFinite DEF Erase, Pcs
<1>2. /\ m_threads' = [m_threads EXCEPT ![p] = left]
      /\ m_idle_timer' = [m_idle_timer EXCEPT ![p] = m_idle_timer[p] /\ left # {}]
  BY DEF Erase
<1>3. /\ pc' \in [Threads -> Pcs]
      /\ \A q \in Pools : Existing(q)' = IF q = p THEN Existing(q) \ {t} ELSE Existing(q)
  BY <1>1, Moved DEF PoolPart
<1>4. /\ \A q \in Pools : Cardinality(Idle(q)') = m_num_idle_threads[q] + 0
      /\ Cardinality(Active') = m_num_running_threads + 0
  BY <1>1, MovedCounts DEF IdlePcs
<1>5. UNCHANGED <<queued, m_deferred_submit_disk_jobs, m_max_threads, m_threads_to_exit,
                  m_num_idle_threads, m_min_idle_threads, pool_abort, m_abort,
                  m_jobs_aborted, m_num_running_threads, net, cleaning>>
  BY DEF Erase
<1>6. /\ m_num_idle_threads \in [Pools -> Nat] /\ m_num_running_threads \in Nat
      /\ m_threads \in [Pools -> SUBSET Threads]
      /\ \A q \in Pools : m_threads[q] \subseteq {u \in Threads : PoolOf(u) = q}
      /\ m_idle_timer \in [Pools -> BOOLEAN]
  BY DEF PoolPart, PoolTypes, PoolTypeOK
<1>7. left \subseteq m_threads[p]
  OBVIOUS
<1> HIDE DEF p
<1>8. /\ m_threads' \in [Pools -> SUBSET Threads]
      /\ \A q \in Pools : m_threads'[q] \subseteq {u \in Threads : PoolOf(u) = q}
      /\ m_idle_timer' \in [Pools -> BOOLEAN]
  <2> HIDE DEF left
  <2>1. (m_idle_timer[p] /\ left # {}) \in BOOLEAN
    OBVIOUS
  <2> QED
    BY <1>1, <1>2, <1>6, <1>7, <2>1
<1>9. PoolTypes'
  BY <1>3, <1>5, <1>8 DEF PoolPart, PoolTypes, PoolTypeOK
<1>10. PoolCountersAgree'
  <2>1. \A q \in Pools : ~ pool_abort'[q] => m_threads'[q] = Existing(q)'
    <3>1. \A q \in Pools : ~ pool_abort[q] => m_threads[q] = Existing(q)
      BY CountersSaid DEF PoolPart
    <3> QED
      BY <1>1, <1>2, <1>3, <1>5, <1>6, <3>1
  <2>2. /\ \A q \in Pools : m_num_idle_threads'[q] = Cardinality(Idle(q)')
        /\ m_num_running_threads' = Cardinality(Active')
    BY <1>4, <1>5, <1>6
  <2> QED
    BY <2>1, <2>2, CountersSaidNext
<1>11. ReaperArmed'
  <2> SUFFICES ASSUME NEW q \in Pools, ~ pool_abort'[q]
               PROVE  m_idle_timer'[q] <=> m_threads'[q] # {}
    BY DEF ReaperArmed
  <2>1. ~ pool_abort[q] /\ (m_idle_timer[q] <=> m_threads[q] # {})
    BY <1>5 DEF PoolPart, ReaperArmed
  <2>2. CASE q # p
    BY <1>1, <1>2, <1>6, <2>1, <2>2
  <2>3. CASE q = p
    <3>1. m_threads'[q] = left /\ m_idle_timer'[q] = (m_idle_timer[q] /\ left # {})
      BY <1>1, <1>2, <1>6, <2>3
    <3> QED
      BY <1>7, <2>1, <2>3, <3>1
  <2> QED
    BY <2>2, <2>3
<1> QED
  BY <1>9, <1>10, <1>11 DEF PoolPart

(* ... and goes, under m_job_mutex. *)
LEMMA LeaveKeepsPools ==
    ASSUME PoolPart, NEW t \in Threads, Leave(t)
    PROVE  PoolPart'
<1>1. /\ PoolOf(t) \in Pools /\ pc[t] = "leave" /\ Goes(t, "none") /\ "none" \in Pcs \ IdlePcs
      /\ ThreadActive(PoolOf(t))
  BY ThreadsFinite DEF Leave, Pcs, IdlePcs
<1>2. /\ pc' \in [Threads -> Pcs]
      /\ \A q \in Pools : Existing(q)' = IF q = PoolOf(t) THEN Existing(q) \ {t} ELSE Existing(q)
  BY <1>1, Moved DEF PoolPart
<1>3. t \notin Existing(PoolOf(t))
  BY <1>1 DEF Existing
<1>4. \A q \in Pools : Existing(q)' = Existing(q)
  BY <1>2, <1>3
<1>5. /\ m_num_idle_threads' \in [Pools -> Nat] /\ m_min_idle_threads' \in [Pools -> Nat]
      /\ \A q \in Pools : Cardinality(Idle(q)') = m_num_idle_threads'[q]
  <2>1. pc[t] \in IdlePcs
    BY <1>1 DEF IdlePcs
  <2> QED
    BY <1>1, <2>1, CountedOff
<1>6. Cardinality(Active') = m_num_running_threads + -1 /\ m_num_running_threads > 0
  BY <1>1, MovedCounts
<1>7. UNCHANGED <<queued, m_deferred_submit_disk_jobs, m_max_threads, m_threads_to_exit,
                  m_threads, m_idle_timer, pool_abort, m_abort, m_jobs_aborted, net>>
  BY DEF Leave
<1>8. /\ m_num_running_threads' \in Nat /\ m_num_running_threads' = Cardinality(Active')
      /\ cleaning' \in Nat
  BY <1>6 DEF Leave, PoolPart, PoolTypes, PoolTypeOK
<1>9. PoolTypes'
  BY <1>2, <1>5, <1>7, <1>8 DEF PoolPart, PoolTypes, PoolTypeOK
<1>10. PoolCountersAgree' /\ ReaperArmed'
  BY <1>4, <1>5, <1>7, <1>8, CountersSaid, CountersSaidNext DEF PoolPart, ReaperArmed
<1> QED
  BY <1>9, <1>10 DEF PoolPart

LEMMA CleanupKeepsPools ==
    ASSUME PoolPart, Cleanup \/ UNCHANGED vars
    PROVE  PoolPart'
<1>1. UNCHANGED <<queued, m_deferred_submit_disk_jobs, poolVars, m_abort, m_num_running_threads,
                  pc, net>>
  BY DEF Cleanup, vars
<1>2. cleaning' \in Nat /\ m_jobs_aborted' \in BOOLEAN
  <2>1. cleaning \in Nat /\ m_jobs_aborted \in BOOLEAN
    BY DEF PoolPart, PoolTypes
  <2>2. cleaning' \in Nat
    BY <2>1 DEF Cleanup, vars
  <2>3. m_jobs_aborted' \in BOOLEAN
    BY <2>1 DEF Cleanup, vars
  <2> QED
    BY <2>2, <2>3
<1>3. /\ \A p \in Pools : Idle(p)' = Idle(p) /\ Existing(p)' = Existing(p)
      /\ Active' = Active
  BY <1>1, Notified DEF PoolPart
<1>4. PoolTypes'
  BY <1>1, <1>2 DEF poolVars, PoolPart, PoolTypes, PoolTypeOK
<1>5. PoolCountersAgree' /\ ReaperArmed'
  BY <1>1, <1>3, CountersSaid, CountersSaidNext DEF PoolPart, poolVars, ReaperArmed
<1> QED
  BY <1>4, <1>5 DEF PoolPart

LEMMA InitPools == Init => PoolPart
<1> SUFFICES ASSUME Init PROVE PoolPart
  OBVIOUS
<1>1. PoolTypes
  <2>1. PICK n \in AioThreads : m_max_threads = MaxThreads(n)
    BY DEF Init
  <2>2. m_max_threads \in [Pools -> Nat]
    BY <2>1, Maxima
  <2>3. \A p \in Pools : \E m \in AioThreads : m_max_threads[p] = MaxThreads(m)[p]
    BY <2>1
  <2> QED
    BY <2>2, <2>3 DEF Init, PoolTypes, PoolTypeOK, NetIdle, NetAt, Pools, Pcs
<1>2. (\A p \in Pools : Idle(p) = {} /\ Existing(p) = {}) /\ Active = {}
  BY DEF Init, Idle, Existing, Active, IdlePcs
<1>3. Cardinality({}) = 0
  BY FS_EmptySet
<1>4. PoolCountersAgree
  BY <1>2, <1>3, CountersSaid DEF Init
<1>5. ReaperArmed
  BY DEF Init, ReaperArmed
<1> QED
  BY <1>1, <1>4, <1>5 DEF PoolPart

(* No step disturbs it. *)
LEMMA PoolPartKept == PoolPart /\ [Next]_vars => PoolPart'
<1> SUFFICES ASSUME PoolPart, [Next]_vars PROVE PoolPart'
  OBVIOUS
<1>1. CASE AddJob \/ Abort \/ \E p \in Pools : ReapIdleThreads(p)
  BY <1>1, QuietNetKeepsPools
<1>2. CASE SubmitJobs
  BY <1>2, SubmitJobsKeepsPools
<1>3. ASSUME NEW p \in Pools, AbortPool(p) \/ ReapStop(p)
      PROVE  PoolPart'
  BY <1>3, AbortPoolKeepsPools, ReapStopKeepsPools
<1>4. ASSUME NEW n \in AioThreads, SettingsUpdated(n)
      PROVE  PoolPart'
  BY <1>4, SettingsKeepPools
<1>5. CASE Cleanup \/ UNCHANGED vars
  BY <1>5, CleanupKeepsPools
<1>6. ASSUME NEW t \in Threads, ThreadStep(t)
      PROVE  PoolPart'
  <2>1. CASE Start(t) \/ Relock(t)
    BY <2>1, TakingKeepsPools
  <2>2. CASE Check(t) \/ Sleep(t) \/ Work(t)
    BY <2>2, GoingOnKeepsPools
  <2>3. CASE Wake(t)
    BY <2>3, WakeKeepsPools
  <2>4. CASE Submit(t)
    BY <2>4, SubmitKeepsPools
  <2>5. CASE Erase(t)
    BY <2>5, EraseKeepsPools
  <2>6. CASE Leave(t)
    BY <2>6, LeaveKeepsPools
  <2> QED
    BY <1>6, <2>1, <2>2, <2>3, <2>4, <2>5, <2>6 DEF ThreadStep
<1> QED
  BY <1>1, <1>2, <1>3, <1>4, <1>5, <1>6 DEF Next
-----------------------------------------------------------------------------
(* abort() and the last thread *)

(* Only the network thread moves abort() on; the threads leave all that it *)
(* is about alone.                                                         *)
LEMMA ThreadsLeaveAbort ==
    ASSUME NEW t \in Threads, ThreadStep(t)
    PROVE  UNCHANGED <<m_abort, m_jobs_aborted, net, m_deferred_submit_disk_jobs, pool_abort>>
BY DEF ThreadStep, Start, Relock, Check, Sleep, Wake, Work, Submit, Erase, Leave, JobQueued, poolVars

LEMMA StagesKept ==
    ASSUME PoolPart, AbortStages, [Next]_vars
    PROVE  AbortStages'
<1> USE DEF AbortStages
<1>0. /\ net \in [at : {"idle", "settings", "reap", "abort", "stop", "done"}, pool : Pools, n : Nat]
      /\ pool_abort \in [Pools -> BOOLEAN]
  BY DEF PoolPart, PoolTypes
<1>1. CASE AddJob
  BY <1>1 DEF AddJob, NetIdle, NetAt, poolVars
<1>2. CASE SubmitJobs
  BY <1>2 DEF SubmitJobs, JobQueued, NetIdle, NetAt
<1>3. CASE Abort
  BY <1>3 DEF Abort, NetAt, poolVars
<1>4. ASSUME NEW p \in Pools, AbortPool(p)
      PROVE  AbortStages'
  BY <1>0, <1>4 DEF AbortPool, NetAt
<1>5. ASSUME NEW p \in Pools, ReapIdleThreads(p)
      PROVE  AbortStages'
  BY <1>5 DEF ReapIdleThreads, NetIdle, NetAt, poolVars
<1>6. ASSUME NEW p \in Pools, ReapStop(p)
      PROVE  AbortStages'
  BY <1>6 DEF ReapStop, NetIdle, NetAt
<1>7. ASSUME NEW n \in AioThreads, SettingsUpdated(n)
      PROVE  AbortStages'
  BY <1>7 DEF SettingsUpdated, SetMaxThreads, NetIdle, NetAt
<1>8. CASE Cleanup \/ UNCHANGED vars
  BY <1>8 DEF Cleanup, vars, poolVars
<1>9. ASSUME NEW t \in Threads, ThreadStep(t)
      PROVE  AbortStages'
  BY <1>9, ThreadsLeaveAbort
<1> QED
  BY <1>1, <1>2, <1>3, <1>4, <1>5, <1>6, <1>7, <1>8, <1>9 DEF Next

(* A thread that is there stays, but for the one that leaves. *)
LEMMA ThreadsStay ==
    ASSUME PoolPart, [Next]_vars, ~ \E t \in Threads : Leave(t),
           NEW u \in Threads, pc[u] # "none"
    PROVE  pc'[u] # "none"
<1>0. pc \in [Threads -> Pcs]
  BY DEF PoolPart, PoolTypes
<1>1. CASE UNCHANGED pc
  BY <1>1
<1>2. ASSUME NEW pools, NotifyAll(pools)
      PROVE  pc'[u] # "none"
  BY <1>2, Notified DEF PoolPart
<1>3. ASSUME NEW announced \in SUBSET Pools, NEW caller \in SUBSET Threads,
             \A t \in caller : pc[t] = "submit", JobQueued(announced, caller)
      PROVE  pc'[u] # "none"
  BY <1>3, Announced DEF PoolPart
<1>4. ASSUME NEW t \in Threads, NEW w \in Pcs \ {"none"}, Goes(t, w)
      PROVE  pc'[u] # "none"
  BY <1>0, <1>4 DEF Goes
<1>5. CASE AddJob \/ Abort \/ Cleanup \/ UNCHANGED vars \/ \E p \in Pools : ReapIdleThreads(p)
  BY <1>1, <1>5 DEF AddJob, Abort, Cleanup, ReapIdleThreads, vars
<1>6. CASE SubmitJobs
  <2>1. {p \in Pools : queued[p] > 0} \in SUBSET Pools /\ {} \in SUBSET Threads
    OBVIOUS
  <2> QED
    BY <1>3, <1>6, <2>1 DEF SubmitJobs
<1>7. ASSUME NEW p \in Pools, AbortPool(p) \/ ReapStop(p)
      PROVE  pc'[u] # "none"
  BY <1>1, <1>2, <1>7 DEF AbortPool, ReapStop, StopThreads
<1>8. ASSUME NEW n \in AioThreads, SettingsUpdated(n)
      PROVE  pc'[u] # "none"
  BY <1>1, <1>2, <1>8 DEF SettingsUpdated, SetMaxThreads, StopThreads
<1>9. ASSUME NEW t \in Threads, ThreadStep(t)
      PROVE  pc'[u] # "none"
  <2>1. CASE Submit(t)
    <3>1. {"generic"} \in SUBSET Pools /\ {t} \in SUBSET Threads
      BY DEF Pools
    <3> QED
      BY <1>3, <2>1, <3>1 DEF Submit
  <2>2. CASE ~ Submit(t)
    <3>1. \E w \in {"work", "check", "exit", "sleep", "waiting", "lock", "submit", "leave"} : Goes(t, w)
      BY <1>9, <2>2 DEF ThreadStep, Start, Relock, TakeOrIdle, Check, Sleep, Wake, Work,
                           Retry, Erase
    <3> QED
      BY <1>4, <3>1 DEF Pcs
  <2> QED
    BY <2>1, <2>2
<1> QED
  BY <1>5, <1>6, <1>7, <1>8, <1>9 DEF Next

(* Somebody is there to clean up: abort() finds the threads, or does it    *)
(* itself; a thread that leaves another behind, or cleans up.              *)
LEMMA CleanerKept ==
    ASSUME PoolPart, AbortStages, Cleaner, [Next]_vars
    PROVE  Cleaner'
<1>1. CASE Abort
  <2>1. CASE \A p \in Pools : m_threads[p] = {}
    BY <1>1, <2>1 DEF Abort, Cleaner
  <2>2. ASSUME NEW p \in Pools, m_threads[p] # {}
        PROVE  \E t \in Threads : pc[t] # "none"
    <3>1. ~ pool_abort[p]
      BY <1>1 DEF Abort, AbortStages
    <3>2. m_threads[p] = Existing(p)
      BY <3>1, CountersSaid DEF PoolPart
    <3> QED
      BY <2>2, <3>2 DEF Existing
  <2> QED
    BY <1>1, <2>1, <2>2 DEF Abort, Cleaner
<1>2. ASSUME NEW t \in Threads, Leave(t)
      PROVE  Cleaner'
  <2>1. CASE m_num_running_threads' > 0
    <3>1. m_num_running_threads' = Cardinality(Active')
      BY PoolPartKept, CountersSaidNext DEF PoolPart
    <3>2. Active' # {}
      BY <2>1, <3>1, FS_EmptySet
    <3> QED
      BY <3>2 DEF Active, Cleaner
  <2>2. CASE ~ (m_num_running_threads' > 0)
    <3>1. m_abort' => cleaning' = cleaning + 1
      BY <1>2, <2>2 DEF Leave
    <3> QED
      BY <3>1 DEF Cleaner, PoolPart, PoolTypes
  <2> QED
    BY <2>1, <2>2
<1>3. CASE Cleanup
  BY <1>3 DEF Cleanup, Cleaner
<1>4. CASE ~ Abort /\ ~ Cleanup /\ ~ \E t \in Threads : Leave(t)
  <2>1. \A u \in Threads : pc[u] # "none" => pc'[u] # "none"
    BY <1>4, ThreadsStay
  <2>2. UNCHANGED <<m_abort, m_jobs_aborted, cleaning>>
    BY <1>4 DEF Next, ThreadStep, vars, AddJob, SubmitJobs, AbortPool, ReapIdleThreads, ReapStop,
                SettingsUpdated, Start, Relock, Check, Sleep, Wake, Work, Submit, Erase
  <2> QED
    BY <2>1, <2>2 DEF Cleaner
<1> QED
  BY <1>1, <1>2, <1>3, <1>4

(* The invariant of the pools, inductive. *)
THEOREM PoolInvTheorem == Spec => []PoolInv
<1>1. Init => AbortStages /\ Cleaner
  BY DEF Init, AbortStages, Cleaner, NetIdle, NetAt
<1>2. Init => PoolInv
  BY <1>1, InitPools DEF PoolInv
<1>3. PoolInv /\ [Next]_vars => PoolInv'
  BY PoolPartKept, StagesKept, CleanerKept DEF PoolInv
<1> QED
  BY <1>2, <1>3, PTL DEF Spec
-----------------------------------------------------------------------------
(* The jobs that are queued *)

(* A hash job is only queued where there is a maximum for hash threads,    *)
(* and HashPoolStays keeps it.                                             *)
LEMMA HashMaximum ==
    ASSUME PoolTypes, PoolTypes', HashPoolStays
    PROVE  /\ m_max_threads["hash"] > 0 <=> m_max_threads'["hash"] > 0
           /\ m_max_threads["generic"] > 0
<1>1. PICK n \in AioThreads : m_max_threads["hash"] = MaxThreads(n).hash
  BY DEF PoolTypes, Pools
<1>2. PICK m \in AioThreads : m_max_threads'["hash"] = MaxThreads(m).hash
  BY DEF PoolTypes, Pools
<1>3. PICK k \in AioThreads : m_max_threads["generic"] = MaxThreads(k).generic
  BY DEF PoolTypes, Pools
<1>4. m_max_threads["generic"] > 0
  BY <1>3, Maxima
<1>5. n \in Nat /\ m \in Nat /\ Divisor \in Nat
  BY PoolAssumption DEF PoolAssumption
<1> QED
  BY <1>1, <1>2, <1>4, <1>5, Maxima DEF HashPoolStays

(* A job that is tried again stays in the pool of the thread that had it. *)
LEMMA RetryReturns ==
    ASSUME PoolTypes, HashPoolStays, NEW t \in Threads, Retry(t)
    PROVE  Goes(t, "lock") /\ queued' = [queued EXCEPT ![PoolOf(t)] = @ + 1]
<1>1. PICK n \in AioThreads : m_max_threads["hash"] = MaxThreads(n).hash
  BY DEF PoolTypes, Pools
<1>2. n \in Nat /\ Divisor \in Nat /\ AioThreads \subseteq Nat
  BY PoolAssumption DEF PoolAssumption
<1>3. PICK h \in BOOLEAN :
         /\ PoolOf(t) = "hash" => h
         /\ PoolOf(t) = "generic" /\ h => \E m \in AioThreads : MaxThreads(m).hash = 0
         /\ queued' = [queued EXCEPT ![QueueFor(h)] = @ + 1]
  BY DEF Retry
<1>4. Goes(t, "lock") /\ PoolOf(t) \in Pools
  BY ThreadsFinite DEF Retry
<1>5. CASE PoolOf(t) = "generic"
  <2>1. CASE h
    <3>1. PICK m \in AioThreads : MaxThreads(m).hash = 0
      BY <1>3, <1>5, <2>1
    <3>2. m < Divisor
      BY <1>2, <3>1, Maxima
    <3>3. MaxThreads(n).hash = 0
      BY <1>2, <3>2, Maxima DEF HashPoolStays
    <3> QED
      BY <1>1, <1>3, <1>4, <1>5, <3>3 DEF QueueFor
  <2> QED
    BY <1>3, <1>4, <1>5, <2>1 DEF QueueFor
<1>6. CASE PoolOf(t) = "hash"
  <2>1. PICK p \in Pools, m \in AioThreads : t \in {p} \X (1 .. MaxThreads(m)[p])
    BY DEF Threads
  <2>2. p = "hash" /\ t[2] \in 1 .. MaxThreads(m).hash
    BY <1>6, <2>1 DEF PoolOf
  <2>3. MaxThreads(m).hash \in Nat /\ MaxThreads(m).hash # 0
    BY <2>2, Maxima
  <2>4. ~ (m < Divisor)
    BY <2>3, Maxima
  <2>5. MaxThreads(n).hash > 0
    BY <1>2, <2>4, Maxima DEF HashPoolStays
  <2> QED
    BY <1>1, <1>3, <1>4, <1>6, <2>5 DEF QueueFor
<1> QED
  BY <1>4, <1>5, <1>6 DEF Pools

LEMMA HashJobsKept ==
    ASSUME PoolPart, PoolPart', HashPoolStays, HashJobsHaveThreads, [Next]_vars
    PROVE  HashJobsHaveThreads'
<1>1. m_max_threads["hash"] > 0 <=> m_max_threads'["hash"] > 0
  BY HashMaximum DEF PoolPart
<1>2. queued \in [Pools -> Nat] /\ queued' \in [Pools -> Nat] /\ "hash" \in Pools
  BY DEF PoolPart, PoolTypes, PoolTypeOK, Pools
<1>3. queued'["hash"] <= queued["hash"] \/ m_max_threads["hash"] > 0
  <2>1. CASE AddJob
    BY <1>2, <2>1 DEF AddJob, QueueFor
  <2>2. ASSUME NEW t \in Threads, Start(t) \/ Relock(t) \/ Wake(t)
        PROVE  queued'["hash"] <= queued["hash"]
    BY <1>2, <2>2 DEF Start, Relock, Wake, TakeOrIdle
  <2>3. ASSUME NEW t \in Threads, Work(t)
        PROVE  queued'["hash"] <= queued["hash"] \/ m_max_threads["hash"] > 0
    BY <1>2, <2>3 DEF Work, Retry, QueueFor
  <2>4. ASSUME UNCHANGED queued
        PROVE  queued'["hash"] <= queued["hash"]
    BY <1>2, <2>4
  <2> QED
    BY <2>1, <2>2, <2>3, <2>4 DEF Next, vars, ThreadStep, SubmitJobs, Abort, AbortPool,
          ReapIdleThreads, ReapStop, SettingsUpdated, Cleanup, Check, Sleep, Submit, Erase, Leave
<1> QED
  BY <1>1, <1>2, <1>3 DEF HashJobsHaveThreads

(* job_queued, with m_job_mutex free: a pool that is told of a job has a   *)
(* thread on the way, or gets one, unless its threads are gone.            *)
LEMMA AnnouncedComes ==
    ASSUME PoolPart, NEW announced \in SUBSET Pools, NEW caller \in SUBSET Threads,
           \A t \in caller : pc[t] = "submit",
           JobMutexFree, JobQueued(announced, caller),
           NEW p \in announced, queued[p] > 0, m_max_threads[p] > 0
    PROVE  (\E t \in Threads : Coming(t, p)') \/ Gone(p)'
<1> DEFINE new(q) == IF q \in announced THEN NewThreads(q) ELSE {}
<1>1. /\ \A u \in Threads :
            \/ pc'[u] = pc[u] /\ ~ Woken(u, announced) /\ u \notin caller
            \/ Woken(u, announced) /\ pc'[u] = "notified"
            \/ u \in caller /\ pc'[u] = "lock"
            \/ u \in new(PoolOf(u)) /\ pc[u] = "none" /\ pc'[u] = "start"
      /\ \A u \in Threads : u \in new(PoolOf(u)) => pc'[u] = "start"
  BY Announced DEF PoolPart
<1>2. pc \in [Threads -> Pcs]
  BY DEF PoolPart, PoolTypes
<1>3. p \in Pools /\ pool_abort' = pool_abort
  BY DEF JobQueued
<1>4. ASSUME NEW u \in Threads, PoolOf(u) = p, pc[u] \notin {"none", "leave"}
      PROVE  Coming(u, p)'
  <2>1. pc[u] \in {"start", "lock", "waiting", "notified", "work", "submit"}
    BY <1>2, <1>4 DEF JobMutexFree, HoldsJobMutex, Pcs
  <2> QED
    BY <1>1, <1>4, <2>1 DEF Coming, Woken
<1>5. CASE \E u \in Threads : PoolOf(u) = p /\ pc[u] \notin {"none", "leave"}
  BY <1>4, <1>5
<1>6. CASE pool_abort[p] /\ \A u \in Threads : PoolOf(u) = p => pc[u] \in {"none", "leave"}
  <2>1. new(p) = {}
    BY <1>3, <1>6, Started
  <2>2. ASSUME NEW u \in Threads, PoolOf(u) = p
        PROVE  pc'[u] \in {"none", "leave"}
    BY <1>1, <1>6, <2>1, <2>2 DEF Woken
  <2> QED
    BY <1>3, <1>6, <2>2 DEF Gone
<1>7. CASE ~ pool_abort[p] /\ \A u \in Threads : PoolOf(u) = p => pc[u] \in {"none", "leave"}
  <2>1. \A u \in Threads : PoolOf(u) = p => pc[u] = "none"
    BY <1>7 DEF JobMutexFree, HoldsJobMutex
  <2>2. m_num_idle_threads[p] = 0 /\ m_threads[p] = {}
    <3>1. Idle(p) = {} /\ Existing(p) = {}
      BY <2>1 DEF Idle, Existing, IdlePcs
    <3>2. m_num_idle_threads[p] = Cardinality(Idle(p)) /\ m_threads[p] = Existing(p)
      BY <1>3, <1>7, CountersSaid DEF PoolPart
    <3> QED
      BY <3>1, <3>2, FS_EmptySet
  <2>3. queued[p] \in Nat /\ m_max_threads[p] \in Nat /\ Cardinality(m_threads[p]) = 0
    BY <1>3, <2>2, FS_EmptySet DEF PoolPart, PoolTypes, PoolTypeOK
  <2> DEFINE one == <<p, 1>>
             free == {t \in Threads : PoolOf(t) = p /\ pc[t] = "none"}
  <2>4. one \in free
    <3>1. PICK n \in AioThreads : m_max_threads[p] = MaxThreads(n)[p]
      BY <1>3 DEF PoolPart, PoolTypes
    <3>2. {p} \X (1 .. m_max_threads[p]) \subseteq Threads
      BY <1>3, <3>1, Maxima
    <3>3. one \in Threads
      BY <2>3, <3>2
    <3> QED
      BY <2>1, <3>3 DEF PoolOf
  <2>5. {u \in free : u[2] <= one[2]} = {one}
    <3>1. \A u \in Threads : PoolOf(u) = p /\ u[2] <= 1 => u = one
      <4>1. ASSUME NEW u \in Threads
            PROVE  \E q \in Pools : \E n \in AioThreads : u \in {q} \X (1 .. MaxThreads(n)[q])
        BY DEF Threads
      <4>2. \A q \in Pools : \A n \in AioThreads : MaxThreads(n)[q] \in Nat
        BY Maxima
      <4> QED
        BY <4>1, <4>2 DEF PoolOf
    <3> QED
      BY <2>4, <3>1
  <2>6. Cardinality({u \in free : u[2] <= one[2]}) = 1
    BY <2>5, FS_Singleton
  <2>7. Short(p)
    BY <1>7, <2>2, <2>3 DEF Short
  <2>8. one \in NewThreads(p)
    <3> HIDE DEF one
    <3>1. 1 <= queued[p] - m_num_idle_threads[p]
      BY <2>2, <2>3
    <3>2. 1 <= m_max_threads[p] - Cardinality(m_threads[p])
      BY <2>3
    <3> QED
      BY <2>4, <2>6, <2>7, <3>1, <3>2 DEF NewThreads
  <2>9. one \in Threads /\ PoolOf(one) = p /\ pc'[one] = "start"
    <3>1. one \in Threads /\ PoolOf(one) = p
      BY <2>4
    <3> HIDE DEF one
    <3> QED
      BY <1>1, <2>8, <3>1
  <2> HIDE DEF one
  <2> QED
    BY <2>9 DEF Coming
<1> QED
  BY <1>5, <1>6, <1>7

(* Whoever is on the way stays there while a step only notifies threads. *)
LEMMA NotifiedComes ==
    ASSUME PoolPart, SomebodyComes, NEW pools, NotifyAll(pools) \/ UNCHANGED pc,
           UNCHANGED <<queued, m_deferred_submit_disk_jobs>>,
           \A p \in Pools : pool_abort[p] => pool_abort'[p]
    PROVE  SomebodyComes'
<1>1. \A u \in Threads : pc'[u] = pc[u] \/ (pc[u] = "waiting" /\ pc'[u] = "notified")
  BY Notified DEF PoolPart
<1>2. \A p \in Pools : \A u \in Threads : Coming(u, p) => Coming(u, p)'
  BY <1>1 DEF Coming
<1>3. \A u \in Threads : pc[u] = "submit" => pc'[u] = "submit"
  BY <1>1
<1>4. Gone("generic") => Gone("generic")'
  BY <1>1 DEF Gone, Pools
<1> QED
  BY <1>2, <1>3, <1>4 DEF SomebodyComes, Pools

(* So does everybody but the thread that takes a step; and a pool that is  *)
(* gone stays so.                                                          *)
LEMMA OthersCome ==
    ASSUME PoolPart, NEW t \in Threads, NEW w \in Pcs, Goes(t, w), UNCHANGED pool_abort
    PROVE  /\ \A p \in Pools : \A u \in Threads : Coming(u, p) /\ u # t => Coming(u, p)'
           /\ \A u \in Threads : pc[u] = "submit" /\ u # t => pc'[u] = "submit"
           /\ Gone("generic") /\ (pc[t] \in {"none", "leave"} => w \in {"none", "leave"}) =>
                 Gone("generic")'
<1>1. pc'[t] = w /\ \A u \in Threads : u # t => pc'[u] = pc[u]
  BY Moved DEF PoolPart
<1>2. Gone("generic") /\ (pc[t] \in {"none", "leave"} => w \in {"none", "leave"}) =>
          Gone("generic")'
  BY <1>1 DEF Gone
<1> QED
  BY <1>1, <1>2 DEF Coming

(* A thread that is on the way takes a job, or finds none. *)
LEMMA TakingComes ==
    ASSUME PoolPart, SomebodyComes, NEW t \in Threads, Start(t) \/ Relock(t) \/ Wake(t)
    PROVE  SomebodyComes'
<1> DEFINE p == PoolOf(t)
<1>1. p \in Pools /\ Pools = {"generic", "hash"} /\ queued \in [Pools -> Nat]
  BY ThreadsFinite DEF Pools, PoolPart, PoolTypes, PoolTypeOK
<1>2. PICK w \in {"work", "check"} :
         /\ Goes(t, w)
         /\ w = "work" => queued' = [queued EXCEPT ![p] = @ - 1]
         /\ w = "check" => UNCHANGED queued /\ ~ (queued[p] > 0)
  BY DEF Start, Relock, Wake, TakeOrIdle
<1>3. /\ pc[t] \in {"start", "lock", "notified"}
      /\ UNCHANGED <<m_deferred_submit_disk_jobs, pool_abort>>
  BY DEF Start, Relock, Wake
<1>4. w \in Pcs
  BY DEF Pcs
<1>5. pc'[t] = w
  BY <1>2, <1>4, Moved DEF PoolPart
<1>6. /\ \A q \in Pools : \A u \in Threads : Coming(u, q) /\ u # t => Coming(u, q)'
      /\ \A u \in Threads : pc[u] = "submit" /\ u # t => pc'[u] = "submit"
      /\ Gone("generic") => Gone("generic")'
  BY <1>2, <1>3, <1>4, OthersCome
<1>7. CASE w = "work"
  <2>1. Coming(t, p)'
    BY <1>5, <1>7 DEF Coming
  <2>2. \A q \in Pools : q # p => queued'[q] = queued[q]
    BY <1>1, <1>2, <1>7
  <2>3. \A q \in Pools : q # p => ~ Coming(t, q)
    BY DEF Coming
  <2> QED
    BY <1>1, <1>3, <1>6, <2>1, <2>2, <2>3 DEF SomebodyComes
<1>8. CASE w = "check"
  <2>1. ~ (queued'[p] > 0) /\ queued' = queued
    BY <1>2, <1>8
  <2>2. \A q \in Pools : q # p => ~ Coming(t, q)
    BY DEF Coming
  <2> QED
    BY <1>1, <1>3, <1>6, <2>1, <2>2 DEF SomebodyComes
<1> QED
  BY <1>7, <1>8

(* A thread that looks whether to exit, sleeps or leaves was not. *)
LEMMA LeavingComes ==
    ASSUME PoolPart, SomebodyComes, NEW t \in Threads,
           Check(t) \/ Sleep(t) \/ Erase(t) \/ Leave(t)
    PROVE  SomebodyComes'
<1>1. PICK w \in {"exit", "sleep", "waiting", "leave", "none"} : Goes(t, w)
  BY DEF Check, Sleep, Erase, Leave
<1>2. /\ pc[t] \in {"check", "sleep", "exit", "leave"}
      /\ pc[t] = "leave" => Goes(t, "none")
      /\ UNCHANGED <<queued, m_deferred_submit_disk_jobs, pool_abort>>
  BY DEF Check, Sleep, Erase, Leave, poolVars
<1>3. PICK x \in Pcs : Goes(t, x) /\ (pc[t] = "leave" => x = "none")
  BY <1>1, <1>2 DEF Pcs
<1>4. /\ \A q \in Pools : \A u \in Threads : Coming(u, q) /\ u # t => Coming(u, q)'
      /\ \A u \in Threads : pc[u] = "submit" /\ u # t => pc'[u] = "submit"
      /\ Gone("generic") => Gone("generic")'
  BY <1>2, <1>3, OthersCome
<1>5. \A q \in Pools : ~ Coming(t, q) /\ pc[t] # "submit"
  BY <1>2 DEF Coming
<1> QED
  BY <1>2, <1>4, <1>5 DEF SomebodyComes, Pools

(* A thread that has done a job, or put it back, looks at its queue again, *)
(* or announces what the job released.                                     *)
LEMMA WorkComes ==
    ASSUME PoolPart, HashPoolStays, SomebodyComes, NEW t \in Threads, Work(t)
    PROVE  SomebodyComes'
<1>1. PICK w \in {"lock", "submit"} :
         /\ Goes(t, w)
         /\ w = "lock" => UNCHANGED queued \/ queued' = [queued EXCEPT ![PoolOf(t)] = @ + 1]
         /\ w = "submit" => queued' = [queued EXCEPT !["generic"] = @ + 1]
  BY RetryReturns DEF Work, PoolPart
<1>2. /\ pc[t] = "work" /\ w \in Pcs /\ PoolOf(t) \in Pools
      /\ UNCHANGED <<m_deferred_submit_disk_jobs, pool_abort>>
  BY ThreadsFinite DEF Work, poolVars, Pcs
<1>3. pc'[t] = w
  BY <1>1, <1>2, Moved DEF PoolPart
<1>4. /\ \A q \in Pools : \A u \in Threads : Coming(u, q) /\ u # t => Coming(u, q)'
      /\ \A u \in Threads : pc[u] = "submit" /\ u # t => pc'[u] = "submit"
      /\ Gone("generic") => Gone("generic")'
  BY <1>1, <1>2, OthersCome
<1>5. Coming(t, PoolOf(t)) /\ Coming(t, PoolOf(t))' /\ \A q \in Pools : Coming(t, q) => q = PoolOf(t)
  BY <1>2, <1>3 DEF Coming
<1>6. queued \in [Pools -> Nat] /\ "hash" \in Pools /\ "generic" \in Pools
  BY DEF PoolPart, PoolTypes, PoolTypeOK, Pools
<1>7. queued'["hash"] = queued["hash"] \/ PoolOf(t) = "hash"
  BY <1>1, <1>6
<1>8. queued'["hash"] > 0 => m_deferred_submit_disk_jobs' \/ \E u \in Threads : Coming(u, "hash")'
  BY <1>2, <1>4, <1>5, <1>7 DEF SomebodyComes, Pools
<1>9. CASE w = "lock"
  <2>1. queued'["generic"] = queued["generic"] \/ PoolOf(t) = "generic"
    BY <1>1, <1>6, <1>9
  <2> QED
    BY <1>2, <1>4, <1>5, <1>8, <2>1 DEF SomebodyComes, Pools
<1>10. CASE w = "submit"
  BY <1>3, <1>8, <1>10 DEF SomebodyComes
<1> QED
  BY <1>9, <1>10

(* Announcements *)
LEMMA SubmitComes ==
    ASSUME PoolPart, SomebodyComes, m_max_threads["generic"] > 0, NEW t \in Threads, Submit(t)
    PROVE  SomebodyComes'
<1>1. /\ JobMutexFree /\ JobQueued({"generic"}, {t}) /\ pc[t] = "submit"
      /\ UNCHANGED <<queued, m_deferred_submit_disk_jobs>>
      /\ {"generic"} \in SUBSET Pools /\ {t} \in SUBSET Threads
  BY DEF Submit, Pools
<1>2. queued["generic"] > 0 => (\E u \in Threads : Coming(u, "generic")') \/ Gone("generic")'
  BY <1>1, AnnouncedComes
<1>3. \A u \in Threads :
         \/ pc'[u] = pc[u] /\ u # t
         \/ pc[u] = "waiting" /\ pc'[u] = "notified"
         \/ u = t /\ pc'[u] = "lock"
         \/ pc[u] = "none" /\ pc'[u] = "start"
  <2>1. \A u \in {t} : pc[u] = "submit"
    BY <1>1
  <2>2. \A u \in Threads :
           \/ pc'[u] = pc[u] /\ u \notin {t}
           \/ Woken(u, {"generic"}) /\ pc'[u] = "notified"
           \/ u \in {t} /\ pc'[u] = "lock"
           \/ pc[u] = "none" /\ pc'[u] = "start"
    BY <1>1, <2>1, Announced DEF PoolPart
  <2> QED
    BY <2>2 DEF Woken
<1>4. \A u \in Threads : Coming(u, "hash") => Coming(u, "hash")'
  BY <1>1, <1>3 DEF Coming
<1> QED
  BY <1>1, <1>2, <1>4 DEF SomebodyComes

LEMMA SubmitJobsComes ==
    ASSUME PoolPart, AbortStages, SomebodyComes, HashJobsHaveThreads,
           m_max_threads["generic"] > 0, SubmitJobs
    PROVE  SomebodyComes'
<1> DEFINE S == {p \in Pools : queued[p] > 0}
<1>1. /\ JobMutexFree /\ JobQueued(S, {}) /\ UNCHANGED queued
      /\ S \in SUBSET Pools /\ {} \in SUBSET Threads
      /\ net.at = "idle"
  BY DEF SubmitJobs, NetIdle, NetAt
<1>2. ASSUME NEW p \in S, m_max_threads[p] > 0
      PROVE  (\E u \in Threads : Coming(u, p)') \/ Gone(p)'
  <2> HIDE DEF S
  <2>1. queued[p] > 0
    BY DEF S
  <2> QED
    BY <1>1, <1>2, <2>1, AnnouncedComes
<1>3. \A p \in Pools : ~ Gone(p)'
  BY <1>1 DEF AbortStages, Gone, JobQueued
<1>4. queued'["hash"] > 0 => \E u \in Threads : Coming(u, "hash")'
  BY <1>1, <1>2, <1>3 DEF HashJobsHaveThreads, Pools
<1>5. queued'["generic"] > 0 => \E u \in Threads : Coming(u, "generic")'
  BY <1>1, <1>2, <1>3 DEF Pools
<1> QED
  BY <1>4, <1>5 DEF SomebodyComes

(* No step leaves a job without a thread that will look for it. *)
LEMMA SomebodyComesKept ==
    ASSUME PoolInv, PoolInv', HashPoolStays, SomebodyComes, HashJobsHaveThreads, [Next]_vars
    PROVE  SomebodyComes'
<1>0. PoolPart /\ AbortStages /\ m_max_threads["generic"] > 0
  BY HashMaximum DEF PoolInv, PoolPart
<1>1. CASE AddJob
  BY <1>1 DEF AddJob, SomebodyComes
<1>2. CASE SubmitJobs
  BY <1>0, <1>2, SubmitJobsComes
<1>3. CASE Abort \/ Cleanup \/ UNCHANGED vars \/ \E p \in Pools : ReapIdleThreads(p)
  <2>1. UNCHANGED <<pc, queued, m_deferred_submit_disk_jobs, pool_abort>>
    BY <1>3 DEF Abort, Cleanup, ReapIdleThreads, vars, poolVars
  <2> QED
    BY <1>0, <2>1, NotifiedComes
<1>4. ASSUME NEW p \in Pools, AbortPool(p) \/ ReapStop(p)
      PROVE  SomebodyComes'
  <2>1. /\ NotifyAll({p}) \/ UNCHANGED pc
        /\ UNCHANGED <<queued, m_deferred_submit_disk_jobs>>
    BY <1>4 DEF AbortPool, ReapStop, StopThreads
  <2>2. \A q \in Pools : pool_abort[q] => pool_abort'[q]
    BY <1>0, <1>4 DEF AbortPool, ReapStop, PoolPart, PoolTypes
  <2> QED
    BY <1>0, <2>1, <2>2, NotifiedComes
<1>5. ASSUME NEW n \in AioThreads, SettingsUpdated(n)
      PROVE  SomebodyComes'
  <2>1. /\ (\E p \in Pools : NotifyAll({p})) \/ UNCHANGED pc
        /\ UNCHANGED <<queued, m_deferred_submit_disk_jobs, pool_abort>>
    BY <1>5 DEF SettingsUpdated, SetMaxThreads, StopThreads, Pools
  <2> QED
    BY <1>0, <2>1, NotifiedComes
<1>6. ASSUME NEW t \in Threads, ThreadStep(t)
      PROVE  SomebodyComes'
  <2>1. CASE Start(t) \/ Relock(t) \/ Wake(t)
    BY <1>0, <2>1, TakingComes
  <2>2. CASE Check(t) \/ Sleep(t) \/ Erase(t) \/ Leave(t)
    BY <1>0, <2>2, LeavingComes
  <2>3. CASE Work(t)
    BY <1>0, <2>3, WorkComes
  <2>4. CASE Submit(t)
    BY <1>0, <2>4, SubmitComes
  <2> QED
    BY <1>6, <2>1, <2>2, <2>3, <2>4 DEF ThreadStep
<1> QED
  BY <1>1, <1>2, <1>3, <1>4, <1>5, <1>6 DEF Next
-----------------------------------------------------------------------------
(* PoolTypeOK, for any settings: the counters of disk_io_thread_pool never *)
(* go below zero, although threads, timers and changes of the settings     *)
(* write them in any order.                                                *)
THEOREM PoolTypeTheorem == Spec => []PoolTypeOK
<1>1. PoolInv => PoolTypeOK
  BY DEF PoolInv, PoolPart, PoolTypes
<1> QED
  BY <1>1, PoolInvTheorem, PTL

(* PoolCountersAgree, for any settings: m_num_idle_threads, m_threads and  *)
(* m_num_running_threads count the threads that thread_fun runs.           *)
THEOREM PoolCountersTheorem == Spec => []PoolCountersAgree
<1>1. PoolInv => PoolCountersAgree
  BY DEF PoolInv, PoolPart
<1> QED
  BY <1>1, PoolInvTheorem, PTL

(* ReaperArmed, for any settings: job_queued arms the idle timer, and      *)
(* try_thread_exit cancels it, exactly when the pool gets its first thread *)
(* or loses its last one.                                                  *)
THEOREM ReaperTheorem == Spec => []ReaperArmed
<1>1. PoolInv => ReaperArmed
  BY DEF PoolInv, PoolPart
<1> QED
  BY <1>1, PoolInvTheorem, PTL

(* The invariant of the queues, for settings under which the hash pool     *)
(* keeps its threads or never has any.                                     *)
THEOREM StrandInvTheorem ==
    ASSUME HashPoolStays
    PROVE  Spec => [](PoolInv /\ SomebodyComes /\ HashJobsHaveThreads)
<1> DEFINE Inv == SomebodyComes /\ HashJobsHaveThreads
<1>1. Init => Inv
  BY DEF Init, SomebodyComes, HashJobsHaveThreads, Pools
<1>2. PoolInv /\ PoolInv' /\ Inv /\ [Next]_vars => Inv'
  BY SomebodyComesKept, HashJobsKept DEF PoolInv
<1> QED
  BY <1>1, <1>2, PoolInvTheorem, PTL DEF Spec

(* JobsNotStranded, for settings under which the hash pool keeps its       *)
(* threads or never has any: no order of announcements, exits, timers and  *)
(* changes of the settings leaves a queued job without a thread that is    *)
(* on its way to the queue.  (A maximum of hash threads that drops to zero *)
(* between add_job and submit_jobs would.)                                 *)
THEOREM StrandedTheorem ==
    ASSUME HashPoolStays
    PROVE  Spec => []JobsNotStranded
<1>1. SomebodyComes => JobsNotStranded
  <2> SUFFICES ASSUME SomebodyComes, NEW p \in Pools, queued[p] > 0
               PROVE  \/ m_deferred_submit_disk_jobs
                      \/ \E t \in Threads : pc[t] \in {"submit"} \cup
                            IF PoolOf(t) = p THEN {"start", "lock", "notified", "work"} ELSE {}
                      \/ Gone(p)
    BY DEF JobsNotStranded
  <2>1. \A t \in Threads : Coming(t, p) \/ pc[t] = "submit" =>
            pc[t] \in {"submit"} \cup
                IF PoolOf(t) = p THEN {"start", "lock", "notified", "work"} ELSE {}
    BY DEF Coming
  <2> QED
    BY <2>1 DEF SomebodyComes, Pools
<1> QED
  BY <1>1, StrandInvTheorem, PTL

(* AbortCleansUp, under the same settings: whatever the order in which the *)
(* last threads exit and abort() runs, the cleanup is done and no hash job *)
(* is left.                                                                *)
THEOREM AbortTheorem ==
    ASSUME HashPoolStays
    PROVE  Spec => []AbortCleansUp
<1>1. PoolInv /\ SomebodyComes => AbortCleansUp
  <2> SUFFICES ASSUME PoolInv, SomebodyComes, net.at = "done", cleaning = 0,
                      \A t \in Threads : pc[t] = "none"
               PROVE  m_jobs_aborted /\ queued["hash"] = 0
    BY DEF AbortCleansUp
  <2>1. m_abort /\ ~ m_deferred_submit_disk_jobs
    BY DEF PoolInv, AbortStages
  <2>2. m_jobs_aborted
    BY <2>1 DEF PoolInv, Cleaner
  <2>3. ~ \E t \in Threads : Coming(t, "hash")
    BY DEF Coming
  <2>4. ~ (queued["hash"] > 0) /\ queued["hash"] \in Nat
    BY <2>1, <2>3 DEF SomebodyComes, PoolInv, PoolPart, PoolTypes, PoolTypeOK, Pools
  <2> QED
    BY <2>2, <2>4
<1> QED
  BY <1>1, StrandInvTheorem, PTL
=============================================================================

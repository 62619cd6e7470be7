------------------------ MODULE DiskIoThreadProofs ------------------------
(***************************************************************************)
(* disk_io_thread, with any number of threads and jobs, uses the fence of  *)
(* a storage only as DiskJobFence describes.  What DiskJobFenceProofs      *)
(* shows of the fence therefore holds of the storage.                      *)
(***************************************************************************)
EXTENDS DiskIoThread, DiskJobFenceProofs

(* Whoever is about to ask the fence for a flush job has one in hand. *)
HandsOK ==
    /\ net.pc = "cache" => net.job \in Writes
    /\ net.pc = "flush" => net.job \in Jobs
    /\ DOMAIN thread = Threads
    /\ \A t \in Threads :
          /\ {"pc", "flush"} \subseteq DOMAIN thread[t]
          /\ thread[t].flush \in Jobs \cup {None}
          /\ thread[t].pc = "fence" => thread[t].flush \in Jobs

(* What the network thread issues, and the flush jobs, are jobs. *)
LEMMA KnownJobs ==
    /\ Reads \subseteq Jobs /\ Writes \subseteq Jobs
    /\ Hashes \subseteq Jobs /\ Fences \subseteq Jobs
    /\ \A w \in Writes : FlushHashed(w) \in Jobs
    /\ \A f \in Fences : FlushStorage(f) \in Jobs
    /\ None \notin Jobs
BY DiskAssumption DEF DiskAssumption, Issued

(* Steps of the network thread: what they do to the fence ... *)
LEMMA NetUsesFence ==
    ASSUME HandsOK, Issue \/ NetStep
    PROVE  [FenceNext]_fenceVars
<1>1. CASE Issue
  <2>1. PICK j \in Issued : AsyncHash(j) \/ AsyncRead(j) \/ AsyncWrite(j) \/ AddFenceJob(j)
    BY <1>1 DEF Issue
  <2>2. CASE AsyncHash(j)
    BY <2>2, KnownJobs DEF AsyncHash, FenceNext
  <2>3. CASE AsyncRead(j)
    <3>1. j \in Jobs
      BY <2>3, KnownJobs DEF AsyncRead
    <3>2. IsBlocked(j) \/ UNCHANGED fenceVars
      BY <2>3 DEF AsyncRead
    <3> QED
      BY <3>1, <3>2 DEF FenceNext
  <2>4. CASE AsyncWrite(j)
    BY <2>4, KnownJobs DEF AsyncWrite, FenceNext
  <2>5. CASE AddFenceJob(j)
    BY <2>5, KnownJobs DEF AddFenceJob, FenceNext
  <2> QED
    BY <2>1, <2>2, <2>3, <2>4, <2>5
<1>2. CASE NetCacheWrite \/ NetPush \/ CallJobHandlers
  BY <1>2 DEF NetCacheWrite, NetPush, CallJobHandlers
<1>3. CASE NetFlush
  BY <1>3 DEF NetFlush, HandsOK, FenceNext
<1> QED
  BY <1>1, <1>2, <1>3 DEF NetStep

(* ... and to what it has in hand. *)
LEMMA NetKeepsHands ==
    ASSUME HandsOK, Issue \/ NetStep
    PROVE  HandsOK'
<1> USE DEF HandsOK, NetDoes, NetDone, NetIdle
<1>1. CASE Issue
  <2>1. PICK j \in Issued : AsyncHash(j) \/ AsyncRead(j) \/ AsyncWrite(j) \/ AddFenceJob(j)
    BY <1>1 DEF Issue
  <2>2. CASE AsyncHash(j)
    BY <2>2 DEF AsyncHash
  <2>3. CASE AsyncRead(j)
    <3>1. thread' = thread
      BY <2>3 DEF AsyncRead
    <3>2. net'.pc \in {"idle", "push"}
      BY <2>3 DEF AsyncRead
    <3> QED
      BY <3>1, <3>2
  <2>4. CASE AsyncWrite(j)
    BY <2>4 DEF AsyncWrite
  <2>5. CASE AddFenceJob(j)
    BY <2>5 DEF AddFenceJob
  <2> QED
    BY <2>1, <2>2, <2>3, <2>4, <2>5
<1>2. CASE NetCacheWrite
  <2>1. thread' = thread
    BY <1>2 DEF NetCacheWrite
  <2>2. net'.pc \in {"idle", "push"} \/ (net'.pc = "flush" /\ net'.job = FlushHashed(net.job))
    BY <1>2 DEF NetCacheWrite
  <2>3. net.job \in Writes
    BY <1>2 DEF NetCacheWrite
  <2> QED
    BY <2>1, <2>2, <2>3, KnownJobs
<1>3. CASE NetFlush
  BY <1>3 DEF NetFlush
<1>4. CASE NetPush
  BY <1>4 DEF NetPush
<1>5. CASE CallJobHandlers
  BY <1>5 DEF CallJobHandlers
<1> QED
  BY <1>1, <1>2, <1>3, <1>4, <1>5 DEF NetStep

(* Steps of a disk thread: only two ask the fence, one for a job that      *)
(* completes and one for the flush job.                                    *)
LEMMA ThreadUsesFence ==
    ASSUME HandsOK, FenceInv, NEW t \in Threads, ThreadStep(t)
    PROVE  [FenceNext]_fenceVars
<1>1. CASE PopJob(t) \/ PerformJob(t) \/ Flushed(t) \/ Redistribute(t) \/ AppendJobs(t) \/ PostCompleted(t)
  BY <1>1 DEF PopJob, PerformJob, Flushed, Redistribute, AppendJobs, PostCompleted
<1>2. CASE Complete(t)
  <2>1. PICK j \in thread[t].done, n \in 0 .. Len(m_blocked_jobs), empty \in BOOLEAN :
           JobComplete(j, empty, n)
    BY <1>2 DEF Complete
  <2>2. j \in Jobs
    BY <2>1 DEF JobComplete, FenceInv, FenceTypeOK
  <2> QED
    BY <2>1, <2>2 DEF FenceNext
<1>3. CASE FenceFlush(t)
  BY <1>3 DEF FenceFlush, At, HandsOK, FenceNext
<1> QED
  BY <1>1, <1>2, <1>3 DEF ThreadStep

(* A thread that changes its own record, and keeps it as it should be. *)
LEMMA HandsKept ==
    ASSUME HandsOK, NEW t \in Threads, NEW rec, Goes(t, rec), net' = net,
           {"pc", "flush"} \subseteq DOMAIN rec, rec.flush \in Jobs \cup {None},
           rec.pc = "fence" => rec.flush \in Jobs
    PROVE  HandsOK'
BY DEF HandsOK, Goes

(* A disk thread between two jobs holds no flush job. *)
LEMMA IdleHand ==
    /\ {"pc", "flush"} \subseteq DOMAIN ThreadIdle
    /\ ThreadIdle.pc = "idle" /\ ThreadIdle.flush = None
BY DEF ThreadIdle

(* No step of a thread leaves it without the flush job it needs. *)
LEMMA ThreadKeepsHands ==
    ASSUME HandsOK, NEW t \in Threads, ThreadStep(t)
    PROVE  HandsOK'
<1> DEFINE r == thread[t]
<1>0. {"pc", "flush"} \subseteq DOMAIN r /\ r.flush \in Jobs \cup {None}
  BY DEF HandsOK
<1>1. CASE PopJob(t)
  <2>1. PICK expired \in BOOLEAN :
          Goes(t, [ThreadIdle EXCEPT
                     !.pc = IF expired THEN "flush" ELSE "perform",
                     !.job = Head(m_queued_jobs),
                     !.took = IF expired THEN Dirty ELSE {}])
    BY <1>1 DEF PopJob
  <2>2. net' = net
    BY <1>1 DEF PopJob
  <2> QED
    BY <2>1, <2>2, HandsKept, IdleHand, KnownJobs
<1>2. CASE PerformJob(t)
  <2>1. net' = net
    BY <1>2 DEF PerformJob
  <2> DEFINE j == r.job
  <2>2. ASSUME NEW flush, NEW done, NEW end, BeginFlush(t, flush, done, end)
        PROVE  HandsOK'
    <3>1. PICK took : Goes(t, [r EXCEPT !.pc = "flush", !.job = None, !.done = done, !.end = end,
                                        !.took = took])
      BY <2>2 DEF BeginFlush
    <3> QED
      BY <1>0, <2>1, <3>1, HandsKept
  <2>3. CASE DoRead(t, j)
    <3>1. PICK hits \in SUBSET ToSet(read_jobs), flush \in BOOLEAN : BeginFlush(t, flush, hits, {j})
      BY <2>3 DEF DoRead
    <3> QED
      BY <2>2, <3>1
  <2>4. CASE DoWrite(t, j)
    <3>1. PICK end, took : Goes(t, [r EXCEPT !.pc = "flush", !.job = None, !.end = end, !.took = took])
      BY <2>4 DEF DoWrite
    <3> QED
      BY <1>0, <2>1, <3>1, HandsKept
  <2>5. CASE DoFlushHashed(t, j)
    BY <2>2, <2>5 DEF DoFlushHashed
  <2>6. CASE DoFlushStorage(t, j)
    BY <2>2, <2>6 DEF DoFlushStorage
  <2>7. CASE DoOther(t, j)
    <3>1. CASE \E flush \in BOOLEAN : BeginFlush(t, flush, {}, {j})
      BY <2>2, <3>1
    <3>2. CASE \E flush \in BOOLEAN :
                 Goes(t, [r EXCEPT !.pc = "flush", !.job = None, !.other = <<j>>,
                                   !.took = IF flush THEN Dirty ELSE {}])
      <4>1. PICK took : Goes(t, [r EXCEPT !.pc = "flush", !.job = None, !.other = <<j>>, !.took = took])
        BY <3>2
      <4> QED
        BY <1>0, <2>1, <4>1, HandsKept
    <3> QED
      BY <2>7, <3>1, <3>2 DEF DoOther
  <2> QED
    BY <1>2, <2>3, <2>4, <2>5, <2>6, <2>7 DEF PerformJob
<1>3. CASE Flushed(t)
  <2>1. net' = net
    BY <1>3 DEF Flushed
  <2>2. PICK jobs : Goes(t, Completing([thread[t] EXCEPT !.took = {}, !.end = {}, !.other = <<>>],
                                     jobs))
    BY <1>3 DEF Flushed
  <2> QED
    BY <1>0, <2>1, <2>2, HandsKept DEF Completing
<1>4. CASE Complete(t)
  <2>1. net' = net
    BY <1>4 DEF Complete
  <2>2. PICK done, acked, list :
          Goes(t, [thread[t] EXCEPT !.done = done, !.acked = acked, !.list = list])
    BY <1>4 DEF Complete
  <2>3. r.pc # "fence"
    BY <1>4 DEF Complete, At
  <2> QED
    BY <1>0, <2>1, <2>2, <2>3, HandsKept
<1>5. CASE Redistribute(t)
  <2>1. net' = net
    BY <1>5 DEF Redistribute
  <2> DEFINE list   == r.list
             reads  == {j \in ToSet(list) : j \in Reads}
             writes == {j \in ToSet(list) : j \in Writes}
             flush(cached) == IF outstanding_flush \/ cached = {} THEN {None}
                              ELSE {FlushHashed(w) : w \in cached}
  <2>2. PICK hits \in Some(reads, "hit" \in ReadOutcomes, "miss" \in ReadOutcomes),
             cached \in Some(writes, TRUE \in CacheOutcomes, FALSE \in CacheOutcomes) :
          \E before \in Unknown(list, hits \cup cached), j \in flush(cached) :
             LET direct == reads \cap before
                 missed == Only(list, reads \ (hits \cup direct))
             IN  Goes(t, [thread[t] EXCEPT !.pc = "append", !.list = <<>>, !.next = hits,
                            !.other = Only(list, (ToSet(list) \ (reads \cup cached)) \cup direct
                                                   \cup StartedReads(missed)),
                            !.flush = j])
    BY <1>5 DEF Redistribute
  <2>3. cached \subseteq Writes
    BY DEF Some
  <2>4. \A j \in flush(cached) : j \in Jobs \cup {None}
    BY <2>3, KnownJobs
  <2>5. PICK j, next, other :
          /\ j \in Jobs \cup {None}
          /\ Goes(t, [thread[t] EXCEPT !.pc = "append", !.list = <<>>, !.next = next,
                                       !.other = other, !.flush = j])
    BY <2>2, <2>4
  <2> QED
    BY <1>0, <2>1, <2>5, HandsKept
<1>6. CASE AppendJobs(t)
  <2>1. net' = net
    BY <1>6 DEF AppendJobs
  <2>2. Goes(t, [thread[t] EXCEPT !.other = <<>>,
                                  !.pc = IF thread[t].flush = None THEN "post" ELSE "fence"])
    BY <1>6 DEF AppendJobs
  <2> QED
    BY <1>0, <2>1, <2>2, HandsKept
<1>7. CASE FenceFlush(t)
  <2>1. net' = net
    BY <1>7 DEF FenceFlush
  <2>2. PICK other : Goes(t, [thread[t] EXCEPT !.other = other, !.flush = None, !.pc = "append"])
    BY <1>7 DEF FenceFlush
  <2> QED
    BY <1>0, <2>1, <2>2, HandsKept
<1>8. CASE PostCompleted(t)
  <2>1. net' = net
    BY <1>8 DEF PostCompleted
  <2>2. Goes(t, Completing([thread[t] EXCEPT !.acked = {}, !.next = {}], thread[t].next))
    BY <1>8 DEF PostCompleted
  <2> QED
    BY <1>0, <2>1, <2>2, HandsKept DEF Completing
<1> QED
  BY <1>1, <1>2, <1>3, <1>4, <1>5, <1>6, <1>7, <1>8 DEF ThreadStep

(* The invariant of the fence and that of the hands are kept together: the *)
(* one needs that only jobs are given to the fence, the other nothing.     *)
LEMMA DiskInvariant == Spec => [](FenceInv /\ HandsOK)
<1>1. Init => FenceInv /\ HandsOK
  <2>1. Init => FenceInv
    BY FenceInvInit DEF Init
  <2>2. Init => HandsOK
    BY IdleHand DEF Init, HandsOK, NetIdle
  <2> QED
    BY <2>1, <2>2
<1>2. FenceInv /\ HandsOK /\ [Next]_vars => FenceInv' /\ HandsOK'
  <2> SUFFICES ASSUME FenceInv, HandsOK, [Next]_vars PROVE FenceInv' /\ HandsOK'
    OBVIOUS
  <2>1. [FenceNext]_fenceVars /\ HandsOK'
    <3>1. CASE UNCHANGED vars
      BY <3>1 DEF vars, HandsOK
    <3>2. CASE Issue \/ NetStep
      BY <3>2, NetUsesFence, NetKeepsHands
    <3>3. CASE \E t \in Threads : ThreadStep(t)
      BY <3>3, ThreadUsesFence, ThreadKeepsHands
    <3> QED
      BY <3>1, <3>2, <3>3 DEF Next
  <2> QED
    BY <2>1, FenceInvNext
<1> QED
  BY <1>1, <1>2, PTL DEF Spec

(* The link to the theorems about the fence: every step of the storage is  *)
(* a step of the fence, or leaves it alone.                                *)
LEMMA DiskUsesFence == Spec => FenceSpec
<1>1. Init => FenceInit
  BY DEF Init
<1>2. FenceInv /\ HandsOK /\ [Next]_vars => [FenceNext]_fenceVars
  <2> SUFFICES ASSUME FenceInv, HandsOK, [Next]_vars PROVE [FenceNext]_fenceVars
    OBVIOUS
  <2>1. CASE UNCHANGED vars
    BY <2>1 DEF vars
  <2>2. CASE Issue \/ NetStep
    BY <2>2, NetUsesFence
  <2>3. CASE \E t \in Threads : ThreadStep(t)
    BY <2>3, ThreadUsesFence
  <2> QED
    BY <2>1, <2>2, <2>3 DEF Next
<1> QED
  BY <1>1, <1>2, DiskInvariant, PTL DEF Spec, FenceSpec

(* While a disk thread performs a fence job no other job of the storage is *)
(* queued, in the cache or in the hands of a thread: nothing is read or    *)
(* written while files are moved, renamed or deleted.                      *)
THEOREM StorageIsExclusive == Spec => []FenceIsExclusive
BY DiskUsesFence, ExclusiveTheorem, PTL

(* The jobs of the storage are started in the order of StorageBarrier. *)
THEOREM StorageIsBarrier == Spec => ImplementsBarrier
BY DiskUsesFence, BarrierTheorem, PTL
=============================================================================

--------------------------- MODULE DiskIoThread ---------------------------
(***************************************************************************)
(* The jobs of one storage in disk_io_thread: the network thread issues    *)
(* them, the disk threads take them from the queue and perform them, write *)
(* jobs wait in the block cache until some job flushes them, and what a    *)
(* completed job releases goes through the cache and the queue again.      *)
(* Every job passes the fence of the storage (DiskJobFence).               *)
(*                                                                         *)
(* An action is one section under one mutex: m_job_mutex (the queue),      *)
(* m_cache_mutex (the cache), the mutex of the fence.  What a thread has   *)
(* in hand between two sections is part of its state.  The cache is        *)
(* reduced to one piece: the write jobs and the reads that hang on it.     *)
(* Waking and counting the threads is DiskIoThreadPool.                    *)
(***************************************************************************)
EXTENDS DiskJobFence, SequencesExt

CONSTANTS
    Reads, Writes, Hashes, Fences,  \* what the network thread issues
    Threads,                        \* disk threads
    None,
    CacheOutcomes,                  \* can the cache take a block: subset of BOOLEAN
    ReadOutcomes,                   \* of looking a block up: "hit", "miss", "direct", "nomem"
    MaxIssued,                      \* bound: jobs that the network thread issues
    MaxRetries                      \* bound: jobs put back to be tried again

(* The flush jobs that disk_io_thread makes itself. *)
FlushHashed(w) == <<"flush_hashed", w>>
FlushStorage(f) == <<"flush_storage", f>>
Issued == Reads \cup Writes \cup Hashes \cup Fences
IsFlushStorage(j) == \E f \in Fences : j = FlushStorage(f)
IsFlushHashed(j) == \E w \in Writes : j = FlushHashed(w)

ASSUME DiskAssumption ==
    /\ Jobs = Issued \cup {FlushHashed(w) : w \in Writes} \cup {FlushStorage(f) : f \in Fences}
    /\ Issued \cap ({FlushHashed(w) : w \in Writes} \cup {FlushStorage(f) : f \in Fences}) = {}
    /\ Reads \cap Writes = {} /\ (Reads \cup Writes) \cap (Hashes \cup Fences) = {}
    /\ None \notin Jobs
    /\ CacheOutcomes \subseteq BOOLEAN
    /\ ReadOutcomes \subseteq {"hit", "miss", "direct", "nomem"}
    /\ MaxIssued \in Nat /\ MaxRetries \in Nat

VARIABLES
    m_queued_jobs,       \* m_generic_io_jobs
    hung,                \* pe->jobs: write jobs in the cache
    read_jobs,           \* pe->read_jobs: reads that wait for the one going on
    outstanding_read,    \* pe->outstanding_read
    outstanding_flush,   \* pe->outstanding_flush
    net,                 \* what the network thread has in hand
    thread,              \* what each disk thread has in hand
    m_completed_jobs,    \* done, to be handed to the network thread
    m_job_completions_in_flight,
    called,              \* jobs whose handler was called
    retries

cacheVars == <<hung, read_jobs, outstanding_read, outstanding_flush>>
completionVars == <<m_completed_jobs, m_job_completions_in_flight, called>>
vars == <<fenceVars, m_queued_jobs, cacheVars, net, thread, completionVars, retries>>

NetIdle == [pc |-> "idle", job |-> None]

(* job: taken from the queue and not performed; took: write jobs whose     *)
(* blocks it is writing; end: the job that ends with this flush; done:     *)
(* completed, before job_complete; acked: after it; list: new_jobs; next:  *)
(* new_completed_jobs; other, flush: other_jobs and flush_jobs (a job that *)
(* is to be tried again is in other, too).                                 *)
ThreadIdle == [pc |-> "idle", job |-> None, took |-> {}, end |-> {}, done |-> {},
               acked |-> {}, list |-> <<>>, next |-> {}, other |-> <<>>, flush |-> None]

Init ==
    /\ FenceInit
    /\ m_queued_jobs = <<>>
    /\ hung = {} /\ read_jobs = <<>>
    /\ outstanding_read = FALSE /\ outstanding_flush = FALSE
    /\ net = NetIdle
    /\ thread = [t \in Threads |-> ThreadIdle]
    /\ m_completed_jobs = {} /\ m_job_completions_in_flight = FALSE
    /\ called = {}
    /\ retries = 0
-----------------------------------------------------------------------------
(* The jobs of a list that are in a set, in their order (SelectSeq, as a   *)
(* recursive function that proofs can take apart).                         *)
Only(list, jobs) ==
    LET chosen[i \in 0 .. Len(list)] ==
            IF i = 0 THEN <<>>
            ELSE IF list[i] \in jobs THEN Append(chosen[i - 1], list[i]) ELSE chosen[i - 1]
    IN  chosen[Len(list)]

(* The network thread *)

NetDoes(pc, j) == net' = [pc |-> pc, job |-> j]
NetDone == net' = NetIdle

(* Has j, which is given to is_blocked, passed the fence? *)
Passed(j) == j \in in_progress'

(* async_hash: the hash of the piece may be known, or the job is added.    *)
AsyncHash(j) ==
    /\ net = NetIdle /\ j \in Hashes \ called
    /\ \/ /\ Fresh(j)
          /\ called' = called \cup {j}
          /\ UNCHANGED <<fenceVars, net>>
       \/ /\ IsBlocked(j)
          /\ IF Passed(j) THEN NetDoes("push", j) ELSE NetDone
          /\ UNCHANGED called
    /\ UNCHANGED <<m_queued_jobs, cacheVars, thread, m_completed_jobs, m_job_completions_in_flight,
                   retries>>

(* prep_read_job_impl for a read that was let through and missed: it       *)
(* waits for a read of the piece that is going on, or starts one.          *)
ReadMissed(reads) ==
    /\ outstanding_read' = (outstanding_read \/ reads # <<>>)
    /\ read_jobs' = read_jobs \o (IF outstanding_read \/ reads = <<>> THEN reads ELSE Tail(reads))

StartedReads(reads) == IF outstanding_read \/ reads = <<>> THEN {} ELSE {Head(reads)}

(* May the cache know nothing of the piece?  Without a read cache (the     *)
(* setting use_read_cache) a read then goes straight to the queue.         *)
MayBeAbsent == "direct" \in ReadOutcomes /\ hung = {} /\ ~ outstanding_read

(* async_read.  A hit is answered at once, also behind a fence; so is a    *)
(* read that was let through when there is no memory for the piece.        *)
AsyncRead(j) ==
    /\ net = NetIdle /\ j \in Reads \ called
    /\ \E out \in ReadOutcomes :
          /\ out = "direct" => MayBeAbsent
          /\ IF out = "hit" THEN Fresh(j) /\ UNCHANGED fenceVars ELSE IsBlocked(j)
          /\ called' = IF out = "hit" \/ (Passed(j) /\ out = "nomem") THEN called \cup {j} ELSE called
          /\ ReadMissed(IF Passed(j) /\ out = "miss" THEN <<j>> ELSE <<>>)
          /\ IF Passed(j) /\ (out = "direct" \/ (out = "miss" /\ ~ outstanding_read))
             THEN NetDoes("push", j) ELSE NetDone
    /\ UNCHANGED <<m_queued_jobs, hung, outstanding_flush, thread, m_completed_jobs,
                   m_job_completions_in_flight, retries>>

(* async_write: the fence first ... *)
AsyncWrite(j) ==
    /\ net = NetIdle /\ j \in Writes
    /\ IsBlocked(j)
    /\ IF Passed(j) THEN NetDoes("cache", j) ELSE NetDone
    /\ UNCHANGED <<m_queued_jobs, cacheVars, thread, completionVars, retries>>

(* ... then the cache, which may want a flush job ... *)
NetCacheWrite ==
    /\ net.pc = "cache"
    /\ \E cached \in CacheOutcomes :
          /\ hung' = IF cached THEN hung \cup {net.job} ELSE hung
          /\ outstanding_flush' = (outstanding_flush \/ cached)
          /\ IF ~ cached THEN NetDoes("push", net.job)
             ELSE IF outstanding_flush THEN NetDone
             ELSE NetDoes("flush", FlushHashed(net.job))
    /\ UNCHANGED <<fenceVars, m_queued_jobs, read_jobs, outstanding_read, thread,
                   completionVars, retries>>

(* ... which has to pass the fence too. *)
NetFlush ==
    /\ net.pc = "flush"
    /\ IsBlocked(net.job)
    /\ IF Passed(net.job) THEN NetDoes("push", net.job) ELSE NetDone
    /\ UNCHANGED <<m_queued_jobs, cacheVars, thread, completionVars, retries>>

(* add_fence_job *)
AddFenceJob(j) ==
    /\ net = NetIdle /\ j \in Fences
    /\ RaiseFence(j, FlushStorage(j))
    /\ IF Passed(j) THEN NetDoes("push", j)
       ELSE IF Passed(FlushStorage(j)) THEN NetDoes("push_front", FlushStorage(j))
       ELSE NetDone
    /\ UNCHANGED <<m_queued_jobs, cacheVars, thread, completionVars, retries>>

(* add_job and add_fence_job put a job on the queue, a flush job that a    *)
(* fence waits for before all others.                                      *)
NetPush ==
    /\ net.pc \in {"push", "push_front"}
    /\ m_queued_jobs' = IF net.pc = "push" THEN Append(m_queued_jobs, net.job)
                        ELSE <<net.job>> \o m_queued_jobs
    /\ NetDone
    /\ UNCHANGED <<fenceVars, cacheVars, thread, completionVars, retries>>

CallJobHandlers ==
    /\ net = NetIdle
    /\ m_job_completions_in_flight
    /\ m_job_completions_in_flight' = FALSE
    /\ called' = called \cup m_completed_jobs
    /\ m_completed_jobs' = {}
    /\ UNCHANGED <<fenceVars, m_queued_jobs, cacheVars, net, thread, retries>>
-----------------------------------------------------------------------------
(* A disk thread *)

Goes(t, rec) == thread' = [thread EXCEPT ![t] = rec]
At(t, pc) == thread[t].pc = pc

(* The write jobs whose blocks no thread is writing. *)
Dirty == hung \ UNION {thread[t].took : t \in Threads}

(* thread_fun takes a job.  The first thread may find that blocks have     *)
(* expired (maybe_flush_write_blocks) and write them first.                *)
PopJob(t) ==
    /\ At(t, "idle")
    /\ m_queued_jobs # <<>>
    /\ m_queued_jobs' = Tail(m_queued_jobs)
    /\ \E expired \in {FALSE} \cup {Dirty # {}} :
          Goes(t, [ThreadIdle EXCEPT
                     !.pc = IF expired THEN "flush" ELSE "perform",
                     !.job = Head(m_queued_jobs),
                     !.took = IF expired THEN Dirty ELSE {}])
    /\ UNCHANGED <<fenceVars, cacheVars, net, completionVars, retries>>

(* The thread begins to write blocks, those that are dirty if flush, and   *)
(* goes on when they are written; done has completed, end completes then.  *)
BeginFlush(t, flush, done, end) ==
    Goes(t, [thread[t] EXCEPT !.pc = "flush", !.job = None, !.done = done, !.end = end,
                              !.took = IF flush THEN Dirty ELSE {}])

(* Mutant: the piece stays marked as being read. *)
DoReadMarked(t, j) ==
    /\ read_jobs = <<>>
    /\ \E flush \in BOOLEAN : BeginFlush(t, flush, {}, {j})
    /\ UNCHANGED <<m_queued_jobs, cacheVars, retries>>

(* do_read: the reads that were waiting are hits, or the first of them     *)
(* that is not is put on the queue.  (do_uncached_read, without a piece,   *)
(* changes nothing, and nothing waits then.)                               *)
DoRead(t, j) ==
    \E hits \in SUBSET ToSet(read_jobs), flush \in BOOLEAN :
        LET missed == Only(read_jobs, ToSet(read_jobs) \ hits)
        IN  /\ outstanding_read' = (missed # <<>>)
            /\ read_jobs' = IF missed = <<>> THEN <<>> ELSE Tail(missed)
            /\ m_queued_jobs' = IF missed = <<>> THEN m_queued_jobs
                                ELSE Append(m_queued_jobs, Head(missed))
            /\ BeginFlush(t, flush, hits, {j})
            /\ UNCHANGED <<hung, outstanding_flush, retries>>

(* Mutant: a write that the cache refuses again is forgotten. *)
DoWriteForgets(t, j) ==
    /\ \E cached \in CacheOutcomes :
          /\ hung' = IF cached THEN hung \cup {j} ELSE hung
          /\ Goes(t, [thread[t] EXCEPT !.pc = "flush", !.job = None])
    /\ UNCHANGED <<m_queued_jobs, read_jobs, outstanding_read, outstanding_flush, retries>>

(* do_write, for a write the cache had no room for before *)
DoWrite(t, j) ==
    /\ \E cached \in CacheOutcomes, flush \in BOOLEAN :
          /\ hung' = IF cached THEN hung \cup {j} ELSE hung
          /\ Goes(t, [thread[t] EXCEPT !.pc = "flush", !.job = None,
                        !.end = IF cached THEN {} ELSE {j},
                        !.took = IF ~ flush THEN {} ELSE IF cached THEN Dirty \cup {j} ELSE Dirty])
    /\ UNCHANGED <<m_queued_jobs, read_jobs, outstanding_read, outstanding_flush, retries>>

(* do_flush_hashed writes blocks or leaves them for later. *)
DoFlushHashed(t, j) ==
    /\ outstanding_flush' = FALSE
    /\ \E flush \in BOOLEAN : BeginFlush(t, flush, {}, {j})
    /\ UNCHANGED <<m_queued_jobs, hung, read_jobs, outstanding_read, retries>>

(* do_flush_storage writes all there is. *)
DoFlushStorage(t, j) ==
    /\ BeginFlush(t, TRUE, {}, {j})
    /\ UNCHANGED <<m_queued_jobs, cacheVars, retries>>

(* A hash job and a fence job may have to be tried again; a fence job may  *)
(* flush the cache itself, as may any job when the cache is too full       *)
(* (check_cache_level).                                                    *)
DoOther(t, j) ==
    \/ /\ \E flush \in BOOLEAN : BeginFlush(t, flush, {}, {j})
       /\ UNCHANGED <<m_queued_jobs, cacheVars, retries>>
    \/ /\ retries < MaxRetries
       /\ retries' = retries + 1
       /\ \E flush \in BOOLEAN :
             Goes(t, [thread[t] EXCEPT !.pc = "flush", !.job = None, !.other = <<j>>,
                                       !.took = IF flush THEN Dirty ELSE {}])
       /\ UNCHANGED <<m_queued_jobs, cacheVars>>

(* perform_job *)
PerformJob(t) ==
    LET j == thread[t].job
    IN  /\ At(t, "perform")
        /\ \/ j \in Reads /\ DoRead(t, j)
           \/ j \in Writes /\ DoWrite(t, j)
           \/ IsFlushHashed(j) /\ DoFlushHashed(t, j)
           \/ IsFlushStorage(j) /\ DoFlushStorage(t, j)
           \/ j \in Hashes \cup Fences /\ DoOther(t, j)
        /\ UNCHANGED <<fenceVars, net, completionVars>>

(* The thread rec has jobs that completed; without any it goes on with the *)
(* job in hand, or is done.                                                *)
Completing(rec, jobs) ==
    [rec EXCEPT !.done = jobs,
                !.pc = IF jobs # {} THEN "complete"
                       ELSE IF rec.job # None THEN "perform" ELSE "idle"]

(* iovec_flushed: the jobs of the blocks that were written complete; when  *)
(* the write failed, every job on the piece does.  A job that has to be    *)
(* tried again goes back to the queue (the end of perform_job).            *)
Flushed(t) ==
    /\ At(t, "flush")
    /\ \E failed \in {FALSE} \cup {thread[t].took # {}} :
          LET over == IF failed THEN hung ELSE hung \cap thread[t].took
          IN  /\ hung' = hung \ over
              /\ Goes(t, Completing([thread[t] EXCEPT !.took = {}, !.end = {}, !.other = <<>>],
                                    thread[t].done \cup over \cup thread[t].end))
    /\ m_queued_jobs' = m_queued_jobs \o thread[t].other
    /\ UNCHANGED <<fenceVars, read_jobs, outstanding_read, outstanding_flush, net,
                   completionVars, retries>>

(* add_completed_jobs_impl: one job after another is told to the fence,    *)
(* and what it lets through is put on the list.                            *)
Complete(t) ==
    /\ At(t, "complete")
    /\ \E j \in thread[t].done, n \in 0 .. Len(m_blocked_jobs) :
          LET released == SubSeq(m_blocked_jobs, 1, n)
          IN  /\ \E empty \in {thread[t].list = <<>>} \cup {FALSE} : JobComplete(j, empty, n)
              /\ Goes(t, [thread[t] EXCEPT
                            !.done = @ \ {j}, !.acked = @ \cup {j},
                            !.list = IF j \in fence THEN @ \o released ELSE released \o @])
    /\ UNCHANGED <<m_queued_jobs, cacheVars, net, completionVars, retries>>

(* The subsets of jobs, if both a job in it and one outside may occur. *)
Some(jobs, inside, outside) ==
    {s \in SUBSET jobs : (inside \/ s = {}) /\ (outside \/ s = jobs)}

(* The cache may learn of the piece from any write on the list that it     *)
(* takes; the reads before that may go straight to the queue.              *)
Unknown(list, known) ==
    {{}} \cup {ToSet(SubSeq(list, 1, k)) :
               k \in {i \in DOMAIN list : MayBeAbsent /\ known \cap ToSet(SubSeq(list, 1, i)) = {}}}

(* All are told.  Reads and writes on the list go through the cache.       *)
Redistribute(t) ==
    LET list   == thread[t].list
        reads  == {j \in ToSet(list) : j \in Reads}
        writes == {j \in ToSet(list) : j \in Writes}
    IN  /\ At(t, "complete")
        /\ thread[t].done = {}
        /\ \E hits \in Some(reads, "hit" \in ReadOutcomes, "miss" \in ReadOutcomes),
              cached \in Some(writes, TRUE \in CacheOutcomes, FALSE \in CacheOutcomes) :
           \E before \in Unknown(list, hits \cup cached) :
              LET direct == reads \cap before
                  missed == Only(list, reads \ (hits \cup direct))
                  other  == Only(list, (ToSet(list) \ (reads \cup cached)) \cup direct
                                        \cup StartedReads(missed))
                  flush  == IF outstanding_flush \/ cached = {} THEN {None}
                            ELSE {FlushHashed(w) : w \in cached}
              IN  /\ hung' = hung \cup cached
                  /\ ReadMissed(missed)
                  /\ outstanding_flush' = (outstanding_flush \/ cached # {})
                  /\ \E j \in flush :
                        Goes(t, [thread[t] EXCEPT !.pc = "append", !.list = <<>>, !.next = hits,
                                                  !.other = other, !.flush = j])
        /\ UNCHANGED <<fenceVars, m_queued_jobs, net, completionVars, retries>>

(* The rest of the list goes to the queue. *)
AppendJobs(t) ==
    /\ At(t, "append")
    /\ m_queued_jobs' = m_queued_jobs \o thread[t].other
    /\ Goes(t, [thread[t] EXCEPT !.other = <<>>,
                                 !.pc = IF thread[t].flush = None THEN "post" ELSE "fence"])
    /\ UNCHANGED <<fenceVars, cacheVars, net, completionVars, retries>>

(* add_job for the flush job *)
FenceFlush(t) ==
    /\ At(t, "fence")
    /\ IsBlocked(thread[t].flush)
    /\ Goes(t, [thread[t] EXCEPT
                  !.other = IF Passed(thread[t].flush) THEN <<thread[t].flush>> ELSE <<>>,
                  !.flush = None, !.pc = "append"])
    /\ UNCHANGED <<m_queued_jobs, cacheVars, net, completionVars, retries>>

(* The completed jobs are handed over; add_completed_jobs goes round again *)
(* for the reads that were hits, and then the job in hand is performed.    *)
PostCompleted(t) ==
    /\ At(t, "post")
    /\ m_completed_jobs' = m_completed_jobs \cup thread[t].acked
    /\ m_job_completions_in_flight' = TRUE
    /\ Goes(t, Completing([thread[t] EXCEPT !.acked = {}, !.next = {}], thread[t].next))
    /\ UNCHANGED <<fenceVars, m_queued_jobs, cacheVars, net, called, retries>>

ThreadStep(t) ==
    \/ PopJob(t) \/ PerformJob(t) \/ Flushed(t) \/ Complete(t) \/ Redistribute(t)
    \/ AppendJobs(t) \/ FenceFlush(t) \/ PostCompleted(t)

NetStep == NetCacheWrite \/ NetFlush \/ NetPush \/ CallJobHandlers

Issue ==
    /\ Cardinality({j \in Issued : ~ Fresh(j) \/ j \in called}) < MaxIssued
    /\ \E j \in Issued : AsyncHash(j) \/ AsyncRead(j) \/ AsyncWrite(j) \/ AddFenceJob(j)

Next == Issue \/ NetStep \/ \E t \in Threads : ThreadStep(t)

Spec == Init /\ [][Next]_vars

(* The threads go on with what they have in hand, and some thread takes a  *)
(* job that is queued.  Nobody has to issue jobs.                          *)
Fairness == WF_vars(NetStep) /\ \A t \in Threads : WF_vars(ThreadStep(t))

FairSpec == Spec /\ Fairness
-----------------------------------------------------------------------------
(* Where the jobs are that were let through the fence and have not         *)
(* completed: one set for each place, first those that all threads share,  *)
(* then those of a thread.                                                 *)
NetJob == IF net.pc \in {"push", "push_front", "cache"} THEN {net.job} ELSE {}
Shared == <<ToSet(m_queued_jobs), hung, ToSet(read_jobs), NetJob>>

InHand(rec) ==
    <<{rec.job} \ {None}, rec.end, rec.done, ToSet(rec.list), rec.next, ToSet(rec.other)>>

All(places) == UNION {places[i] : i \in DOMAIN places}
Apart(places) == \A i, k \in DOMAIN places : i # k => places[i] \cap places[k] = {}

(* No job is lost and none is in two places, or twice on a list: a job     *)
(* that passed the fence is on the queue, on the piece in the cache or in  *)
(* the hands of exactly one thread, until job_complete.  The fence waits   *)
(* for jobs it cannot see: one that were dropped would keep it up for      *)
(* good, and one that were done twice would lower it too early.            *)
JobsAccounted ==
    /\ in_progress = All(Shared) \cup UNION {All(InHand(thread[t])) : t \in Threads}
    /\ Apart(Shared) /\ IsInjective(m_queued_jobs) /\ IsInjective(read_jobs)
    /\ \A t \in Threads :
          /\ Apart(InHand(thread[t])) /\ All(InHand(thread[t])) \cap All(Shared) = {}
          /\ IsInjective(thread[t].list) /\ IsInjective(thread[t].other)
          /\ \A u \in Threads \ {t} : All(InHand(thread[t])) \cap All(InHand(thread[u])) = {}

(* No job is queued, and no thread has anything in hand. *)
Quiet ==
    /\ m_queued_jobs = <<>> /\ net = NetIdle
    /\ ~ m_job_completions_in_flight
    /\ \A t \in Threads : thread[t] = ThreadIdle

(* When all is quiet every job was answered, however the fences, the flush *)
(* jobs and the reads that hang on a piece were interleaved.  The          *)
(* exception is write blocks that stay in the cache: nobody has to write   *)
(* them, and the fences wait for them.                                     *)
QuietMeansAnswered ==
    Quiet => hung # {} \/ in_progress \cup Blocked \cup (finished \cap Issued) \subseteq called

(* A fence job is run: the flush job that add_fence_job posts sees to it   *)
(* that the jobs before it complete.                                       *)
FenceRuns == \A f \in Fences : f \in fence ~> f \in called
=============================================================================

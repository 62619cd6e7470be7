------------------------- MODULE DiskBackPressure -------------------------
(***************************************************************************)
(* How the disk holds back the peers.  A block that a peer has received    *)
(* takes a disk buffer (DiskBufferPool) and is dirty until a disk thread   *)
(* has written it; then it is clean, stays in the cache and can be         *)
(* evicted.  When the pool says that its limit is exceeded, a peer with    *)
(* writes outstanding stops to receive (bw_disk) until it is called back   *)
(* or its writes are done.  A disk thread looks at the level of the cache  *)
(* after each job, one thread at a time.  Read jobs take buffers too: a    *)
(* block that is sent is lent to the peer until it is sent.                *)
(*                                                                         *)
(* A step is a section under m_cache_mutex or a handler of the network     *)
(* thread.  The cache is a number of blocks of each kind.                  *)
(***************************************************************************)
EXTENDS DiskBufferPool

CONSTANTS
    Threads,
    AllocOutcomes,    \* does malloc succeed: subset of BOOLEAN
    UseReadCache,     \* the setting use_read_cache, which the streamer switches off
    ReadSizes,        \* blocks that a read job reads
    MaxPieces,        \* bound: blocks that are received
    MaxExtras         \* bound: reads, and connections that end by themselves

ASSUME PressureAssumption ==
    /\ IsFiniteSet(Threads)
    /\ AllocOutcomes \subseteq BOOLEAN
    /\ UseReadCache \in BOOLEAN
    /\ ReadSizes \subseteq Nat \ {0}
    /\ MaxPieces \in Nat /\ MaxExtras \in Nat

VARIABLES
    connected,              \* peers that are not disconnecting
    bw_disk,                \* peers that wait for the disk
    outstanding_writing,    \* [Peers -> Nat] m_outstanding_writing_bytes, in blocks
    receiving,              \* the block that the network thread is adding, if any
    dirty,                  \* [Peers -> Nat] blocks to be written
    clean,                  \* blocks that can be evicted
    pinned,                 \* blocks of the cache that are being sent
    lent,                   \* buffers outside of the cache: being sent, or to be added
    outstanding_flush,      \* is a flush job queued?
    completions,            \* [Peers -> Nat] write handlers that are due
    m_cache_check_state,
    thread,
    received, extras        \* for the bounds

peerVars == <<connected, bw_disk, outstanding_writing, receiving>>
sendVars == <<pinned, lent>>
cacheVars == <<dirty, clean, sendVars, outstanding_flush>>
bounds == <<received, extras>>
vars == <<bufferVars, peerVars, cacheVars, completions, m_cache_check_state, thread, bounds>>

None == [p \in Peers |-> 0]
Plus(a, b) == [p \in Peers |-> a[p] + b[p]]
Minus(a, b) == [p \in Peers |-> a[p] - b[p]]
Size(a) == SumFunction(a)

(* Parts of a multiset of blocks. *)
Parts(a) == {b \in [Peers -> 0 .. Size(a)] : \A p \in Peers : b[p] <= a[p]}

(* writes: blocks being written, then: what follows; read: buffers for the *)
(* blocks being read; need: blocks that check_cache_level still wants out; *)
(* over: the write jobs that completed.                                    *)
ThreadIdle == [pc |-> "idle", writes |-> None, then |-> "level", read |-> 0, need |-> 0,
               over |-> None]

Init ==
    /\ BufferInit
    /\ connected = Peers /\ bw_disk = {}
    /\ outstanding_writing = None /\ receiving = {}
    /\ dirty = None /\ clean = 0 /\ pinned = 0 /\ lent = 0 /\ outstanding_flush = FALSE
    /\ completions = None
    /\ m_cache_check_state = 0
    /\ thread = [t \in Threads |-> ThreadIdle]
    /\ received = 0 /\ extras = 0
-----------------------------------------------------------------------------
(* The network thread *)

(* It is not in the middle of async_write. *)
Between == receiving = {}

(* incoming_piece calls async_write, which takes a buffer.  When there is  *)
(* no memory the exception ends the connection, which is on the list       *)
(* nevertheless.                                                           *)
IncomingPiece(p) ==
    /\ Between
    /\ p \in connected \ bw_disk
    /\ received < MaxPieces
    /\ received' = received + 1
    /\ \E ok \in AllocOutcomes :
          /\ AllocateFor(p, ok)
          /\ receiving' = IF ok THEN {[peer |-> p, exceeded |-> m_exceeded_max_size']} ELSE {}
          /\ lent' = IF ok THEN lent + 1 ELSE lent
          /\ connected' = IF ok THEN connected ELSE connected \ {p}
    /\ UNCHANGED <<bw_disk, outstanding_writing, dirty, clean, pinned, outstanding_flush, completions,
                   m_cache_check_state, thread, extras>>

(* Under the mutex of the cache add_dirty_block makes room, though not by  *)
(* blocks of the same piece, and the block is dirty.  The peer waits if    *)
(* the limit was exceeded when it got its buffer.                          *)
AddDirtyBlock(p, exceeded) ==
    /\ [peer |-> p, exceeded |-> exceeded] \in receiving
    /\ \E n \in 0 .. Min({NumToEvict(1), clean}) :
          FreeSome(n) /\ clean' = clean - n
    /\ lent' = lent - 1
    /\ dirty' = [dirty EXCEPT ![p] = @ + 1]
    /\ outstanding_flush' = TRUE
    /\ bw_disk' = IF exceeded /\ outstanding_writing[p] > 0 THEN bw_disk \cup {p} ELSE bw_disk
    /\ outstanding_writing' = [outstanding_writing EXCEPT ![p] = @ + 1]
    /\ receiving' = {}
    /\ UNCHANGED <<connected, pinned, completions, m_cache_check_state, thread, bounds>>

(* on_disk_write_complete: a peer without writes may always go on. *)
OnDiskWriteComplete(p) ==
    /\ Between /\ completions[p] > 0
    /\ completions' = [completions EXCEPT ![p] = @ - 1]
    /\ outstanding_writing' = [outstanding_writing EXCEPT ![p] = @ - 1]
    /\ bw_disk' = IF outstanding_writing[p] = 1 THEN bw_disk \ {p} ELSE bw_disk
    /\ UNCHANGED <<bufferVars, connected, receiving, cacheVars, m_cache_check_state, thread, bounds>>

(* watermark_callback: on_disk of those that still exist *)
WatermarkCallback ==
    /\ Between /\ posted # <<>>
    /\ posted' = Tail(posted)
    /\ bw_disk' = bw_disk \ Head(posted)
    /\ UNCHANGED <<m_in_use, m_max_use, m_low_watermark, m_exceeded_max_size, m_observers, trim,
                   connected, outstanding_writing, receiving, cacheVars, completions,
                   m_cache_check_state, thread, bounds>>

Disconnect(p) ==
    /\ Between /\ p \in connected /\ extras < MaxExtras
    /\ extras' = extras + 1
    /\ connected' = connected \ {p}
    /\ bw_disk' = bw_disk \ {p}
    /\ UNCHANGED <<bufferVars, outstanding_writing, receiving, cacheVars, completions,
                   m_cache_check_state, thread, received>>

(* async_read finds the block: it is lent as it is. *)
ReadHit ==
    /\ Between /\ clean > 0 /\ extras < MaxExtras
    /\ extras' = extras + 1
    /\ clean' = clean - 1 /\ pinned' = pinned + 1
    /\ UNCHANGED <<bufferVars, peerVars, dirty, lent, outstanding_flush, completions,
                   m_cache_check_state, thread, received>>

(* A block was sent: reclaim_blocks, or free_disk_buffer. *)
Sent ==
    /\ Between
    /\ \/ /\ pinned > 0
          /\ pinned' = pinned - 1 /\ clean' = clean + 1
          /\ UNCHANGED <<bufferVars, lent>>
       \/ /\ lent > 0
          /\ lent' = lent - 1
          /\ Free(1)
          /\ UNCHANGED <<pinned, clean>>
    /\ UNCHANGED <<peerVars, dirty, outstanding_flush, completions, m_cache_check_state,
                   thread, bounds>>

SetSettings(max) ==
    /\ Between /\ <<m_max_use, max>> \in Changes
    /\ SetCacheSize(max)
    /\ UNCHANGED <<peerVars, cacheVars, completions, m_cache_check_state, thread, bounds>>
-----------------------------------------------------------------------------
(* A disk thread *)

Goes(t, rec) == thread' = [thread EXCEPT ![t] = rec]
At(t, pc) == thread[t].pc = pc

(* num_writing_threads *)
Writing == {t \in Threads : At(t, "write")}

(* try_evict_blocks: as many as are wanted and can be had. *)
Evicted(n) == IF n < clean THEN n ELSE clean

(* A flush job writes some of the dirty blocks, or none. *)
FlushJob(t) ==
    /\ At(t, "idle") /\ outstanding_flush
    /\ outstanding_flush' = FALSE
    /\ \E w \in Parts(dirty) :
          /\ dirty' = Minus(dirty, w)
          /\ Goes(t, [ThreadIdle EXCEPT !.pc = IF w = None THEN "level" ELSE "write", !.writes = w])
    /\ UNCHANGED <<bufferVars, peerVars, clean, sendVars, completions, m_cache_check_state, bounds>>

TrimJob(t) ==
    /\ At(t, "idle") /\ trim
    /\ trim' = FALSE
    /\ Goes(t, [ThreadIdle EXCEPT !.pc = "level"])
    /\ UNCHANGED <<m_in_use, m_max_use, m_low_watermark, m_exceeded_max_size, m_observers, posted,
                   peerVars, cacheVars, completions, m_cache_check_state, bounds>>

(* do_read makes room.  Without a read cache the piece may be unknown ... *)
ReadJob(t, n) ==
    /\ At(t, "idle") /\ extras < MaxExtras
    /\ extras' = extras + 1
    /\ FreeSome(Evicted(NumToEvict(n)))
    /\ clean' = clean - Evicted(NumToEvict(n))
    /\ \E pc \in IF UseReadCache THEN {"alloc"} ELSE {"alloc", "uncached"} :
          Goes(t, [ThreadIdle EXCEPT !.pc = pc, !.read = n])
    /\ UNCHANGED <<peerVars, dirty, sendVars, outstanding_flush, completions,
                   m_cache_check_state, received>>

(* ... and the read is done in a buffer that goes to the peer (or to       *)
(* nobody, after an error).                                                *)
DoUncachedRead(t) ==
    /\ At(t, "uncached")
    /\ \E ok \in AllocOutcomes :
          /\ AllocateQuietly(1, ok)
          /\ lent' = IF ok THEN lent + 1 ELSE lent
    /\ Goes(t, [thread[t] EXCEPT !.pc = "level", !.read = 0])
    /\ UNCHANGED <<peerVars, dirty, clean, pinned, outstanding_flush, completions,
                   m_cache_check_state, bounds>>

(* Else do_read takes the buffers, or does without the cache ... *)
ReadAlloc(t) ==
    /\ At(t, "alloc")
    /\ \E ok \in AllocOutcomes :
          /\ \E n \in IF ok THEN {thread[t].read} ELSE 1 .. thread[t].read : AllocateQuietly(n, ok)
          /\ Goes(t, [thread[t] EXCEPT !.pc = IF ok THEN "read" ELSE "uncached"])
    /\ UNCHANGED <<peerVars, cacheVars, completions, m_cache_check_state, bounds>>

(* Mutant: after an error the buffers are not given back. *)
ReadDoneLeaks(t) ==
    /\ At(t, "read")
    /\ \E n \in {0, thread[t].read} : clean' = clean + n
    /\ Goes(t, [thread[t] EXCEPT !.pc = "level", !.read = 0])
    /\ UNCHANGED <<bufferVars, peerVars, dirty, sendVars, outstanding_flush, completions,
                   m_cache_check_state, bounds>>

(* ... and puts the blocks into the cache, where one is lent to the peer,  *)
(* or, after an error, gives the buffers back.                             *)
ReadDone(t) ==
    /\ At(t, "read")
    /\ \/ clean' = clean + thread[t].read - 1 /\ pinned' = pinned + 1 /\ UNCHANGED bufferVars
       \/ Free(thread[t].read) /\ UNCHANGED <<clean, pinned>>
    /\ Goes(t, [thread[t] EXCEPT !.pc = "level", !.read = 0])
    /\ UNCHANGED <<peerVars, dirty, lent, outstanding_flush, completions, m_cache_check_state, bounds>>

(* flush_iovec is over, the mutex is yet to be taken. *)
WriteEnds(t) ==
    /\ At(t, "write")
    /\ Goes(t, [thread[t] EXCEPT !.pc = "written"])
    /\ UNCHANGED <<bufferVars, peerVars, cacheVars, completions, m_cache_check_state, bounds>>

(* Mutant: the state is reset although a check is still to be done. *)
EndCheckResets(t, state, rec) ==
    /\ m_cache_check_state' = 0
    /\ Goes(t, [rec EXCEPT !.pc = IF state = 1 THEN "done" ELSE "again", !.then = "level",
                         !.need = 0])

(* The check ends, and begins again if another thread has asked for it.    *)
EndCheck(t, state, rec) ==
    /\ m_cache_check_state' = state - 1
    /\ Goes(t, [rec EXCEPT !.pc = IF state = 1 THEN "done" ELSE "again", !.then = "level",
                         !.need = 0])

(* The second round of try_flush_write_blocks writes all there is, unless  *)
(* the first has sufficed or another thread is writing.                    *)
SecondRound(t, state, rec) ==
    IF rec.need = 0 \/ Writing \ {t} # {} \/ dirty = None
    THEN EndCheck(t, state, rec) /\ UNCHANGED dirty
    ELSE /\ dirty' = None
         /\ Goes(t, [rec EXCEPT !.pc = "write", !.writes = dirty, !.then = "end", !.need = 0])
         /\ m_cache_check_state' = state

(* check_cache_level: clean blocks first (all, without a read cache), then *)
(* dirty ones if nobody else is writing; in the first round those that     *)
(* were hashed.                                                            *)
CheckCacheLevel(t, state) ==
    LET evict == IF UseReadCache THEN Evicted(NumToEvict(0)) ELSE clean
        rec   == [thread[t] EXCEPT !.need = IF UseReadCache THEN NumToEvict(0) - evict
                                            ELSE NumToEvict(0)']
    IN  /\ FreeSome(evict)
        /\ clean' = clean - evict
        /\ IF rec.need = 0 \/ Writing # {} THEN EndCheck(t, state, rec) /\ UNCHANGED dirty
           ELSE \/ SecondRound(t, state, rec)
                \/ \E w \in Parts(dirty) \ {None} :
                      /\ dirty' = Minus(dirty, w)
                      /\ Goes(t, [rec EXCEPT !.pc = "write", !.writes = w, !.then = "second",
                                             !.need = @ - Size(w)])
                      /\ m_cache_check_state' = state
        /\ UNCHANGED <<peerVars, sendVars, outstanding_flush, completions, bounds>>

(* Mutant: a thread that finds another one checking leaves no word. *)
PerformJobEndSilent(t) ==
    /\ At(t, "level")
    /\ IF m_cache_check_state = 0 THEN CheckCacheLevel(t, 1)
       ELSE /\ Goes(t, [thread[t] EXCEPT !.pc = "done"])
            /\ UNCHANGED <<bufferVars, peerVars, cacheVars, completions, m_cache_check_state, bounds>>

(* The end of perform_job: one thread checks the level, and does it again  *)
(* if another would have.                                                  *)
PerformJobEnd(t) ==
    /\ At(t, "level")
    /\ IF m_cache_check_state = 0 THEN CheckCacheLevel(t, 1)
       ELSE /\ m_cache_check_state' = 2
            /\ Goes(t, [thread[t] EXCEPT !.pc = "done"])
            /\ UNCHANGED <<bufferVars, peerVars, cacheVars, completions, bounds>>

CheckAgain(t) == At(t, "again") /\ CheckCacheLevel(t, m_cache_check_state)

(* iovec_flushed, and the eviction that follows: the jobs of the blocks    *)
(* are over, and the blocks are clean.                                     *)
Written(t) ==
    LET now   == clean + Size(thread[t].writes)
        evict == Min({NumToEvict(0), now})
        rec   == [thread[t] EXCEPT !.writes = None, !.over = Plus(@, thread[t].writes)]
    IN  /\ At(t, "written")
        /\ FreeSome(evict)
        /\ clean' = now - evict
        /\ CASE rec.then = "level"  -> /\ Goes(t, [rec EXCEPT !.pc = "level"])
                                       /\ UNCHANGED <<dirty, m_cache_check_state>>
             [] rec.then = "second" -> SecondRound(t, m_cache_check_state, rec)
             [] rec.then = "end"    -> EndCheck(t, m_cache_check_state, rec) /\ UNCHANGED dirty
        /\ UNCHANGED <<peerVars, sendVars, outstanding_flush, completions, bounds>>

(* Mutant: the completed jobs take the place of those that wait. *)
JobDoneReplaces(t) ==
    /\ At(t, "done")
    /\ completions' = thread[t].over
    /\ Goes(t, ThreadIdle)
    /\ UNCHANGED <<bufferVars, peerVars, cacheVars, m_cache_check_state, bounds>>

(* add_completed_jobs *)
JobDone(t) ==
    /\ At(t, "done")
    /\ completions' = Plus(completions, thread[t].over)
    /\ Goes(t, ThreadIdle)
    /\ UNCHANGED <<bufferVars, peerVars, cacheVars, m_cache_check_state, bounds>>
-----------------------------------------------------------------------------
(* What a thread does with a job that is there. *)
ThreadStep(t) ==
    \/ FlushJob(t) \/ TrimJob(t) \/ DoUncachedRead(t) \/ ReadAlloc(t) \/ ReadDone(t)
    \/ WriteEnds(t) \/ Written(t) \/ PerformJobEnd(t) \/ CheckAgain(t) \/ JobDone(t)

NetStep == WatermarkCallback \/ \E p \in Peers : OnDiskWriteComplete(p)

Next ==
    \/ NetStep \/ ReadHit \/ Sent
    \/ \E p \in Peers : IncomingPiece(p) \/ Disconnect(p)
    \/ \E p \in Peers, exceeded \in BOOLEAN : AddDirtyBlock(p, exceeded)
    \/ \E change \in Changes : SetSettings(change[2])
    \/ \E t \in Threads : ThreadStep(t) \/ \E n \in ReadSizes : ReadJob(t, n)

Spec == Init /\ [][Next]_vars

-----------------------------------------------------------------------------
(* The buffers that a thread has in its hands, and the blocks of a peer.   *)
Held == [t \in Threads |-> Size(thread[t].writes) + IF At(t, "read") THEN thread[t].read ELSE 0]
Owed(p) == [t \in Threads |-> thread[t].writes[p] + thread[t].over[p]]

(* Every buffer that is counted has an owner: the numbers in the cache and *)
(* in the hands of the threads add up.                                     *)
BuffersAgree == m_in_use = Size(dirty) + clean + pinned + lent + SumFunction(Held)

(* A peer is told of each of its writes once: what it counts as            *)
(* outstanding is dirty, in the hands of a thread, or about to be told.    *)
WritesAccounted ==
    \A p \in Peers : outstanding_writing[p] = dirty[p] + completions[p] + SumFunction(Owed(p))

(* A peer that waits has a write outstanding, so that it may go on when it *)
(* is done, and it is known: it is on the list of a pool that counts as    *)
(* exceeded, or its call is due.  On the list while the pool does not      *)
(* count as exceeded it would never be called.  A peer that will wait when *)
(* its block is added is known already: whoever frees buffers meanwhile    *)
(* has left a call for it.                                                 *)
WaitersAreKnown ==
    /\ \A p \in bw_disk :
          /\ outstanding_writing[p] > 0
          /\ m_observers[p] > 0 \/ \E i \in DOMAIN posted : p \in posted[i]
    /\ \A r \in receiving : r.exceeded =>
          m_observers[r.peer] > 0 \/ \E i \in DOMAIN posted : r.peer \in posted[i]
    /\ ~ m_exceeded_max_size => m_observers = NoObservers

(* A check of the cache level that was asked for is not forgotten: the     *)
(* state is idle exactly when no thread is checking.                       *)
OneChecker ==
    /\ Cardinality({t \in Threads : At(t, "again") \/ thread[t].then # "level"}) <= 1
    /\ m_cache_check_state = 0 <=>
          \A t \in Threads : ~ At(t, "again") /\ thread[t].then = "level"

(* The disk has come to rest: no job is there, and no call is due. *)
Rest ==
    /\ Between
    /\ \A t \in Threads : thread[t] = ThreadIdle
    /\ ~ outstanding_flush /\ ~ trim
    /\ posted = <<>> /\ completions = None

(* When the disk has come to rest nobody waits for it: the checks of the   *)
(* level were enough to bring the cache below the watermark, or to write   *)
(* what the peer has outstanding, however the threads' checks, their       *)
(* writes, the checks they left to each other and the blocks that are      *)
(* being sent interleaved.  (Runs are bounded and come to rest.)  It holds *)
(* while the cache has the size it began with: a size that is lowered      *)
(* while a check is on its way leaves the check with the old target, and   *)
(* no other is asked for as the limit counts as exceeded already.          *)
NobodyLeftWaiting == Rest /\ m_max_use = MaxUse => bw_disk = {}
=============================================================================

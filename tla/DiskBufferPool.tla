-------------------------- MODULE DiskBufferPool --------------------------
(***************************************************************************)
(* disk_buffer_pool: how many disk buffers are in use, and who waits for   *)
(* there to be fewer.  Buffers are handed out beyond the limit, but those  *)
(* who ask are told and put on a list; when the number has come down to    *)
(* the low watermark everybody on the list is called, on the network       *)
(* thread.  Every operation holds m_pool_mutex and is one step; the        *)
(* operators below are parts of the steps of DiskBackPressure.             *)
(***************************************************************************)
EXTENDS Integers, Sequences, FiniteSets, FiniteSetsExt, Functions

CONSTANTS
    Peers,      \* disk_observers
    MaxUse,     \* the setting cache_size at the start
    Changes,    \* its changes: pairs of an old and a new value
    Slack       \* from the limit down to the low watermark

ASSUME BufferAssumption ==
    /\ IsFiniteSet(Peers)
    /\ MaxUse \in Nat /\ Changes \subseteq Nat \X Nat /\ Slack \in Nat \ {0, 1}

VARIABLES
    m_in_use, m_max_use, m_low_watermark, m_exceeded_max_size,
    m_observers,    \* [Peers -> Nat] how often each is on the list
    posted,         \* the calls of watermark_callback that are due
    trim            \* has m_trigger_cache_trim queued a job that is yet to run?

bufferVars == <<m_in_use, m_max_use, m_low_watermark, m_exceeded_max_size, m_observers, posted, trim>>

NoObservers == [p \in Peers |-> 0]
LowWatermark(max) == IF max > Slack THEN max - Slack ELSE 0

BufferInit ==
    /\ m_in_use = 0
    /\ m_max_use = MaxUse
    /\ m_low_watermark = LowWatermark(m_max_use)
    /\ m_exceeded_max_size = FALSE
    /\ m_observers = NoObservers
    /\ posted = <<>>
    /\ trim = FALSE
-----------------------------------------------------------------------------
(* allocate_buffer_impl, n times; malloc fails for the last one unless ok, *)
(* and the caller gives back the others.  The limit counts as exceeded     *)
(* half way between the watermark and the limit.                           *)
Allocate(n, ok) ==
    LET mark == m_low_watermark + (m_max_use - m_low_watermark) \div 2
        last == IF ok THEN m_in_use + n ELSE m_in_use + n - 1
        over == ~ ok \/ (last > m_in_use /\ last >= mark)
    IN  /\ m_in_use' = IF ok THEN last ELSE m_in_use
        /\ m_exceeded_max_size' = (m_exceeded_max_size \/ over)
        /\ trim' = (trim \/ ~ ok \/ (over /\ ~ m_exceeded_max_size))
        /\ UNCHANGED <<m_max_use, m_low_watermark, posted>>

(* allocate_buffer without an observer, and allocate_iovec *)
AllocateQuietly(n, ok) == Allocate(n, ok) /\ UNCHANGED m_observers

(* Mutant: the limit that counts is that before the allocation. *)
AllocateForStale(p, ok) ==
    /\ Allocate(1, ok)
    /\ m_observers' = IF m_exceeded_max_size THEN [m_observers EXCEPT ![p] = @ + 1]
                      ELSE m_observers

(* allocate_buffer for a peer, who is told whether the limit is exceeded   *)
AllocateFor(p, ok) ==
    /\ Allocate(1, ok)
    /\ m_observers' = IF m_exceeded_max_size' THEN [m_observers EXCEPT ![p] = @ + 1]
                      ELSE m_observers

(* free_multiple_buffers, free_iovec, free_buffer, with check_buffer_level *)
Free(n) ==
    LET low == m_exceeded_max_size /\ m_in_use - n <= m_low_watermark
    IN  /\ m_in_use' = m_in_use - n
        /\ m_exceeded_max_size' = (m_exceeded_max_size /\ ~ low)
        /\ m_observers' = IF low THEN NoObservers ELSE m_observers
        /\ posted' = IF low THEN Append(posted, {p \in Peers : m_observers[p] > 0}) ELSE posted
        /\ UNCHANGED <<m_max_use, m_low_watermark, trim>>

(* Freeing nothing is not asked for. *)
FreeSome(n) == IF n = 0 THEN UNCHANGED bufferVars ELSE Free(n)

(* num_to_evict *)
NumToEvict(needed) ==
    LET observers == SumFunction(m_observers)
        target == m_max_use - observers * 2
        excess == IF ~ m_exceeded_max_size THEN 0
                  ELSE m_in_use - (IF target < m_low_watermark THEN target ELSE m_low_watermark)
        wanted == Max({excess, m_in_use + needed - m_max_use, 0})
    IN  IF wanted > m_in_use THEN m_in_use ELSE wanted

(* set_settings: those who wait are not called, though there may be room.  *)
SetCacheSize(max) ==
    /\ m_max_use' = max
    /\ m_low_watermark' = LowWatermark(max)
    /\ m_exceeded_max_size' = (m_exceeded_max_size \/ m_in_use >= max)
    /\ trim' = (trim \/ (m_in_use >= max /\ ~ m_exceeded_max_size))
    /\ UNCHANGED <<m_in_use, m_observers, posted>>
=============================================================================

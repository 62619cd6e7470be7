---------------------- MODULE DiskBackPressureProofs ----------------------
(***************************************************************************)
(* Proofs about the disk buffers and the peers that wait for them, for any *)
(* number of peers, disk threads, blocks, reads and changes of the cache   *)
(* size.                                                                   *)
(***************************************************************************)
EXTENDS DiskBackPressure, SumTheorems

Blocks == [Peers -> Nat]
ThreadStates ==
    [pc     : {"idle", "level", "write", "written", "alloc", "uncached", "read", "again", "done"},
     writes : Blocks,
     then   : {"level", "second", "end"},
     read   : Nat,
     need   : Int,
     over   : Blocks]

(* The types, and what a thread has in its hands: a read job has something *)
(* to read, and blocks are written only where the thread writes.  The      *)
(* buffer of a block that is yet to be added is among those that are lent. *)
BufferTypes ==
    /\ m_in_use \in Nat /\ m_max_use \in Nat /\ m_low_watermark = LowWatermark(m_max_use)
    /\ m_exceeded_max_size \in BOOLEAN /\ trim \in BOOLEAN
    /\ m_observers \in Blocks /\ posted \in Seq(SUBSET Peers)

CacheTypes ==
    /\ bw_disk \subseteq Peers
    /\ outstanding_writing \in Blocks /\ dirty \in Blocks /\ completions \in Blocks
    /\ clean \in Nat /\ pinned \in Nat /\ lent \in Nat
    /\ outstanding_flush \in BOOLEAN
    /\ receiving \subseteq [peer : Peers, exceeded : BOOLEAN] /\ (receiving # {} => lent > 0)

Sound(r) ==
    /\ r.pc \in {"alloc", "uncached", "read"} => r.read > 0
    /\ r.pc \notin {"write", "written"} => r.writes = None
    /\ r.pc = "idle" => r.over = None
    /\ r.then # "level" => r.pc \in {"write", "written"}

ThreadTypes ==
    /\ m_cache_check_state \in 0 .. 2
    /\ thread \in [Threads -> ThreadStates]
    /\ \A t \in Threads : Sound(thread[t])

PressureTypes == BufferTypes /\ CacheTypes /\ ThreadTypes

(* The thread that is in check_cache_level: there is one when the state    *)
(* says so.                                                                *)
Checking(t) == At(t, "again") \/ thread[t].then # "level"

CheckerInv ==
    /\ \A t, u \in Threads : Checking(t) /\ Checking(u) => t = u
    /\ m_cache_check_state = 0 <=> \A t \in Threads : ~ Checking(t)

PressureInv == PressureTypes /\ BuffersAgree /\ WritesAccounted /\ WaitersAreKnown /\ CheckerInv

(* For NobodyLeftWaiting.  While the limit counts as exceeded the number   *)
(* of buffers is above the watermark, so that a check finds something to   *)
(* do; and as long as there are dirty blocks somebody will check, or will  *)
(* have done enough with what it is writing.                               *)
AboveLow == m_exceeded_max_size => m_in_use > m_low_watermark

ChecksLater(r, use, low) ==
    \/ r.pc \in {"alloc", "uncached", "read", "level", "again"}
    \/ r.pc \in {"write", "written"} /\ r.then = "level"
    \/ /\ r.pc \in {"write", "written"} /\ r.then = "second"
       /\ r.need # 0 \/ use - Size(r.writes) <= low

WillCheck(t) == ChecksLater(thread[t], m_in_use, m_low_watermark)

Attended ==
    \/ outstanding_flush \/ trim \/ m_cache_check_state = 2 \/ receiving # {}
    \/ \E t \in Threads : WillCheck(t)

RestInv ==
    m_max_use = MaxUse => AboveLow /\ (m_exceeded_max_size /\ dirty # None => Attended)
-----------------------------------------------------------------------------
(* Blocks, and what a thread has of them *)

LEMMA BlockFacts ==
    /\ IsFiniteSet(Peers) /\ None \in Blocks
    /\ \A a \in Blocks : a \in [Peers -> Int] /\ Size(a) \in Nat
    /\ Size(None) = 0
<1>1. IsFiniteSet(Peers)
  BY BufferAssumption DEF BufferAssumption
<1>2. None \in Blocks
  BY DEF None, Blocks
<1>3. ASSUME NEW a \in Blocks
      PROVE  a \in [Peers -> Int] /\ Size(a) \in Nat
  <2>1. a \in [Peers -> Nat]
    BY DEF Blocks
  <2>2. SumFunction(a) \in Nat
    BY <1>1, <2>1, SumNat
  <2> QED
    BY <2>1, <2>2 DEF Size
<1>4. Size(None) = 0
  <2>1. None \in [Peers -> Int] /\ \A p \in Peers : None[p] = 0
    BY DEF None
  <2> HIDE DEF None
  <2> QED
    BY <1>1, <2>1, SumZero DEF Size
<1> QED
  BY <1>1, <1>2, <1>3, <1>4

LEMMA PlusFacts ==
    ASSUME NEW a \in Blocks, NEW b \in Blocks
    PROVE  /\ Plus(a, b) \in Blocks /\ \A p \in Peers : Plus(a, b)[p] = a[p] + b[p]
           /\ Size(Plus(a, b)) = Size(a) + Size(b)
<1>1. Plus(a, b) \in Blocks /\ \A p \in Peers : Plus(a, b)[p] = a[p] + b[p]
  BY DEF Plus, Blocks
<1> HIDE DEF Plus
<1>2. IsFiniteSet(Peers) /\ a \in [Peers -> Int] /\ b \in [Peers -> Int] /\ Plus(a, b) \in [Peers -> Int]
  BY <1>1, BlockFacts
<1>3. SumFunction(Plus(a, b)) = SumFunction(a) + SumFunction(b)
  BY <1>1, <1>2, SumPlus
<1> QED
  BY <1>1, <1>3 DEF Size

LEMMA PartFacts ==
    ASSUME NEW a \in Blocks, NEW w \in Parts(a)
    PROVE  /\ w \in Blocks /\ Minus(a, w) \in Blocks
           /\ \A p \in Peers : Minus(a, w)[p] = a[p] - w[p]
           /\ Size(Minus(a, w)) = Size(a) - Size(w)
<1>1. Size(a) \in Nat
  BY BlockFacts
<1>2. w \in [Peers -> 0 .. Size(a)] /\ \A p \in Peers : w[p] <= a[p]
  BY DEF Parts
<1>3. w \in Blocks
  BY <1>1, <1>2 DEF Blocks
<1>4. Minus(a, w) \in Blocks /\ \A p \in Peers : Minus(a, w)[p] = a[p] - w[p]
  BY <1>2, <1>3 DEF Minus, Blocks
<1> HIDE DEF Minus
<1>5. /\ IsFiniteSet(Peers) /\ a \in [Peers -> Int] /\ w \in [Peers -> Int]
      /\ Minus(a, w) \in [Peers -> Int]
  BY <1>3, <1>4, BlockFacts
<1>6. \A p \in Peers : a[p] = w[p] + Minus(a, w)[p]
  BY <1>4, <1>5
<1>7. SumFunction(a) = SumFunction(w) + SumFunction(Minus(a, w))
  BY <1>5, <1>6, SumPlus
<1>8. Size(w) \in Nat /\ Size(Minus(a, w)) \in Nat
  BY <1>3, <1>4, BlockFacts
<1>9. Size(Minus(a, w)) = Size(a) - Size(w)
  <2> DEFINE x == Size(w)
             y == Size(Minus(a, w))
             z == Size(a)
  <2>1. x \in Nat /\ y \in Nat /\ z = x + y
    BY <1>7, <1>8 DEF Size
  <2> HIDE DEF x, y, z
  <2>2. y = z - x
    BY <2>1
  <2> QED
    BY <2>2 DEF x, y, z
<1> QED
  BY <1>3, <1>4, <1>9

(* One block more. *)
LEMMA OneMore ==
    ASSUME NEW a \in Blocks, NEW p \in Peers, NEW b, b = [a EXCEPT ![p] = a[p] + 1]
    PROVE  b \in Blocks /\ Size(b) = Size(a) + 1
<1>1. b \in Blocks /\ b[p] = a[p] + 1 /\ \A q \in Peers : q # p => b[q] = a[q]
  BY DEF Blocks
<1>2. IsFiniteSet(Peers) /\ a \in [Peers -> Int] /\ b \in [Peers -> Int]
  BY <1>1, BlockFacts
<1>3. SumFunction(b) = SumFunction(a) + b[p] - a[p]
  <2>1. ASSUME NEW f \in [Peers -> Int], NEW g \in [Peers -> Int], IsFiniteSet(Peers),
               \A q \in Peers : q # p => g[q] = f[q]
        PROVE  SumFunction(g) = SumFunction(f) + g[p] - f[p]
    BY ONLY <2>1, SumUpdate, p \in Peers
  <2> QED
    BY <1>1, <1>2, <2>1
<1>4. Size(a) \in Nat /\ a[p] \in Nat
  BY BlockFacts DEF Blocks
<1>5. Size(b) = Size(a) + b[p] - a[p]
  BY <1>3 DEF Size
<1>6. Size(b) = Size(a) + 1
  BY <1>1, <1>4, <1>5
<1> QED
  BY <1>1, <1>6

HeldOf(r) == Size(r.writes) + IF r.pc = "read" THEN r.read ELSE 0
OwedOf(r, p) == r.writes[p] + r.over[p]

LEMMA HeldFacts ==
    ASSUME NEW r \in ThreadStates
    PROVE  /\ HeldOf(r) \in Nat /\ \A p \in Peers : OwedOf(r, p) \in Nat
           /\ Size(r.writes) \in Nat /\ r.writes \in Blocks /\ r.over \in Blocks
<1>1. r.writes \in Blocks /\ r.over \in Blocks /\ r.read \in Nat
  BY DEF ThreadStates
<1>2. Size(r.writes) \in Nat
  BY <1>1, BlockFacts
<1> QED
  BY <1>1, <1>2 DEF HeldOf, OwedOf, Blocks

(* One thread goes on: the sums change by what it has. *)
LEMMA ThreadGoes ==
    ASSUME thread \in [Threads -> ThreadStates], NEW t \in Threads, NEW r \in ThreadStates,
           Goes(t, r)
    PROVE  /\ thread' \in [Threads -> ThreadStates]
           /\ thread'[t] = r /\ \A u \in Threads : u # t => thread'[u] = thread[u]
           /\ SumFunction(Held) \in Nat /\ HeldOf(thread[t]) <= SumFunction(Held)
           /\ SumFunction(Held') = SumFunction(Held) + HeldOf(r) - HeldOf(thread[t])
           /\ \A p \in Peers :
                 /\ SumFunction(Owed(p)) \in Nat
                 /\ SumFunction(Owed(p)') = SumFunction(Owed(p)) + OwedOf(r, p) - OwedOf(thread[t], p)
<1>1. /\ thread' \in [Threads -> ThreadStates]
      /\ thread'[t] = r /\ \A u \in Threads : u # t => thread'[u] = thread[u]
  BY DEF Goes
<1>2. IsFiniteSet(Threads)
  BY PressureAssumption DEF PressureAssumption
<1>3. Held = [u \in Threads |-> HeldOf(thread[u])] /\ Held' = [u \in Threads |-> HeldOf(thread'[u])]
  BY DEF Held, HeldOf, At
<1>4. Held \in [Threads -> Nat] /\ Held' \in [Threads -> Nat]
  <2>1. \A u \in Threads : HeldOf(thread[u]) \in Nat /\ HeldOf(thread'[u]) \in Nat
    BY <1>1, HeldFacts
  <2> HIDE DEF HeldOf
  <2> QED
    BY <1>3, <2>1
<1>5. /\ SumFunction(Held) \in Nat /\ HeldOf(thread[t]) <= SumFunction(Held)
      /\ SumFunction(Held') = SumFunction(Held) + HeldOf(r) - HeldOf(thread[t])
  <2> HIDE DEF HeldOf
  <2>1. SumFunction(Held) \in Nat /\ Held[t] <= SumFunction(Held)
    BY <1>2, <1>4, SumNat
  <2>2. Held[t] = HeldOf(thread[t]) /\ Held'[t] = HeldOf(r)
    BY <1>1, <1>3
  <2>3. Held \in [Threads -> Int] /\ Held' \in [Threads -> Int]
    BY <1>4
  <2>4. \A u \in Threads : u # t => Held'[u] = Held[u]
    BY <1>1, <1>3
  <2> HIDE DEF Held
  <2>5. SumFunction(Held') = SumFunction(Held) + Held'[t] - Held[t]
    BY <1>2, <2>3, <2>4, SumUpdate
  <2> QED
    BY <2>1, <2>2, <2>5
<1>6. ASSUME NEW p \in Peers
      PROVE  /\ SumFunction(Owed(p)) \in Nat
             /\ SumFunction(Owed(p)') = SumFunction(Owed(p)) + OwedOf(r, p) - OwedOf(thread[t], p)
  <2> DEFINE f == Owed(p)
             g == [u \in Threads |-> OwedOf(thread'[u], p)]
  <2>1. f = [u \in Threads |-> OwedOf(thread[u], p)] /\ Owed(p)' = g
    BY DEF Owed, OwedOf
  <2>2. \A u \in Threads : OwedOf(thread[u], p) \in Nat /\ OwedOf(thread'[u], p) \in Nat
    BY <1>1, HeldFacts
  <2> HIDE DEF OwedOf, Owed
  <2>3. f \in [Threads -> Nat] /\ g \in [Threads -> Nat]
    BY <2>1, <2>2
  <2>4. f[t] = OwedOf(thread[t], p) /\ g[t] = OwedOf(r, p)
    BY <1>1, <2>1
  <2>5. \A u \in Threads : u # t => g[u] = f[u]
    BY <1>1, <2>1
  <2> HIDE DEF f, g
  <2>6. SumFunction(f) \in Nat
    BY <1>2, <2>3, SumNat
  <2>7. f \in [Threads -> Int] /\ g \in [Threads -> Int]
    BY <2>3
  <2>8. SumFunction(g) = SumFunction(f) + g[t] - f[t]
    BY <1>2, <2>5, <2>7, SumUpdate
  <2> QED
    BY <2>1, <2>4, <2>6, <2>8 DEF f
<1> QED
  BY <1>1, <1>5, <1>6

-----------------------------------------------------------------------------
(* The pool *)

(* num_to_evict on numbers. *)
EvictNumber(use, max, low, observers, needed, exceeded) ==
    LET target == max - observers * 2
        excess == IF ~ exceeded THEN 0 ELSE use - (IF target < low THEN target ELSE low)
        wanted == Max({excess, use + needed - max, 0})
    IN  IF wanted > use THEN use ELSE wanted

LEMMA EvictArith ==
    ASSUME NEW use \in Nat, NEW max \in Nat, NEW low \in Nat, NEW observers \in Nat,
           NEW needed \in Nat, NEW exceeded \in BOOLEAN, NEW n,
           n = EvictNumber(use, max, low, observers, needed, exceeded)
    PROVE  n \in Nat /\ n <= use /\ (exceeded => use - n <= low)
<1> DEFINE target == max - observers * 2
           excess == IF ~ exceeded THEN 0 ELSE use - (IF target < low THEN target ELSE low)
           S == {excess, use + needed - max, 0}
           wanted == Max(S)
<1>1. target \in Int
  OBVIOUS
<1>2. excess \in Int /\ (exceeded => excess >= use - low)
  BY <1>1
<1>3. n = IF wanted > use THEN use ELSE wanted
  BY DEF EvictNumber
<1> HIDE DEF target, excess
<1>4. wanted \in S /\ \A y \in S : wanted >= y
  <2>1. \E x \in S : \A y \in S : x >= y
    BY <1>2
  <2>2. wanted = CHOOSE x \in S : \A y \in S : x >= y
    BY DEF Max
  <2> HIDE DEF S, wanted
  <2> QED
    BY <2>1, <2>2
<1> HIDE DEF wanted
<1>5. wanted \in Nat /\ wanted >= excess
  BY <1>2, <1>4
<1> QED
  BY <1>2, <1>3, <1>5

LEMMA LowFacts ==
    ASSUME NEW max \in Nat
    PROVE  /\ LowWatermark(max) \in Nat /\ LowWatermark(max) <= max
           /\ LowWatermark(max) = 0 \/ max - LowWatermark(max) >= 2
BY BufferAssumption DEF BufferAssumption, LowWatermark

LEMMA NumFacts ==
    ASSUME BufferTypes, NEW k \in Nat
    PROVE  /\ NumToEvict(k) \in Nat /\ NumToEvict(k) <= m_in_use
           /\ m_exceeded_max_size => m_in_use - NumToEvict(k) <= m_low_watermark
<1>1. m_in_use \in Nat /\ m_max_use \in Nat /\ m_low_watermark \in Nat /\ m_exceeded_max_size \in BOOLEAN
  BY LowFacts DEF BufferTypes
<1>2. SumFunction(m_observers) \in Nat
  BY BlockFacts DEF BufferTypes, Size
<1>3. NumToEvict(k) = EvictNumber(m_in_use, m_max_use, m_low_watermark,
                                     SumFunction(m_observers), k, m_exceeded_max_size)
  BY DEF NumToEvict, EvictNumber
<1> QED
  BY <1>1, <1>2, <1>3, EvictArith

LEMMA NumFactsNext ==
    ASSUME BufferTypes'
    PROVE  /\ NumToEvict(0)' \in Nat /\ NumToEvict(0)' <= m_in_use'
           /\ m_exceeded_max_size' => m_in_use' - NumToEvict(0)' <= m_low_watermark'
<1>1. m_in_use' \in Nat /\ m_max_use' \in Nat /\ m_low_watermark' \in Nat /\ m_exceeded_max_size' \in BOOLEAN
  BY LowFacts DEF BufferTypes
<1>2. SumFunction(m_observers') \in Nat
  BY BlockFacts DEF BufferTypes, Size
<1>3. NumToEvict(0)' = EvictNumber(m_in_use', m_max_use', m_low_watermark',
                                     SumFunction(m_observers'), 0, m_exceeded_max_size')
  BY DEF NumToEvict, EvictNumber
<1> QED
  BY <1>1, <1>2, <1>3, EvictArith

(* A peer that is on the list, or whose call is due. *)
Known(p) == m_observers[p] > 0 \/ \E i \in DOMAIN posted : p \in posted[i]
ListUsed == ~ m_exceeded_max_size => m_observers = NoObservers

(* Buffers are given back: nobody who waits is lost, and the limit stays   *)
(* exceeded only above the watermark.                                      *)
LEMMA Frees ==
    ASSUME BufferTypes, NEW n \in Nat, n <= m_in_use, FreeSome(n)
    PROVE  /\ BufferTypes' /\ m_in_use' = m_in_use - n
           /\ m_max_use' = m_max_use /\ m_low_watermark' = m_low_watermark /\ trim' = trim
           /\ m_exceeded_max_size' => m_exceeded_max_size
           /\ n > 0 /\ m_exceeded_max_size' => m_in_use' > m_low_watermark'
           /\ \A p \in Peers : Known(p) => Known(p)'
           /\ ListUsed => ListUsed'
<1>1. CASE n = 0
  <2>1. UNCHANGED bufferVars
    BY <1>1 DEF FreeSome
  <2> QED
    BY <1>1, <2>1 DEF bufferVars, BufferTypes, Known, ListUsed
<1>2. CASE n # 0
  <2> DEFINE low == m_exceeded_max_size /\ m_in_use - n <= m_low_watermark
             called == {p \in Peers : m_observers[p] > 0}
  <2>1. /\ m_in_use' = m_in_use - n
        /\ m_exceeded_max_size' = (m_exceeded_max_size /\ ~ low)
        /\ m_observers' = IF low THEN NoObservers ELSE m_observers
        /\ posted' = IF low THEN Append(posted, called) ELSE posted
        /\ m_max_use' = m_max_use /\ m_low_watermark' = m_low_watermark /\ trim' = trim
    BY <1>2 DEF FreeSome, Free
  <2>2. m_in_use \in Nat /\ m_low_watermark \in Nat /\ posted \in Seq(SUBSET Peers)
    BY LowFacts DEF BufferTypes
  <2>3. m_exceeded_max_size' \in BOOLEAN /\ (m_exceeded_max_size' => m_exceeded_max_size)
    BY <2>1
  <2>4. m_in_use' \in Nat
    BY <2>1, <2>2
  <2>5. m_exceeded_max_size' => m_in_use' > m_low_watermark'
    <3> SUFFICES ASSUME m_exceeded_max_size' PROVE m_in_use' > m_low_watermark'
      OBVIOUS
    <3>1. ~ (m_in_use - n <= m_low_watermark)
      BY <2>1
    <3> QED
      BY <2>1, <2>2, <3>1
  <2>6. m_observers' \in Blocks /\ posted' \in Seq(SUBSET Peers)
    <3>1. NoObservers \in Blocks /\ m_observers \in Blocks
      BY DEF NoObservers, Blocks, BufferTypes
    <3>2. called \in SUBSET Peers
      OBVIOUS
    <3> HIDE DEF called, low
    <3>3. Append(posted, called) \in Seq(SUBSET Peers)
      BY <2>2, <3>2
    <3> QED
      BY <2>1, <2>2, <3>1, <3>3
  <2>7. BufferTypes'
    BY <2>1, <2>3, <2>4, <2>6 DEF BufferTypes
  <2>8. ASSUME NEW p \in Peers, Known(p)
        PROVE  Known(p)'
    <3>1. CASE low
      <4>1. posted' = Append(posted, called)
        BY <2>1, <3>1
      <4>2. CASE m_observers[p] > 0
        <5>1. p \in called
          BY <4>2
        <5> HIDE DEF called, low
        <5>2. Len(posted) + 1 \in DOMAIN posted' /\ posted'[Len(posted) + 1] = called
          BY <2>2, <4>1
        <5> QED
          BY <5>1, <5>2 DEF Known
      <4>3. CASE \E i \in DOMAIN posted : p \in posted[i]
        <5>1. PICK i \in DOMAIN posted : p \in posted[i]
          BY <4>3
        <5> HIDE DEF called, low
        <5>2. i \in DOMAIN posted' /\ posted'[i] = posted[i]
          BY <2>2, <4>1
        <5> QED
          BY <5>1, <5>2 DEF Known
      <4> QED
        BY <2>8, <4>2, <4>3 DEF Known
    <3>2. CASE ~ low
      BY <2>1, <2>8, <3>2 DEF Known
    <3> QED
      BY <3>1, <3>2
  <2>9. ListUsed => ListUsed'
    <3>1. CASE low
      BY <2>1, <3>1 DEF ListUsed, NoObservers
    <3>2. CASE ~ low
      <4> HIDE DEF low
      <4> QED
        BY <2>1, <3>2 DEF ListUsed, NoObservers
    <3> QED
      BY <3>1, <3>2
  <2> QED
    BY <2>1, <2>3, <2>5, <2>7, <2>8, <2>9
<1> QED
  BY <1>1, <1>2

(* Buffers are taken. *)
LEMMA Allocates ==
    ASSUME BufferTypes, NEW n \in Nat, n > 0, NEW ok \in BOOLEAN, Allocate(n, ok),
           m_observers' \in Blocks
    PROVE  /\ BufferTypes' /\ m_in_use' = m_in_use + IF ok THEN n ELSE 0
           /\ m_max_use' = m_max_use /\ m_low_watermark' = m_low_watermark /\ posted' = posted
           /\ m_exceeded_max_size => m_exceeded_max_size'
           /\ trim => trim'
           /\ ok /\ AboveLow => AboveLow'
<1> DEFINE mark == m_low_watermark + (m_max_use - m_low_watermark) \div 2
           last == IF ok THEN m_in_use + n ELSE m_in_use + n - 1
           over == ~ ok \/ (last > m_in_use /\ last >= mark)
<1>1. /\ m_in_use' = IF ok THEN last ELSE m_in_use
      /\ m_exceeded_max_size' = (m_exceeded_max_size \/ over)
      /\ trim' = (trim \/ ~ ok \/ (over /\ ~ m_exceeded_max_size))
      /\ m_max_use' = m_max_use /\ m_low_watermark' = m_low_watermark /\ posted' = posted
  BY DEF Allocate
<1>2. m_in_use \in Nat /\ m_max_use \in Nat
  BY DEF BufferTypes
<1>3. /\ m_low_watermark \in Nat /\ m_low_watermark <= m_max_use
      /\ m_low_watermark = 0 \/ m_max_use - m_low_watermark >= 2
  BY <1>2, LowFacts DEF BufferTypes
<1>4. m_in_use' = m_in_use + IF ok THEN n ELSE 0
  BY <1>1, <1>2
<1>5. /\ m_exceeded_max_size' \in BOOLEAN /\ trim' \in BOOLEAN
      /\ m_exceeded_max_size => m_exceeded_max_size'
      /\ trim => trim'
  <2> HIDE DEF over
  <2> QED
    BY <1>1
<1>6. BufferTypes'
  BY <1>1, <1>2, <1>4, <1>5 DEF BufferTypes
<1>7. ASSUME ok, AboveLow, m_exceeded_max_size'
      PROVE  m_in_use' > m_low_watermark'
  <2>1. CASE m_exceeded_max_size
    BY <1>1, <1>2, <1>3, <1>4, <1>7, <2>1 DEF AboveLow
  <2>2. CASE ~ m_exceeded_max_size
    <3>1. over
      <4> HIDE DEF over
      <4> QED
        BY <1>1, <1>7, <2>2
    <3>2. m_in_use + n >= mark
      BY <1>7, <3>1
    <3>3. mark > m_low_watermark \/ m_low_watermark = 0
      BY <1>2, <1>3
    <3>4. mark \in Nat
      BY <1>2, <1>3
    <3> HIDE DEF mark
    <3> QED
      BY <1>1, <1>2, <1>3, <1>4, <1>7, <3>2, <3>3, <3>4
  <2> QED
    BY <2>1, <2>2
<1> QED
  BY <1>1, <1>4, <1>5, <1>6, <1>7 DEF AboveLow
-----------------------------------------------------------------------------
(* The parts of the invariant *)

(* What is in the cache and in the hands of one thread is part of what is  *)
(* in use.                                                                 *)
LEMMA PartsOfUse ==
    ASSUME PressureTypes, BuffersAgree
    PROVE  /\ clean + lent <= m_in_use
           /\ \A t \in Threads : clean + lent + HeldOf(thread[t]) <= m_in_use
<1>1. IsFiniteSet(Threads)
  BY PressureAssumption DEF PressureAssumption
<1>2. Held = [u \in Threads |-> HeldOf(thread[u])]
  BY DEF Held, HeldOf, At
<1>3. \A u \in Threads : HeldOf(thread[u]) \in Nat
  BY HeldFacts DEF PressureTypes, ThreadTypes
<1> HIDE DEF HeldOf
<1>4. Held \in [Threads -> Nat] /\ \A t \in Threads : Held[t] = HeldOf(thread[t])
  BY <1>2, <1>3
<1> HIDE DEF Held
<1>5. SumFunction(Held) \in Nat /\ \A t \in Threads : Held[t] <= SumFunction(Held)
  BY <1>1, <1>4, SumNat
<1>6. Size(dirty) \in Nat /\ clean \in Nat /\ pinned \in Nat /\ lent \in Nat /\ m_in_use \in Nat
  BY BlockFacts DEF PressureTypes, CacheTypes, BufferTypes
<1>7. clean + lent + SumFunction(Held) <= m_in_use
  BY <1>5, <1>6 DEF BuffersAgree
<1>8. clean + lent <= m_in_use
  BY <1>5, <1>6, <1>7
<1>9. ASSUME NEW t \in Threads PROVE clean + lent + HeldOf(thread[t]) <= m_in_use
  <2>1. HeldOf(thread[t]) \in Nat /\ HeldOf(thread[t]) <= SumFunction(Held)
    BY <1>3, <1>4, <1>5
  <2> QED
    BY <1>5, <1>6, <1>7, <2>1
<1> QED
  BY <1>8, <1>9

LEMMA ThreadKeeps ==
    ASSUME ThreadTypes, NEW t \in Threads, NEW r \in ThreadStates, Sound(r), Goes(t, r),
           m_cache_check_state' \in 0 .. 2
    PROVE  ThreadTypes'
<1>1. /\ thread' \in [Threads -> ThreadStates]
      /\ thread'[t] = r /\ \A u \in Threads : u # t => thread'[u] = thread[u]
  BY DEF ThreadTypes, Goes
<1>2. \A u \in Threads : Sound(thread'[u])
  BY <1>1 DEF ThreadTypes
<1> QED
  BY <1>1, <1>2 DEF ThreadTypes, Sound

(* The books balance when what the thread takes and gives does. *)
LEMMA Balance ==
    ASSUME PressureTypes, BuffersAgree, WritesAccounted,
           NEW t \in Threads, NEW r \in ThreadStates, Goes(t, r),
           BufferTypes', CacheTypes', outstanding_writing' = outstanding_writing,
           m_in_use' - Size(dirty') - clean' - pinned' - lent' - HeldOf(r)
             = m_in_use - Size(dirty) - clean - pinned - lent - HeldOf(thread[t]),
           \A p \in Peers : dirty'[p] + completions'[p] + OwedOf(r, p)
                            = dirty[p] + completions[p] + OwedOf(thread[t], p)
    PROVE  BuffersAgree' /\ WritesAccounted'
<1>1. thread \in [Threads -> ThreadStates]
  BY DEF PressureTypes, ThreadTypes
<1>2. /\ SumFunction(Held) \in Nat
      /\ SumFunction(Held') = SumFunction(Held) + HeldOf(r) - HeldOf(thread[t])
      /\ \A p \in Peers :
            /\ SumFunction(Owed(p)) \in Nat
            /\ SumFunction(Owed(p)') = SumFunction(Owed(p)) + OwedOf(r, p) - OwedOf(thread[t], p)
  BY <1>1, ThreadGoes
<1>3. /\ HeldOf(r) \in Nat /\ HeldOf(thread[t]) \in Nat
      /\ \A p \in Peers : OwedOf(r, p) \in Nat /\ OwedOf(thread[t], p) \in Nat
  BY <1>1, HeldFacts
<1>4. /\ Size(dirty) \in Nat /\ clean \in Nat /\ pinned \in Nat /\ lent \in Nat /\ m_in_use \in Nat
      /\ Size(dirty') \in Nat /\ clean' \in Nat /\ pinned' \in Nat /\ lent' \in Nat /\ m_in_use' \in Nat
  BY BlockFacts DEF PressureTypes, CacheTypes, BufferTypes
<1>5. BuffersAgree'
  <2> HIDE DEF HeldOf
  <2>1. m_in_use' = Size(dirty') + clean' + pinned' + lent' + SumFunction(Held')
    BY <1>2, <1>3, <1>4 DEF BuffersAgree
  <2> QED
    BY <2>1 DEF BuffersAgree, Size
<1>6. ASSUME NEW p \in Peers
      PROVE  outstanding_writing'[p] = dirty'[p] + completions'[p] + SumFunction(Owed(p)')
  <2>1. /\ outstanding_writing[p] \in Nat /\ dirty[p] \in Nat /\ completions[p] \in Nat
        /\ dirty'[p] \in Nat /\ completions'[p] \in Nat
    BY DEF PressureTypes, CacheTypes, Blocks
  <2>2. outstanding_writing[p] = dirty[p] + completions[p] + SumFunction(Owed(p))
    BY DEF WritesAccounted
  <2> HIDE DEF OwedOf
  <2> QED
    BY <1>2, <1>3, <2>1, <2>2
<1>7. WritesAccounted'
  BY <1>6 DEF WritesAccounted
<1> QED
  BY <1>5, <1>7

IsChecking(r) == r.pc = "again" \/ r.then # "level"

(* At most one thread checks when one that begins finds the state idle,    *)
(* and one that ends leaves it so.                                         *)
LEMMA CheckerKeeps ==
    ASSUME ThreadTypes, CheckerInv, NEW t \in Threads, NEW r \in ThreadStates, Goes(t, r),
           \/ /\ IsChecking(r) <=> IsChecking(thread[t])
              /\ m_cache_check_state' = 0 <=> m_cache_check_state = 0
           \/ /\ ~ IsChecking(r) /\ IsChecking(thread[t])
              /\ m_cache_check_state' = 0
           \/ /\ IsChecking(r)
              /\ m_cache_check_state = 0 /\ m_cache_check_state' # 0
    PROVE  CheckerInv'
<1>1. thread'[t] = r /\ \A u \in Threads : u # t => thread'[u] = thread[u]
  BY DEF ThreadTypes, Goes
<1>2. \A u \in Threads : Checking(u) <=> IsChecking(thread[u])
  BY DEF Checking, IsChecking, At
<1>3. \A u \in Threads : Checking(u)' <=> IsChecking(thread'[u])
  BY DEF Checking, IsChecking, At
<1>4. Checking(t)' <=> IsChecking(r)
  BY <1>1, <1>3
<1>5. \A u \in Threads : u # t => (Checking(u)' <=> Checking(u))
  BY <1>1, <1>2, <1>3
<1>6. /\ \A u, v \in Threads : Checking(u) /\ Checking(v) => u = v
      /\ m_cache_check_state = 0 <=> \A u \in Threads : ~ Checking(u)
  BY DEF CheckerInv
<1>7. Checking(t) <=> IsChecking(thread[t])
  BY <1>2
<1> HIDE DEF Checking, IsChecking
<1>8. \A u, v \in Threads : Checking(u)' /\ Checking(v)' => u = v
  BY <1>4, <1>5, <1>6, <1>7
<1>9. m_cache_check_state' = 0 <=> \A u \in Threads : ~ Checking(u)'
  BY <1>4, <1>5, <1>6, <1>7
<1> QED
  BY <1>8, <1>9 DEF CheckerInv

LEMMA WaitersKeep ==
    ASSUME CacheTypes, WaitersAreKnown, bw_disk' = bw_disk, outstanding_writing' = outstanding_writing,
           receiving' = receiving, \A p \in Peers : Known(p) => Known(p)', ListUsed => ListUsed'
    PROVE  WaitersAreKnown'
<1>1. ListUsed /\ \A p \in bw_disk : outstanding_writing[p] > 0 /\ Known(p) /\ p \in Peers
  BY DEF WaitersAreKnown, ListUsed, Known, CacheTypes
<1>2. ListUsed' /\ \A p \in bw_disk' : outstanding_writing'[p] > 0 /\ Known(p)'
  BY <1>1
<1>3. \A x \in receiving' : x.exceeded => Known(x.peer)'
  <2>1. \A x \in receiving : x.peer \in Peers /\ (x.exceeded => Known(x.peer))
    BY DEF WaitersAreKnown, Known, CacheTypes
  <2> HIDE DEF Known
  <2> QED
    BY <2>1
<1> QED
  BY <1>2, <1>3 DEF WaitersAreKnown, ListUsed, Known
-----------------------------------------------------------------------------
(* check_cache_level *)

(* What the check leaves the thread with: it has ended, or the thread      *)
(* writes blocks that were dirty.                                          *)
Takes(t, rec, r) ==
    /\ Goes(t, r) /\ Sound(r) /\ r.over = rec.over
    /\ r.pc # "read"
    /\ dirty' \in Blocks /\ Size(dirty') = Size(dirty) - Size(r.writes)
    /\ \A p \in Peers : dirty'[p] = dirty[p] - r.writes[p]

Ends(state, r) ==
    /\ m_cache_check_state' = state - 1 /\ dirty' = dirty
    /\ r.then = "level" /\ r.pc = IF state = 1 THEN "done" ELSE "again"

WritesRest(state, r) ==
    /\ m_cache_check_state' = state
    /\ r.pc = "write" /\ r.then = "end" /\ dirty' = None

Writes(state, rec, r) ==
    /\ m_cache_check_state' = state
    /\ r.pc = "write"
    /\ \/ r.then = "end" /\ dirty' = None
       \/ r.then = "second" /\ r.need = rec.need - Size(r.writes)

Levels(t, r) ==
    /\ ~ Checking(t) /\ m_cache_check_state' = m_cache_check_state /\ dirty' = dirty
    /\ r.then = "level" /\ r.pc = "level"

NothingToDo(t, rec) == rec.need = 0 \/ Writing \ {t} # {} \/ dirty = None

(* Another record of a thread, field by field. *)
LEMMA EndRecord ==
    ASSUME NEW rec \in ThreadStates, NEW pc \in {"done", "again"}, NEW r,
           r = [rec EXCEPT !.pc = pc, !.then = "level", !.need = 0]
    PROVE  /\ r \in ThreadStates
           /\ r.pc = pc /\ r.writes = rec.writes /\ r.then = "level" /\ r.over = rec.over
<1>1. r = [pc |-> pc, writes |-> rec.writes, then |-> "level", read |-> rec.read, need |-> 0,
           over |-> rec.over]
  BY DEF ThreadStates
<1> QED
  BY <1>1 DEF ThreadStates

WriteRecord(rec, w, then, need) ==
    [rec EXCEPT !.pc = "write", !.writes = w, !.then = then, !.need = need]

LEMMA WriteFields ==
    ASSUME NEW rec \in ThreadStates, NEW w \in Blocks, NEW then \in {"second", "end"},
           NEW need \in Int, NEW r, r = WriteRecord(rec, w, then, need)
    PROVE  /\ r \in ThreadStates
           /\ r.pc = "write" /\ r.writes = w /\ r.then = then /\ r.need = need /\ r.over = rec.over
<1>1. r = [pc |-> "write", writes |-> w, then |-> then, read |-> rec.read, need |-> need,
           over |-> rec.over]
  BY DEF ThreadStates, WriteRecord
<1> QED
  BY <1>1 DEF ThreadStates

LEMMA EndGoes ==
    ASSUME dirty \in Blocks, dirty' = dirty, NEW t, NEW state \in 1 .. 2,
           NEW rec \in ThreadStates, rec.writes = None, EndCheck(t, state, rec)
    PROVE  \E r \in ThreadStates : Takes(t, rec, r) /\ Ends(state, r)
<1> DEFINE r == [rec EXCEPT !.pc = IF state = 1 THEN "done" ELSE "again", !.then = "level", !.need = 0]
<1>1. /\ r \in ThreadStates /\ r.writes = None /\ r.over = rec.over /\ r.then = "level"
      /\ r.pc = IF state = 1 THEN "done" ELSE "again"
  <2> DEFINE pc == IF state = 1 THEN "done" ELSE "again"
  <2>1. pc \in {"done", "again"} /\ r = [rec EXCEPT !.pc = pc, !.then = "level", !.need = 0]
    OBVIOUS
  <2> HIDE DEF pc, r
  <2>2. r \in ThreadStates /\ r.pc = pc /\ r.writes = rec.writes /\ r.then = "level" /\ r.over = rec.over
    BY ONLY <2>1, rec \in ThreadStates, EndRecord, ZenonT(30)
  <2> QED
    BY <2>2 DEF pc
<1>2. Goes(t, r) /\ m_cache_check_state' = state - 1
  BY DEF EndCheck
<1> HIDE DEF r
<1>3. Sound(r)
  BY <1>1 DEF Sound
<1>4. \A p \in Peers : None[p] = 0 /\ dirty[p] \in Nat
  BY DEF None, Blocks
<1>5. Size(None) = 0 /\ Size(dirty) \in Nat
  BY BlockFacts
<1>6. Takes(t, rec, r)
  BY <1>1, <1>2, <1>3, <1>4, <1>5 DEF Takes
<1>7. Ends(state, r)
  BY <1>1, <1>2 DEF Ends
<1> QED
  BY <1>1, <1>6, <1>7

LEMMA SecondGoes ==
    ASSUME dirty \in Blocks, NEW t, NEW state \in 1 .. 2,
           NEW rec \in ThreadStates, rec.writes = None, SecondRound(t, state, rec)
    PROVE  \E r \in ThreadStates :
              Takes(t, rec, r) /\ ((Ends(state, r) /\ NothingToDo(t, rec)) \/ WritesRest(state, r))
<1>1. CASE NothingToDo(t, rec)
  <2>1. EndCheck(t, state, rec) /\ dirty' = dirty
    BY <1>1 DEF SecondRound, NothingToDo
  <2> QED
    BY <1>1, <2>1, EndGoes
<1>2. CASE ~ NothingToDo(t, rec)
  <2> DEFINE r == [rec EXCEPT !.pc = "write", !.writes = dirty, !.then = "end", !.need = 0]
  <2>1. dirty' = None /\ Goes(t, r) /\ m_cache_check_state' = state
    BY <1>2 DEF SecondRound, NothingToDo
  <2>2. /\ r \in ThreadStates /\ r.writes = dirty /\ r.over = rec.over /\ r.then = "end"
        /\ r.pc = "write"
    <3>1. r = WriteRecord(rec, dirty, "end", 0)
      BY DEF WriteRecord
    <3> HIDE DEF r
    <3> QED
      BY <3>1, WriteFields
  <2> HIDE DEF r
  <2>3. Sound(r)
    BY <2>2 DEF Sound
  <2>4. \A p \in Peers : None[p] = 0 /\ dirty[p] \in Nat
    BY DEF None, Blocks
  <2>5. Size(None) = 0 /\ None \in Blocks /\ Size(dirty) \in Nat
    BY BlockFacts
  <2>6. Takes(t, rec, r)
    BY <2>1, <2>2, <2>3, <2>4, <2>5 DEF Takes
  <2>7. WritesRest(state, r)
    BY <2>1, <2>2 DEF WritesRest
  <2> QED
    BY <2>2, <2>6, <2>7
<1> QED
  BY <1>1, <1>2

(* The check frees what is clean; what it then needs is what the pool is   *)
(* above its watermark.                                                    *)
LEMMA CheckGoes ==
    ASSUME PressureTypes, BuffersAgree, NEW t \in Threads, thread[t].pc \in {"level", "again"},
           NEW state \in 1 .. 2, CheckCacheLevel(t, state)
    PROVE  \E evict \in Nat, rec \in ThreadStates, r \in ThreadStates :
              /\ evict <= clean /\ clean' = clean - evict
              /\ evict <= m_in_use /\ FreeSome(evict)
              /\ rec.writes = None /\ rec.over = thread[t].over
              /\ Takes(t, rec, r)
              /\ (Ends(state, r) /\ NothingToDo(t, rec)) \/ Writes(state, rec, r)
              /\ m_exceeded_max_size' /\ AboveLow =>
                    rec.need # 0 /\ m_in_use' - rec.need <= m_low_watermark'
<1> DEFINE evict == IF UseReadCache THEN Evicted(NumToEvict(0)) ELSE clean
           need == IF UseReadCache THEN NumToEvict(0) - evict ELSE NumToEvict(0)'
           rec == [thread[t] EXCEPT !.need = need]
<1>1. /\ FreeSome(evict) /\ clean' = clean - evict
      /\ \/ (rec.need = 0 \/ Writing # {}) /\ EndCheck(t, state, rec) /\ dirty' = dirty
         \/ SecondRound(t, state, rec)
         \/ \E w \in Parts(dirty) \ {None} :
               /\ dirty' = Minus(dirty, w)
               /\ Goes(t, [rec EXCEPT !.pc = "write", !.writes = w, !.then = "second",
                                      !.need = @ - Size(w)])
               /\ m_cache_check_state' = state
  BY DEF CheckCacheLevel
<1>2. thread[t] \in ThreadStates /\ Sound(thread[t]) /\ dirty \in Blocks /\ clean \in Nat /\ BufferTypes
  BY DEF PressureTypes, ThreadTypes, CacheTypes
<1>3. thread[t].writes = None
  BY <1>2 DEF Sound
<1>4. clean <= m_in_use /\ m_in_use \in Nat
  <2>1. clean + lent + HeldOf(thread[t]) <= m_in_use
    BY PartsOfUse
  <2>2. HeldOf(thread[t]) \in Nat /\ lent \in Nat /\ m_in_use \in Nat
    BY <1>2, HeldFacts DEF PressureTypes, CacheTypes, BufferTypes
  <2> QED
    BY <1>2, <2>1, <2>2
<1>5. /\ NumToEvict(0) \in Nat /\ NumToEvict(0) <= m_in_use
      /\ m_exceeded_max_size => m_in_use - NumToEvict(0) <= m_low_watermark
  BY <1>2, NumFacts
<1>6. evict \in Nat /\ evict <= clean /\ evict <= m_in_use /\ (UseReadCache => evict <= NumToEvict(0))
  BY <1>2, <1>4, <1>5 DEF Evicted
<1> HIDE DEF evict
<1>7. /\ BufferTypes' /\ m_in_use' = m_in_use - evict
      /\ m_low_watermark' = m_low_watermark
      /\ m_exceeded_max_size' => m_exceeded_max_size
      /\ evict > 0 /\ m_exceeded_max_size' => m_in_use' > m_low_watermark'
  BY <1>1, <1>2, <1>6, Frees
<1>8. /\ NumToEvict(0)' \in Nat /\ NumToEvict(0)' <= m_in_use'
      /\ m_exceeded_max_size' => m_in_use' - NumToEvict(0)' <= m_low_watermark'
  BY <1>7, NumFactsNext
<1>9. need \in Nat
  BY <1>5, <1>6, <1>8
<1>10. m_low_watermark \in Nat
  BY <1>2, LowFacts DEF BufferTypes
<1>11. ASSUME m_exceeded_max_size', AboveLow
       PROVE  need # 0 /\ m_in_use' - need <= m_low_watermark'
  <2>1. m_in_use > m_low_watermark
    BY <1>7, <1>11 DEF AboveLow
  <2>2. m_in_use' > m_low_watermark'
    BY <1>4, <1>6, <1>7, <1>10, <1>11, <2>1
  <2>3. m_in_use' - need <= m_low_watermark'
    <3>1. CASE UseReadCache
      <4>1. need = NumToEvict(0) - evict
        BY <3>1
      <4>2. m_in_use - NumToEvict(0) <= m_low_watermark
        BY <1>5, <1>7, <1>11
      <4> HIDE DEF need
      <4> QED
        BY <1>4, <1>5, <1>6, <1>7, <1>10, <4>1, <4>2
    <3>2. CASE ~ UseReadCache
      <4>1. need = NumToEvict(0)'
        BY <3>2
      <4> HIDE DEF need
      <4> QED
        BY <1>8, <1>11, <4>1
    <3> QED
      BY <3>1, <3>2
  <2> HIDE DEF need
  <2>4. need # 0
    BY <1>4, <1>6, <1>7, <1>9, <1>10, <2>2, <2>3
  <2> QED
    BY <2>3, <2>4
<1> HIDE DEF need
<1>12. /\ rec \in ThreadStates /\ rec.writes = None /\ rec.over = thread[t].over
       /\ rec.need = need /\ rec.read = thread[t].read
  BY <1>2, <1>3, <1>9 DEF ThreadStates
<1> HIDE DEF rec
<1>13. \E r \in ThreadStates :
          Takes(t, rec, r) /\ ((Ends(state, r) /\ NothingToDo(t, rec)) \/ Writes(state, rec, r))
  <2>1. CASE (rec.need = 0 \/ Writing # {}) /\ EndCheck(t, state, rec) /\ dirty' = dirty
    <3>1. t \notin Writing
      BY DEF Writing, At
    <3>2. NothingToDo(t, rec)
      BY <2>1, <3>1 DEF NothingToDo
    <3> QED
      BY <1>2, <1>12, <2>1, <3>2, EndGoes
  <2>2. CASE SecondRound(t, state, rec)
    BY <1>2, <1>12, <2>2, SecondGoes DEF WritesRest, Writes
  <2>3. ASSUME NEW w \in Parts(dirty) \ {None},
               dirty' = Minus(dirty, w),
               Goes(t, [rec EXCEPT !.pc = "write", !.writes = w, !.then = "second",
                                   !.need = @ - Size(w)]),
               m_cache_check_state' = state
        PROVE  \E r \in ThreadStates : Takes(t, rec, r) /\ Writes(state, rec, r)
    <3> DEFINE r == [rec EXCEPT !.pc = "write", !.writes = w, !.then = "second",
                                !.need = @ - Size(w)]
    <3>1. w \in Blocks /\ Size(w) \in Nat
      BY <1>2, PartFacts, BlockFacts
    <3>2. /\ Minus(dirty, w) \in Blocks
          /\ \A p \in Peers : Minus(dirty, w)[p] = dirty[p] - w[p]
          /\ Size(Minus(dirty, w)) = Size(dirty) - Size(w)
      BY <1>2, PartFacts
    <3>3. /\ r \in ThreadStates /\ r.writes = w /\ r.over = rec.over /\ r.then = "second"
          /\ r.pc = "write" /\ r.need = rec.need - Size(w)
      <4> DEFINE rest == rec.need - Size(w)
      <4>1. rest \in Int
        BY <1>9, <1>12, <3>1
      <4>2. r = WriteRecord(rec, w, "second", rest)
        BY DEF WriteRecord
      <4> HIDE DEF r, rest
      <4>3. /\ r \in ThreadStates /\ r.writes = w /\ r.over = rec.over /\ r.then = "second"
            /\ r.pc = "write" /\ r.need = rest
        <5>1. rec \in ThreadStates /\ w \in Blocks
          BY <1>12, <3>1
        <5> QED
          BY ONLY <4>1, <4>2, <5>1, WriteFields
      <4> QED
        BY <4>3 DEF rest
    <3>4. Goes(t, r)
      BY <2>3
    <3> HIDE DEF r
    <3>5. Sound(r)
      BY <3>3 DEF Sound
    <3>6. Takes(t, rec, r)
      BY <2>3, <3>2, <3>3, <3>4, <3>5 DEF Takes
    <3>7. Writes(state, rec, r)
      BY <2>3, <3>3 DEF Writes
    <3> QED
      BY <3>3, <3>6, <3>7
  <2> QED
    BY <1>1, <2>1, <2>2, <2>3
<1>14. PICK r \in ThreadStates :
          Takes(t, rec, r) /\ ((Ends(state, r) /\ NothingToDo(t, rec)) \/ Writes(state, rec, r))
  BY <1>13
<1>15. m_exceeded_max_size' /\ AboveLow => rec.need # 0 /\ m_in_use' - rec.need <= m_low_watermark'
  BY <1>11, <1>12
<1> QED
  BY <1>1, <1>6, <1>12, <1>14, <1>15

(* A step of the check keeps the invariant; the thread may have written    *)
(* blocks, which are clean now and whose jobs are over.                    *)
LEMMA CheckKeeps ==
    ASSUME PressureInv, NEW t \in Threads, NEW state \in 1 .. 2,
           NEW evict \in Nat, NEW rec \in ThreadStates, NEW r \in ThreadStates,
           thread[t].pc # "read",
           evict <= clean + Size(thread[t].writes),
           clean' = clean + Size(thread[t].writes) - evict,
           FreeSome(evict),
           \A p \in Peers : rec.over[p] = thread[t].over[p] + thread[t].writes[p],
           Takes(t, rec, r),
           \/ /\ (Checking(t) /\ state = m_cache_check_state) \/ m_cache_check_state = 0
              /\ Ends(state, r) \/ Writes(state, rec, r)
           \/ Levels(t, r),
           UNCHANGED <<peerVars, sendVars, outstanding_flush, completions>>
    PROVE  PressureInv'
<1>1. /\ PressureTypes /\ BufferTypes /\ CacheTypes /\ ThreadTypes
      /\ BuffersAgree /\ WritesAccounted /\ WaitersAreKnown /\ CheckerInv
      /\ thread[t] \in ThreadStates
  BY DEF PressureInv, PressureTypes, ThreadTypes
<1>2. /\ Size(thread[t].writes) \in Nat /\ thread[t].writes \in Blocks /\ thread[t].over \in Blocks
      /\ Size(r.writes) \in Nat /\ r.writes \in Blocks /\ r.over \in Blocks
  BY <1>1, HeldFacts
<1>3. HeldOf(thread[t]) = Size(thread[t].writes) /\ HeldOf(r) = Size(r.writes)
  BY <1>2 DEF HeldOf, Takes
<1>4. evict <= m_in_use
  <2>1. clean + lent + HeldOf(thread[t]) <= m_in_use
    BY <1>1, PartsOfUse
  <2>2. clean \in Nat /\ lent \in Nat /\ m_in_use \in Nat
    BY <1>1 DEF CacheTypes, BufferTypes
  <2> QED
    BY <1>2, <1>3, <2>1, <2>2
<1>5. /\ BufferTypes' /\ m_in_use' = m_in_use - evict
      /\ \A p \in Peers : Known(p) => Known(p)'
      /\ ListUsed => ListUsed'
  BY <1>1, <1>4, Frees
<1>6. /\ bw_disk' = bw_disk /\ outstanding_writing' = outstanding_writing /\ receiving' = receiving
      /\ pinned' = pinned /\ lent' = lent /\ completions' = completions
      /\ outstanding_flush' = outstanding_flush
  BY DEF peerVars, sendVars
<1>7. CacheTypes'
  <2>1. clean' \in Nat
    BY <1>1, <1>2 DEF CacheTypes
  <2> QED
    BY <1>1, <1>6, <2>1 DEF CacheTypes, Takes
<1>8. ThreadTypes'
  <2>1. m_cache_check_state' \in 0 .. 2
    BY <1>1 DEF Ends, Writes, Levels, ThreadTypes
  <2> QED
    BY <1>1, <2>1, ThreadKeeps DEF Takes
<1>9. BuffersAgree' /\ WritesAccounted'
  <2>1. Goes(t, r)
    BY DEF Takes
  <2>2. m_in_use' - Size(dirty') - clean' - pinned' - lent' - HeldOf(r)
          = m_in_use - Size(dirty) - clean - pinned - lent - HeldOf(thread[t])
    <3>1. Size(dirty') = Size(dirty) - Size(r.writes)
      BY DEF Takes
    <3>2. /\ Size(dirty) \in Nat /\ clean \in Nat /\ pinned \in Nat /\ lent \in Nat /\ m_in_use \in Nat
      BY <1>1, BlockFacts DEF CacheTypes, BufferTypes
    <3> DEFINE a == Size(r.writes)
               b == Size(thread[t].writes)
               d == Size(dirty)
    <3>3. a \in Nat /\ b \in Nat /\ d \in Nat
      BY <1>2, <3>2
    <3>4. /\ Size(dirty') = d - a /\ clean' = clean + b - evict /\ HeldOf(r) = a /\ HeldOf(thread[t]) = b
      BY <1>3, <3>1
    <3> HIDE DEF a, b, d, HeldOf
    <3>5. (m_in_use - evict) - (d - a) - (clean + b - evict) - pinned - lent - a
            = m_in_use - d - clean - pinned - lent - b
      BY <3>2, <3>3
    <3> QED
      BY <1>5, <1>6, <3>4, <3>5 DEF d
  <2>3. ASSUME NEW p \in Peers
        PROVE  dirty'[p] + completions'[p] + OwedOf(r, p) = dirty[p] + completions[p] + OwedOf(thread[t], p)
    <3>1. dirty'[p] = dirty[p] - r.writes[p] /\ r.over[p] = thread[t].over[p] + thread[t].writes[p]
      BY DEF Takes
    <3>2. /\ dirty[p] \in Nat /\ completions[p] \in Nat /\ r.writes[p] \in Nat
          /\ thread[t].over[p] \in Nat /\ thread[t].writes[p] \in Nat
      BY <1>1, <1>2 DEF CacheTypes, Blocks
    <3> QED
      BY <1>6, <3>1, <3>2 DEF OwedOf
  <2> QED
    BY <1>1, <1>5, <1>6, <1>7, <2>1, <2>2, <2>3, Balance
<1>10. CheckerInv'
  <2>1. Goes(t, r)
    BY DEF Takes
  <2>2. Checking(t) <=> IsChecking(thread[t])
    BY DEF Checking, IsChecking, At
  <2>3. CASE Levels(t, r)
    <3>1. ~ IsChecking(r) /\ ~ IsChecking(thread[t]) /\ m_cache_check_state' = m_cache_check_state
      BY <2>2, <2>3 DEF Levels, IsChecking
    <3> QED
      BY <1>1, <2>1, <3>1, CheckerKeeps
  <2>4. CASE /\ (Checking(t) /\ state = m_cache_check_state) \/ m_cache_check_state = 0
             /\ Ends(state, r) /\ state = 1
    <3>1. ~ IsChecking(r) /\ m_cache_check_state' = 0
      BY <2>4 DEF Ends, IsChecking
    <3>2. CASE m_cache_check_state = 0
      <4>1. ~ Checking(t)
        BY <1>1, <3>2 DEF CheckerInv
      <4> QED
        BY <1>1, <2>1, <2>2, <3>1, <3>2, <4>1, CheckerKeeps
    <3>3. CASE Checking(t)
      BY <1>1, <2>1, <2>2, <3>1, <3>3, CheckerKeeps
    <3> QED
      BY <2>4, <3>2, <3>3
  <2>5. CASE /\ (Checking(t) /\ state = m_cache_check_state) \/ m_cache_check_state = 0
             /\ (Ends(state, r) /\ state = 2) \/ Writes(state, rec, r)
    <3>1. IsChecking(r) /\ m_cache_check_state' # 0
      BY <2>5 DEF Ends, Writes, IsChecking
    <3> QED
      BY <1>1, <2>1, <2>2, <2>5, <3>1, CheckerKeeps
  <2> QED
    BY <2>3, <2>4, <2>5
<1>11. WaitersAreKnown'
  BY <1>1, <1>5, <1>6, WaitersKeep
<1> QED
  BY <1>5, <1>7, <1>8, <1>9, <1>10, <1>11 DEF PressureInv, PressureTypes

LEMMA CheckCacheLevelKeeps ==
    ASSUME PressureInv, NEW t \in Threads, NEW state \in 1 .. 2,
           \/ thread[t].pc = "level" /\ m_cache_check_state = 0
           \/ thread[t].pc = "again" /\ state = m_cache_check_state,
           CheckCacheLevel(t, state)
    PROVE  PressureInv'
<1>1. PressureTypes /\ BuffersAgree /\ thread[t] \in ThreadStates /\ Sound(thread[t])
  BY DEF PressureInv, PressureTypes, ThreadTypes
<1>2. thread[t].pc \in {"level", "again"} /\ thread[t].pc # "read" /\ thread[t].writes = None
  BY <1>1 DEF Sound
<1>3. PICK evict \in Nat, rec \in ThreadStates, r \in ThreadStates :
              /\ evict <= clean /\ clean' = clean - evict
              /\ evict <= m_in_use /\ FreeSome(evict)
              /\ rec.writes = None /\ rec.over = thread[t].over
              /\ Takes(t, rec, r)
              /\ (Ends(state, r) /\ NothingToDo(t, rec)) \/ Writes(state, rec, r)
  BY <1>1, <1>2, CheckGoes
<1>4. Size(thread[t].writes) = 0 /\ clean \in Nat
  BY <1>1, <1>2, BlockFacts DEF PressureTypes, CacheTypes
<1>5. evict <= clean + Size(thread[t].writes) /\ clean' = clean + Size(thread[t].writes) - evict
  BY <1>3, <1>4
<1>6. \A p \in Peers : rec.over[p] = thread[t].over[p] + thread[t].writes[p]
  <2>1. \A p \in Peers : thread[t].writes[p] = 0 /\ thread[t].over[p] \in Nat
    BY <1>1, <1>2 DEF None, ThreadStates, Blocks
  <2> QED
    BY <1>3, <2>1
<1>7. (Checking(t) /\ state = m_cache_check_state) \/ m_cache_check_state = 0
  BY DEF Checking, At
<1>8. UNCHANGED <<peerVars, sendVars, outstanding_flush, completions>>
  BY DEF CheckCacheLevel
<1> QED
  BY <1>2, <1>3, <1>5, <1>6, <1>7, <1>8, CheckKeeps

LEMMA MinFacts ==
    ASSUME NEW a \in Nat, NEW b \in Nat
    PROVE  Min({a, b}) \in {a, b} /\ Min({a, b}) <= a /\ Min({a, b}) <= b
<1> DEFINE S == {a, b}
<1>1. \E x \in S : \A y \in S : x <= y
  OBVIOUS
<1>2. Min(S) = CHOOSE x \in S : \A y \in S : x <= y
  BY DEF Min
<1> HIDE DEF S
<1>3. Min(S) \in S /\ \A y \in S : Min(S) <= y
  BY <1>1, <1>2
<1> QED
  BY <1>3 DEF S

(* What a thread does when its blocks were written. *)
WrittenFrees(t, evict, rec) ==
    /\ evict <= clean + Size(thread[t].writes)
    /\ clean' = clean + Size(thread[t].writes) - evict
    /\ evict = NumToEvict(0) \/ evict = clean + Size(thread[t].writes)
    /\ FreeSome(evict)
    /\ \A p \in Peers : rec.over[p] = thread[t].over[p] + thread[t].writes[p]
    /\ rec.need = thread[t].need

WrittenThen(t, rec, r) ==
    /\ Takes(t, rec, r)
    /\ \/ /\ Checking(t) /\ m_cache_check_state \in 1 .. 2
          /\ \/ thread[t].then = "end" /\ Ends(m_cache_check_state, r)
             \/ /\ thread[t].then = "second"
                /\ \/ Ends(m_cache_check_state, r) /\ NothingToDo(t, rec)
                   \/ WritesRest(m_cache_check_state, r)
       \/ Levels(t, r)

LEMMA WrittenGoes ==
    ASSUME PressureInv, NEW t \in Threads, Written(t)
    PROVE  \E evict \in Nat, rec \in ThreadStates, r \in ThreadStates :
              WrittenFrees(t, evict, rec) /\ WrittenThen(t, rec, r)
<1> DEFINE now == clean + Size(thread[t].writes)
           evict == Min({NumToEvict(0), now})
           rec == [thread[t] EXCEPT !.writes = None, !.over = Plus(@, thread[t].writes)]
<1>1. /\ PressureTypes /\ BufferTypes /\ CacheTypes /\ CheckerInv
      /\ thread[t] \in ThreadStates /\ Sound(thread[t]) /\ m_cache_check_state \in 0 .. 2
      /\ dirty \in Blocks
  BY DEF PressureInv, PressureTypes, ThreadTypes, CacheTypes
<1>2. /\ thread[t].pc = "written"
      /\ FreeSome(evict) /\ clean' = now - evict
      /\ CASE rec.then = "level"  -> /\ Goes(t, [rec EXCEPT !.pc = "level"])
                                     /\ UNCHANGED <<dirty, m_cache_check_state>>
           [] rec.then = "second" -> SecondRound(t, m_cache_check_state, rec)
           [] rec.then = "end"    -> EndCheck(t, m_cache_check_state, rec) /\ UNCHANGED dirty
  BY DEF Written, At
<1>3. /\ Size(thread[t].writes) \in Nat /\ thread[t].writes \in Blocks /\ thread[t].over \in Blocks
  BY <1>1, HeldFacts
<1>4. now \in Nat /\ NumToEvict(0) \in Nat
  BY <1>1, <1>3, NumFacts DEF CacheTypes
<1>5. evict \in Nat /\ evict <= now /\ (evict = NumToEvict(0) \/ evict = now)
  <2> HIDE DEF now
  <2> QED
    BY <1>4, MinFacts
<1>6. /\ rec \in ThreadStates /\ rec.writes = None /\ rec.need = thread[t].need
      /\ rec.then = thread[t].then
      /\ rec.over = Plus(thread[t].over, thread[t].writes) /\ rec.pc = "written"
  <2>1. Plus(thread[t].over, thread[t].writes) \in Blocks /\ None \in Blocks
    BY <1>3, PlusFacts, BlockFacts
  <2> HIDE DEF Plus, None
  <2> QED
    BY <1>1, <1>2, <2>1 DEF ThreadStates
<1>7. \A p \in Peers : rec.over[p] = thread[t].over[p] + thread[t].writes[p]
  BY <1>3, <1>6, PlusFacts
<1> HIDE DEF rec, evict, now
<1>8. ASSUME thread[t].then # "level"
      PROVE  Checking(t) /\ m_cache_check_state \in 1 .. 2
  <2>1. Checking(t)
    BY <1>8 DEF Checking
  <2>2. m_cache_check_state # 0
    BY <1>1, <2>1 DEF CheckerInv
  <2> QED
    BY <1>1, <2>1, <2>2
<1>9. ASSUME thread[t].then = "level" PROVE \E r \in ThreadStates : WrittenThen(t, rec, r)
  <2> DEFINE r == [rec EXCEPT !.pc = "level"]
  <2>1. Goes(t, r) /\ dirty' = dirty /\ m_cache_check_state' = m_cache_check_state
    BY <1>2, <1>6, <1>9
  <2>2. /\ r \in ThreadStates /\ r.pc = "level" /\ r.writes = None /\ r.over = rec.over
        /\ r.then = "level"
    BY <1>6, <1>9 DEF ThreadStates
  <2> HIDE DEF r
  <2>3. Sound(r)
    BY <2>2 DEF Sound
  <2>4. Takes(t, rec, r)
    <3>1. Size(None) = 0 /\ Size(dirty) \in Nat
      BY <1>1, BlockFacts
    <3>2. \A p \in Peers : None[p] = 0 /\ dirty[p] \in Nat
      BY <1>1 DEF None, Blocks
    <3> QED
      BY <1>1, <2>1, <2>2, <2>3, <3>1, <3>2 DEF Takes
  <2>5. Levels(t, r)
    BY <1>2, <1>9, <2>1, <2>2 DEF Levels, Checking, At
  <2> QED
    BY <2>2, <2>4, <2>5 DEF WrittenThen
<1>10. ASSUME thread[t].then = "second" PROVE \E r \in ThreadStates : WrittenThen(t, rec, r)
  <2>1. SecondRound(t, m_cache_check_state, rec)
    BY <1>2, <1>6, <1>10
  <2>2. Checking(t) /\ m_cache_check_state \in 1 .. 2
    BY <1>8, <1>10
  <2>3. PICK r \in ThreadStates :
              /\ Takes(t, rec, r)
              /\ \/ Ends(m_cache_check_state, r) /\ NothingToDo(t, rec)
                 \/ WritesRest(m_cache_check_state, r)
    BY <1>1, <1>6, <2>1, <2>2, SecondGoes
  <2> QED
    BY <1>10, <2>2, <2>3 DEF WrittenThen
<1>11. ASSUME thread[t].then = "end" PROVE \E r \in ThreadStates : WrittenThen(t, rec, r)
  <2>1. EndCheck(t, m_cache_check_state, rec) /\ dirty' = dirty
    BY <1>2, <1>6, <1>11
  <2>2. Checking(t) /\ m_cache_check_state \in 1 .. 2
    BY <1>8, <1>11
  <2>3. PICK r \in ThreadStates : Takes(t, rec, r) /\ Ends(m_cache_check_state, r)
    BY <1>1, <1>6, <2>1, <2>2, EndGoes
  <2> QED
    BY <1>11, <2>2, <2>3 DEF WrittenThen
<1>12. PICK r \in ThreadStates : WrittenThen(t, rec, r)
  BY <1>1, <1>9, <1>10, <1>11 DEF ThreadStates
<1>13. WrittenFrees(t, evict, rec)
  <2>1. /\ evict <= now /\ clean' = now - evict /\ (evict = NumToEvict(0) \/ evict = now)
        /\ FreeSome(evict)
    BY <1>2, <1>5
  <2>2. now = clean + Size(thread[t].writes)
    BY DEF now
  <2>3. /\ evict <= clean + Size(thread[t].writes)
        /\ clean' = clean + Size(thread[t].writes) - evict
    BY <1>1, <1>3, <1>5, <2>1, <2>2 DEF CacheTypes
  <2>4. evict = NumToEvict(0) \/ evict = clean + Size(thread[t].writes)
    BY <2>1, <2>2
  <2>5. rec.need = thread[t].need
    BY <1>6
  <2> QED
    BY <1>7, <2>1, <2>3, <2>4, <2>5 DEF WrittenFrees
<1> QED
  BY <1>5, <1>6, <1>12, <1>13

LEMMA WrittenKeeps ==
    ASSUME PressureInv, NEW t \in Threads, Written(t)
    PROVE  PressureInv'
<1>1. PICK evict \in Nat, rec \in ThreadStates, r \in ThreadStates :
         WrittenFrees(t, evict, rec) /\ WrittenThen(t, rec, r)
  BY WrittenGoes
<1>2. thread[t].pc # "read" /\ UNCHANGED <<peerVars, sendVars, outstanding_flush, completions>>
  BY DEF Written, At
<1>3. CASE Levels(t, r)
  <2>1. 1 \in 1 .. 2
    OBVIOUS
  <2> QED
    BY <1>1, <1>2, <1>3, <2>1, CheckKeeps DEF WrittenFrees, WrittenThen
<1>4. CASE /\ Checking(t) /\ m_cache_check_state \in 1 .. 2
           /\ Ends(m_cache_check_state, r) \/ Writes(m_cache_check_state, rec, r)
  BY <1>1, <1>2, <1>4, CheckKeeps DEF WrittenFrees, WrittenThen
<1> QED
  BY <1>1, <1>3, <1>4 DEF WrittenThen, WritesRest, Writes
-----------------------------------------------------------------------------
(* The network thread *)

LEMMA NetKeeps ==
    ASSUME PressureInv, thread' = thread, m_cache_check_state' = m_cache_check_state,
           BufferTypes', CacheTypes', WaitersAreKnown',
           m_in_use' - Size(dirty') - clean' - pinned' - lent'
             = m_in_use - Size(dirty) - clean - pinned - lent,
           \A p \in Peers : outstanding_writing'[p] - dirty'[p] - completions'[p]
                            = outstanding_writing[p] - dirty[p] - completions[p]
    PROVE  PressureInv'
<1>1. /\ PressureTypes /\ BufferTypes /\ CacheTypes /\ ThreadTypes
      /\ BuffersAgree /\ WritesAccounted /\ CheckerInv
  BY DEF PressureInv, PressureTypes
<1>2. IsFiniteSet(Threads)
  BY PressureAssumption DEF PressureAssumption
<1>3. \A u \in Threads : HeldOf(thread[u]) \in Nat /\ \A p \in Peers : OwedOf(thread[u], p) \in Nat
  BY <1>1, HeldFacts DEF ThreadTypes
<1>4. Held = [u \in Threads |-> HeldOf(thread[u])] /\ Held' = Held
  BY DEF Held, HeldOf, At
<1>5. \A p \in Peers : Owed(p) = [u \in Threads |-> OwedOf(thread[u], p)] /\ Owed(p)' = Owed(p)
  BY DEF Owed, OwedOf
<1> HIDE DEF HeldOf, OwedOf, Held, Owed
<1>6. SumFunction(Held) \in Nat
  <2>1. Held \in [Threads -> Nat]
    BY <1>3, <1>4
  <2> QED
    BY <1>2, <2>1, SumNat
<1>7. ASSUME NEW p \in Peers PROVE SumFunction(Owed(p)) \in Nat
  <2>1. Owed(p) \in [Threads -> Nat]
    BY <1>3, <1>5
  <2> QED
    BY <1>2, <2>1, SumNat
<1>8. /\ Size(dirty) \in Nat /\ clean \in Nat /\ pinned \in Nat /\ lent \in Nat /\ m_in_use \in Nat
      /\ Size(dirty') \in Nat /\ clean' \in Nat /\ pinned' \in Nat /\ lent' \in Nat /\ m_in_use' \in Nat
  BY <1>1, BlockFacts DEF CacheTypes, BufferTypes
<1>9. BuffersAgree'
  <2>1. m_in_use' = Size(dirty') + clean' + pinned' + lent' + SumFunction(Held)
    BY <1>1, <1>6, <1>8 DEF BuffersAgree
  <2> QED
    BY <1>4, <2>1 DEF BuffersAgree, Size
<1>10. ASSUME NEW p \in Peers
       PROVE  outstanding_writing'[p] = dirty'[p] + completions'[p] + SumFunction(Owed(p)')
  <2>1. /\ outstanding_writing[p] \in Nat /\ dirty[p] \in Nat /\ completions[p] \in Nat
        /\ outstanding_writing'[p] \in Nat /\ dirty'[p] \in Nat /\ completions'[p] \in Nat
    BY <1>1 DEF CacheTypes, Blocks
  <2>2. outstanding_writing[p] = dirty[p] + completions[p] + SumFunction(Owed(p))
    BY <1>1 DEF WritesAccounted
  <2>3. Owed(p)' = Owed(p) /\ SumFunction(Owed(p)) \in Nat
    BY <1>5, <1>7
  <2>4. outstanding_writing'[p] = dirty'[p] + completions'[p] + SumFunction(Owed(p))
    BY <2>1, <2>2, <2>3
  <2> QED
    BY <2>3, <2>4
<1>11. WritesAccounted'
  BY <1>10 DEF WritesAccounted
<1>12. ThreadTypes' /\ CheckerInv'
  BY <1>1 DEF ThreadTypes, Sound, CheckerInv, Checking, At
<1> QED
  BY <1>9, <1>11, <1>12 DEF PressureInv, PressureTypes

LEMMA IncomingPieceKeeps ==
    ASSUME PressureInv, NEW p \in Peers, IncomingPiece(p)
    PROVE  PressureInv'
<1>1. BufferTypes /\ CacheTypes /\ WaitersAreKnown
  BY DEF PressureInv, PressureTypes
<1>2. PICK ok \in AllocOutcomes :
          /\ AllocateFor(p, ok)
          /\ receiving' = IF ok THEN {[peer |-> p, exceeded |-> m_exceeded_max_size']} ELSE {}
          /\ lent' = IF ok THEN lent + 1 ELSE lent
  BY DEF IncomingPiece
<1>3. ok \in BOOLEAN
  BY PressureAssumption DEF PressureAssumption
<1>4. /\ bw_disk' = bw_disk /\ outstanding_writing' = outstanding_writing /\ dirty' = dirty
      /\ clean' = clean /\ pinned' = pinned /\ completions' = completions
      /\ outstanding_flush' = outstanding_flush
      /\ m_cache_check_state' = m_cache_check_state /\ thread' = thread
  BY DEF IncomingPiece
<1>5. /\ m_observers' \in Blocks
      /\ m_observers' = IF m_exceeded_max_size' THEN [m_observers EXCEPT ![p] = @ + 1] ELSE m_observers
  BY <1>1, <1>2 DEF AllocateFor, BufferTypes, Blocks
<1>6. /\ BufferTypes' /\ m_in_use' = m_in_use + IF ok THEN 1 ELSE 0
      /\ posted' = posted
      /\ m_exceeded_max_size => m_exceeded_max_size'
  <2>1. Allocate(1, ok) /\ 1 \in Nat /\ 1 > 0
    BY <1>2 DEF AllocateFor
  <2>2. m_observers' \in Blocks
    BY <1>5
  <2> QED
    BY <1>1, <1>3, <2>1, <2>2, Allocates
<1>7. m_observers \in Blocks /\ lent \in Nat
  BY <1>1 DEF CacheTypes, BufferTypes
<1>8. CacheTypes'
  <2>1. lent' \in Nat /\ (ok => lent' > 0)
    BY <1>2, <1>7
  <2>2. m_exceeded_max_size' \in BOOLEAN
    BY <1>6 DEF BufferTypes
  <2>3. receiving' \subseteq [peer : Peers, exceeded : BOOLEAN] /\ (receiving' # {} => ok)
    BY <1>2, <2>2
  <2> QED
    BY <1>1, <1>4, <2>1, <2>3 DEF CacheTypes
<1>9. WaitersAreKnown'
  <2>1. ASSUME NEW q \in bw_disk'
        PROVE  outstanding_writing'[q] > 0 /\ Known(q)'
    <3>1. q \in Peers
      BY <1>8, <2>1 DEF CacheTypes
    <3>2. /\ outstanding_writing[q] > 0
          /\ m_observers[q] > 0 \/ \E i \in DOMAIN posted : q \in posted[i]
      BY <1>1, <1>4, <2>1 DEF WaitersAreKnown
    <3>3. m_observers[q] > 0 => m_observers'[q] > 0
      BY <1>5, <1>7, <3>1 DEF Blocks
    <3> QED
      BY <1>4, <1>6, <3>2, <3>3 DEF Known
  <2>2. ListUsed'
    BY <1>1, <1>5, <1>6 DEF WaitersAreKnown, ListUsed, NoObservers
  <2>3. ASSUME NEW x \in receiving', x.exceeded
        PROVE  Known(x.peer)'
    <3>1. x = [peer |-> p, exceeded |-> m_exceeded_max_size']
      BY <1>2, <2>3
    <3>2. x.peer = p /\ m_exceeded_max_size'
      BY <2>3, <3>1
    <3>3. m_observers'[p] > 0
      BY <1>5, <1>7, <3>2 DEF Blocks
    <3> QED
      BY <3>2, <3>3 DEF Known
  <2> QED
    BY <2>1, <2>2, <2>3 DEF WaitersAreKnown, ListUsed, Known
<1>10. m_in_use' - Size(dirty') - clean' - pinned' - lent'
             = m_in_use - Size(dirty) - clean - pinned - lent
  <2>1. Size(dirty) \in Nat /\ clean \in Nat /\ pinned \in Nat /\ lent \in Nat /\ m_in_use \in Nat
    BY <1>1, BlockFacts DEF CacheTypes, BufferTypes
  <2>2. Size(dirty') = Size(dirty)
    BY <1>4
  <2> QED
    BY <1>2, <1>3, <1>4, <1>6, <2>1, <2>2
<1>11. \A q \in Peers : outstanding_writing'[q] - dirty'[q] - completions'[q]
                        = outstanding_writing[q] - dirty[q] - completions[q]
  BY <1>4
<1> QED
  BY <1>4, <1>6, <1>8, <1>9, <1>10, <1>11, NetKeeps

(* add_dirty_block evicts what is clean. *)
LEMMA AddDirtyBlockFrees ==
    ASSUME PressureInv, NEW p \in Peers, NEW exceeded \in BOOLEAN, AddDirtyBlock(p, exceeded)
    PROVE  \E n \in Nat : n <= clean /\ FreeSome(n) /\ clean' = clean - n
<1>1. BufferTypes /\ clean \in Nat
  BY DEF PressureInv, PressureTypes, CacheTypes
<1>2. NumToEvict(1) \in Nat
  BY <1>1, NumFacts
<1> DEFINE most == Min({NumToEvict(1), clean})
<1>3. most \in Nat /\ most <= clean
  BY <1>1, <1>2, MinFacts
<1>4. PICK n \in 0 .. most : FreeSome(n) /\ clean' = clean - n
  BY DEF AddDirtyBlock
<1> HIDE DEF most
<1>5. n \in Nat /\ n <= clean
  BY <1>1, <1>3
<1> QED
  BY <1>4, <1>5

LEMMA AddDirtyBlockKeeps ==
    ASSUME PressureInv, NEW p \in Peers, NEW exceeded \in BOOLEAN, AddDirtyBlock(p, exceeded)
    PROVE  PressureInv'
<1>1. PressureTypes /\ BuffersAgree /\ BufferTypes /\ CacheTypes /\ WaitersAreKnown
  BY DEF PressureInv, PressureTypes
<1>2. PICK n \in Nat : n <= clean /\ FreeSome(n) /\ clean' = clean - n
  BY AddDirtyBlockFrees
<1>3. /\ [peer |-> p, exceeded |-> exceeded] \in receiving
      /\ lent' = lent - 1
      /\ dirty' = [dirty EXCEPT ![p] = dirty[p] + 1]
      /\ outstanding_flush' = TRUE
      /\ bw_disk' = IF exceeded /\ outstanding_writing[p] > 0 THEN bw_disk \cup {p} ELSE bw_disk
      /\ outstanding_writing' = [outstanding_writing EXCEPT ![p] = outstanding_writing[p] + 1]
      /\ receiving' = {}
      /\ pinned' = pinned /\ completions' = completions
      /\ m_cache_check_state' = m_cache_check_state /\ thread' = thread
  BY DEF AddDirtyBlock
<1>4. /\ lent \in Nat /\ clean \in Nat /\ pinned \in Nat /\ m_in_use \in Nat
      /\ dirty \in Blocks /\ outstanding_writing \in Blocks
      /\ receiving # {} => lent > 0
  BY <1>1 DEF CacheTypes, BufferTypes
<1>5. n <= m_in_use
  <2>1. clean + lent <= m_in_use
    BY <1>1, PartsOfUse
  <2> QED
    BY <1>2, <1>4, <2>1
<1>6. /\ BufferTypes' /\ m_in_use' = m_in_use - n
      /\ (\A q \in Peers : Known(q) => Known(q)') /\ (ListUsed => ListUsed')
  BY <1>1, <1>2, <1>5, Frees
<1>7. dirty' \in Blocks /\ Size(dirty') = Size(dirty) + 1
  BY <1>3, <1>4, OneMore
<1>8. /\ outstanding_writing' \in Blocks
      /\ \A q \in Peers : outstanding_writing'[q] - dirty'[q] = outstanding_writing[q] - dirty[q]
      /\ \A q \in Peers : outstanding_writing[q] > 0 => outstanding_writing'[q] > 0
  BY <1>3, <1>4 DEF Blocks
<1>9. lent' \in Nat /\ clean' \in Nat
  BY <1>2, <1>3, <1>4
<1>10. CacheTypes'
  BY <1>1, <1>3, <1>7, <1>8, <1>9 DEF CacheTypes
<1>11. WaitersAreKnown'
  <2>1. ASSUME NEW q \in bw_disk'
        PROVE  outstanding_writing'[q] > 0 /\ Known(q)'
    <3>1. q \in Peers
      BY <1>10, <2>1 DEF CacheTypes
    <3>2. outstanding_writing[q] > 0 /\ Known(q)
      <4>1. CASE q \in bw_disk
        BY <1>1, <4>1 DEF WaitersAreKnown, Known
      <4>2. CASE q \notin bw_disk
        <5>1. q = p /\ exceeded /\ outstanding_writing[p] > 0
          BY <1>3, <2>1, <4>2
        <5>2. \A x \in receiving : x.exceeded => Known(x.peer)
          BY <1>1 DEF WaitersAreKnown, Known
        <5> HIDE DEF Known
        <5>3. Known(p)
          BY <1>3, <5>1, <5>2
        <5> QED
          BY <5>1, <5>3
      <4> QED
        BY <4>1, <4>2
    <3> HIDE DEF Known
    <3> QED
      BY <1>6, <1>8, <3>1, <3>2
  <2>2. ListUsed'
    BY <1>1, <1>6 DEF WaitersAreKnown, ListUsed
  <2> QED
    BY <1>3, <2>1, <2>2 DEF WaitersAreKnown, ListUsed, Known
<1>12. m_in_use' - Size(dirty') - clean' - pinned' - lent'
             = m_in_use - Size(dirty) - clean - pinned - lent
  <2>1. Size(dirty) \in Nat
    BY <1>4, BlockFacts
  <2> DEFINE d == Size(dirty)
             e == Size(dirty')
  <2>2. d \in Nat /\ e = d + 1
    BY <1>7, <2>1
  <2> HIDE DEF d, e
  <2>3. m_in_use' - e - clean' - pinned' - lent' = m_in_use - d - clean - pinned - lent
    BY <1>2, <1>3, <1>4, <1>6, <2>2
  <2> QED
    BY <2>3 DEF d, e
<1>13. \A q \in Peers : outstanding_writing'[q] - dirty'[q] - completions'[q]
                        = outstanding_writing[q] - dirty[q] - completions[q]
  BY <1>3, <1>8
<1> QED
  BY <1>3, <1>6, <1>10, <1>11, <1>12, <1>13, NetKeeps

LEMMA OnDiskWriteCompleteKeeps ==
    ASSUME PressureInv, NEW p \in Peers, OnDiskWriteComplete(p)
    PROVE  PressureInv'
<1>1. BufferTypes /\ CacheTypes /\ WaitersAreKnown /\ ThreadTypes /\ WritesAccounted
  BY DEF PressureInv, PressureTypes
<1>2. /\ completions[p] > 0
      /\ completions' = [completions EXCEPT ![p] = @ - 1]
      /\ outstanding_writing' = [outstanding_writing EXCEPT ![p] = @ - 1]
      /\ bw_disk' = IF outstanding_writing[p] = 1 THEN bw_disk \ {p} ELSE bw_disk
      /\ receiving' = {}
  BY DEF OnDiskWriteComplete, Between
<1>3. /\ UNCHANGED bufferVars
      /\ dirty' = dirty /\ clean' = clean /\ pinned' = pinned /\ lent' = lent
      /\ outstanding_flush' = outstanding_flush
      /\ m_cache_check_state' = m_cache_check_state /\ thread' = thread
  BY DEF OnDiskWriteComplete, cacheVars, sendVars
<1>4. BufferTypes'
  BY <1>1, <1>3 DEF BufferTypes, bufferVars
<1>5. completions \in Blocks /\ outstanding_writing \in Blocks /\ dirty \in Blocks
  BY <1>1 DEF CacheTypes
<1>6. outstanding_writing[p] > 0
  <2>1. IsFiniteSet(Threads)
    BY PressureAssumption DEF PressureAssumption
  <2>2. \A u \in Threads : OwedOf(thread[u], p) \in Nat
    BY <1>1, HeldFacts DEF ThreadTypes
  <2>3. Owed(p) = [u \in Threads |-> OwedOf(thread[u], p)]
    BY DEF Owed, OwedOf
  <2> HIDE DEF OwedOf, Owed
  <2>4. Owed(p) \in [Threads -> Nat]
    BY <2>2, <2>3
  <2>5. SumFunction(Owed(p)) \in Nat
    BY <2>1, <2>4, SumNat
  <2>6. outstanding_writing[p] = dirty[p] + completions[p] + SumFunction(Owed(p))
    BY <1>1 DEF WritesAccounted
  <2> QED
    BY <1>2, <1>5, <2>5, <2>6 DEF Blocks
<1>7. /\ completions' \in Blocks /\ outstanding_writing' \in Blocks
      /\ \A q \in Peers : outstanding_writing'[q] - dirty'[q] - completions'[q]
                          = outstanding_writing[q] - dirty[q] - completions[q]
  BY <1>2, <1>3, <1>5, <1>6 DEF Blocks
<1>8. CacheTypes'
  BY <1>1, <1>2, <1>3, <1>7 DEF CacheTypes
<1>9. WaitersAreKnown'
  <2>1. ASSUME NEW q \in bw_disk'
        PROVE  outstanding_writing'[q] > 0 /\ q \in bw_disk
    <3>1. q \in bw_disk /\ q \in Peers /\ (q = p => outstanding_writing[p] # 1)
      BY <1>1, <1>2, <2>1 DEF CacheTypes
    <3>2. outstanding_writing[q] > 0
      BY <1>1, <3>1 DEF WaitersAreKnown
    <3> QED
      BY <1>2, <1>5, <3>1, <3>2 DEF Blocks
  <2>2. m_observers' = m_observers /\ posted' = posted /\ m_exceeded_max_size' = m_exceeded_max_size
    BY <1>3 DEF bufferVars
  <2> QED
    BY <1>1, <1>2, <2>1, <2>2 DEF WaitersAreKnown, NoObservers
<1>10. m_in_use' - Size(dirty') - clean' - pinned' - lent'
             = m_in_use - Size(dirty) - clean - pinned - lent
  BY <1>3 DEF bufferVars
<1> QED
  BY <1>3, <1>4, <1>7, <1>8, <1>9, <1>10, NetKeeps

LEMMA WatermarkCallbackKeeps ==
    ASSUME PressureInv, WatermarkCallback
    PROVE  PressureInv'
<1>1. BufferTypes /\ CacheTypes /\ WaitersAreKnown
  BY DEF PressureInv, PressureTypes
<1>2. /\ posted # <<>> /\ posted' = Tail(posted) /\ bw_disk' = bw_disk \ Head(posted)
      /\ receiving' = {}
  BY DEF WatermarkCallback, Between
<1>3. /\ m_in_use' = m_in_use /\ m_max_use' = m_max_use /\ m_low_watermark' = m_low_watermark
      /\ m_exceeded_max_size' = m_exceeded_max_size /\ m_observers' = m_observers /\ trim' = trim
      /\ outstanding_writing' = outstanding_writing /\ completions' = completions
      /\ dirty' = dirty /\ clean' = clean /\ pinned' = pinned /\ lent' = lent
      /\ outstanding_flush' = outstanding_flush
      /\ m_cache_check_state' = m_cache_check_state /\ thread' = thread
  BY DEF WatermarkCallback, cacheVars, sendVars
<1>4. posted \in Seq(SUBSET Peers) /\ posted' \in Seq(SUBSET Peers)
  BY <1>1, <1>2 DEF BufferTypes
<1>5. BufferTypes'
  BY <1>1, <1>3, <1>4 DEF BufferTypes
<1>6. CacheTypes'
  BY <1>1, <1>2, <1>3 DEF CacheTypes
<1>7. WaitersAreKnown'
  <2>1. ASSUME NEW q \in bw_disk'
        PROVE  outstanding_writing'[q] > 0 /\ Known(q)'
    <3>1. q \in bw_disk /\ q \notin Head(posted)
      BY <1>2, <2>1
    <3>2. /\ outstanding_writing[q] > 0
          /\ m_observers[q] > 0 \/ \E i \in DOMAIN posted : q \in posted[i]
      BY <1>1, <3>1 DEF WaitersAreKnown
    <3>3. ASSUME NEW i \in DOMAIN posted, q \in posted[i]
          PROVE  \E j \in DOMAIN posted' : q \in posted'[j]
      <4>1. i \in 1 .. Len(posted) /\ i # 1
        BY <1>2, <1>4, <3>1, <3>3
      <4>2. i - 1 \in DOMAIN posted' /\ posted'[i - 1] = posted[i]
        BY <1>2, <1>4, <4>1
      <4> QED
        BY <3>3, <4>2
    <3> QED
      BY <1>3, <3>2, <3>3 DEF Known
  <2>2. ListUsed'
    BY <1>1, <1>3 DEF WaitersAreKnown, ListUsed, NoObservers
  <2> QED
    BY <1>2, <2>1, <2>2 DEF WaitersAreKnown, ListUsed, Known
<1>8. m_in_use' - Size(dirty') - clean' - pinned' - lent'
             = m_in_use - Size(dirty) - clean - pinned - lent
  BY <1>3
<1>9. \A q \in Peers : outstanding_writing'[q] - dirty'[q] - completions'[q]
                       = outstanding_writing[q] - dirty[q] - completions[q]
  BY <1>3
<1> QED
  BY <1>3, <1>5, <1>6, <1>7, <1>8, <1>9, NetKeeps
LEMMA DisconnectKeeps ==
    ASSUME PressureInv, NEW p \in Peers, Disconnect(p)
    PROVE  PressureInv'
<1>1. BufferTypes /\ CacheTypes /\ WaitersAreKnown
  BY DEF PressureInv, PressureTypes
<1>2. /\ bw_disk' = bw_disk \ {p} /\ receiving' = {}
      /\ m_in_use' = m_in_use /\ m_max_use' = m_max_use /\ m_low_watermark' = m_low_watermark
      /\ m_exceeded_max_size' = m_exceeded_max_size /\ m_observers' = m_observers /\ trim' = trim
      /\ posted' = posted
      /\ outstanding_writing' = outstanding_writing /\ completions' = completions
      /\ dirty' = dirty /\ clean' = clean /\ pinned' = pinned /\ lent' = lent
      /\ outstanding_flush' = outstanding_flush
      /\ m_cache_check_state' = m_cache_check_state /\ thread' = thread
  BY DEF Disconnect, Between, bufferVars, cacheVars, sendVars
<1>3. BufferTypes' /\ CacheTypes'
  BY <1>1, <1>2 DEF BufferTypes, CacheTypes
<1>4. WaitersAreKnown'
  BY <1>1, <1>2 DEF WaitersAreKnown, NoObservers
<1>5. /\ m_in_use' - Size(dirty') - clean' - pinned' - lent'
             = m_in_use - Size(dirty) - clean - pinned - lent
      /\ \A q \in Peers : outstanding_writing'[q] - dirty'[q] - completions'[q]
                          = outstanding_writing[q] - dirty[q] - completions[q]
  BY <1>2
<1> QED
  BY <1>2, <1>3, <1>4, <1>5, NetKeeps

(* A block is lent, or was sent; the rest stays. *)
LEMMA SendKeeps ==
    ASSUME PressureInv, BufferTypes', \A p \in Peers : Known(p) => Known(p)', ListUsed => ListUsed',
           UNCHANGED <<peerVars, dirty, outstanding_flush, completions, m_cache_check_state, thread>>,
           clean' \in Nat, pinned' \in Nat, lent' \in Nat,
           m_in_use' - clean' - pinned' - lent' = m_in_use - clean - pinned - lent,
           receiving = {} \/ lent' = lent
    PROVE  PressureInv'
<1>1. BufferTypes /\ CacheTypes /\ WaitersAreKnown
  BY DEF PressureInv, PressureTypes
<1>2. /\ bw_disk' = bw_disk /\ outstanding_writing' = outstanding_writing /\ completions' = completions
      /\ receiving' = receiving /\ dirty' = dirty /\ outstanding_flush' = outstanding_flush
      /\ m_cache_check_state' = m_cache_check_state /\ thread' = thread
  BY DEF peerVars
<1>3. CacheTypes'
  BY <1>1, <1>2 DEF CacheTypes
<1>4. WaitersAreKnown'
  BY <1>1, <1>2, WaitersKeep
<1>5. m_in_use' - Size(dirty') - clean' - pinned' - lent'
             = m_in_use - Size(dirty) - clean - pinned - lent
  <2> DEFINE d == Size(dirty)
  <2>1. d \in Nat /\ Size(dirty') = d
    BY <1>1, <1>2, BlockFacts DEF CacheTypes
  <2> DEFINE use == m_in_use'
             c == clean'
             k == pinned'
             l == lent'
  <2>2. /\ clean \in Nat /\ pinned \in Nat /\ lent \in Nat /\ m_in_use \in Nat
        /\ use \in Nat /\ c \in Nat /\ k \in Nat /\ l \in Nat
        /\ use - c - k - l = m_in_use - clean - pinned - lent
    BY <1>1 DEF CacheTypes, BufferTypes
  <2> HIDE DEF d, use, c, k, l
  <2>3. use - d - c - k - l = m_in_use - d - clean - pinned - lent
    BY ONLY <2>1, <2>2
  <2> QED
    BY <2>1, <2>3 DEF d, use, c, k, l
<1>6. \A q \in Peers : outstanding_writing'[q] - dirty'[q] - completions'[q]
                       = outstanding_writing[q] - dirty[q] - completions[q]
  BY <1>2
<1> QED
  BY <1>2, <1>3, <1>4, <1>5, <1>6, NetKeeps

LEMMA ReadHitKeeps ==
    ASSUME PressureInv, ReadHit
    PROVE  PressureInv'
<1>1. BufferTypes /\ CacheTypes
  BY DEF PressureInv, PressureTypes
<1>2. clean > 0 /\ clean' = clean - 1 /\ pinned' = pinned + 1 /\ lent' = lent /\ UNCHANGED bufferVars
  BY DEF ReadHit
<1>3. UNCHANGED <<peerVars, dirty, outstanding_flush, completions, m_cache_check_state, thread>>
  BY DEF ReadHit
<1>4. BufferTypes' /\ m_in_use' = m_in_use
  BY <1>1, <1>2 DEF BufferTypes, bufferVars
<1>5. (\A p \in Peers : Known(p) => Known(p)') /\ (ListUsed => ListUsed')
  BY <1>2 DEF bufferVars, Known, ListUsed, NoObservers
<1>6. /\ clean' \in Nat /\ pinned' \in Nat /\ lent' \in Nat
      /\ m_in_use' - clean' - pinned' - lent' = m_in_use - clean - pinned - lent
  BY <1>1, <1>2, <1>4 DEF CacheTypes, BufferTypes
<1> QED
  BY <1>2, <1>3, <1>4, <1>5, <1>6, SendKeeps

LEMMA SentKeeps ==
    ASSUME PressureInv, Sent
    PROVE  PressureInv'
<1>1. PressureTypes /\ BufferTypes /\ CacheTypes /\ BuffersAgree /\ ThreadTypes
  BY DEF PressureInv, PressureTypes
<1>2. /\ UNCHANGED <<peerVars, dirty, outstanding_flush, completions, m_cache_check_state, thread>>
      /\ receiving = {}
  BY DEF Sent, Between
<1>3. CASE pinned > 0 /\ pinned' = pinned - 1 /\ clean' = clean + 1 /\ UNCHANGED <<bufferVars, lent>>
  <2>1. BufferTypes' /\ m_in_use' = m_in_use
    BY <1>1, <1>3 DEF BufferTypes, bufferVars
  <2>2. (\A p \in Peers : Known(p) => Known(p)') /\ (ListUsed => ListUsed')
    BY <1>3 DEF bufferVars, Known, ListUsed, NoObservers
  <2>3. /\ clean' \in Nat /\ pinned' \in Nat /\ lent' \in Nat
        /\ m_in_use' - clean' - pinned' - lent' = m_in_use - clean - pinned - lent
    BY <1>1, <1>3, <2>1 DEF CacheTypes, BufferTypes
  <2> QED
    BY <1>2, <2>1, <2>2, <2>3, SendKeeps
<1>4. CASE lent > 0 /\ lent' = lent - 1 /\ Free(1) /\ UNCHANGED <<pinned, clean>>
  <2>1. lent \in Nat /\ clean \in Nat /\ pinned \in Nat /\ m_in_use \in Nat
    BY <1>1 DEF CacheTypes, BufferTypes
  <2>2. 1 <= m_in_use
    <3>1. clean + lent <= m_in_use
      BY <1>1, PartsOfUse
    <3> QED
      BY <1>4, <2>1, <3>1
  <2>3. FreeSome(1) /\ 1 \in Nat
    BY <1>4 DEF FreeSome
  <2>4. /\ BufferTypes' /\ m_in_use' = m_in_use - 1
        /\ (\A p \in Peers : Known(p) => Known(p)') /\ (ListUsed => ListUsed')
    BY <1>1, <2>2, <2>3, Frees
  <2>5. /\ clean' \in Nat /\ pinned' \in Nat /\ lent' \in Nat
        /\ m_in_use' - clean' - pinned' - lent' = m_in_use - clean - pinned - lent
    BY <1>4, <2>1, <2>4
  <2> QED
    BY <1>2, <2>4, <2>5, SendKeeps
<1> QED
  BY <1>3, <1>4 DEF Sent

LEMMA SetSettingsKeeps ==
    ASSUME PressureInv, NEW max \in Nat, SetSettings(max)
    PROVE  PressureInv'
<1>1. BufferTypes /\ CacheTypes
  BY DEF PressureInv, PressureTypes
<1>2. /\ m_max_use' = max /\ m_low_watermark' = LowWatermark(max)
      /\ m_exceeded_max_size' = (m_exceeded_max_size \/ m_in_use >= max)
      /\ trim' = (trim \/ (m_in_use >= max /\ ~ m_exceeded_max_size))
      /\ m_in_use' = m_in_use /\ m_observers' = m_observers /\ posted' = posted
      /\ clean' = clean /\ pinned' = pinned /\ lent' = lent
  BY DEF SetSettings, SetCacheSize, cacheVars, sendVars
<1>3. UNCHANGED <<peerVars, dirty, outstanding_flush, completions, m_cache_check_state, thread>>
  BY DEF SetSettings, cacheVars
<1>4. BufferTypes'
  <2>1. m_exceeded_max_size' \in BOOLEAN /\ trim' \in BOOLEAN
    BY <1>2
  <2> QED
    BY <1>1, <1>2, <2>1 DEF BufferTypes
<1>5. (\A p \in Peers : Known(p) => Known(p)') /\ (ListUsed => ListUsed')
  BY <1>2 DEF Known, ListUsed, NoObservers
<1>6. /\ clean' \in Nat /\ pinned' \in Nat /\ lent' \in Nat
      /\ m_in_use' - clean' - pinned' - lent' = m_in_use - clean - pinned - lent
  BY <1>1, <1>2 DEF CacheTypes
<1> QED
  BY <1>2, <1>3, <1>4, <1>5, <1>6, SendKeeps
-----------------------------------------------------------------------------
(* The disk threads *)

LEMMA GoesKeeps ==
    ASSUME PressureInv, NEW t \in Threads, NEW r \in ThreadStates, Sound(r), Goes(t, r),
           BufferTypes', CacheTypes', bw_disk' = bw_disk, outstanding_writing' = outstanding_writing,
           receiving' = receiving, \A p \in Peers : Known(p) => Known(p)', ListUsed => ListUsed',
           IsChecking(r) <=> IsChecking(thread[t]),
           m_cache_check_state' \in 0 .. 2, m_cache_check_state' = 0 <=> m_cache_check_state = 0,
           m_in_use' - Size(dirty') - clean' - pinned' - lent' - HeldOf(r)
             = m_in_use - Size(dirty) - clean - pinned - lent - HeldOf(thread[t]),
           \A p \in Peers : dirty'[p] + completions'[p] + OwedOf(r, p)
                            = dirty[p] + completions[p] + OwedOf(thread[t], p)
    PROVE  PressureInv'
<1>1. /\ PressureTypes /\ BufferTypes /\ CacheTypes /\ ThreadTypes
      /\ BuffersAgree /\ WritesAccounted /\ WaitersAreKnown /\ CheckerInv
  BY DEF PressureInv, PressureTypes
<1>2. ThreadTypes'
  BY <1>1, ThreadKeeps
<1>3. BuffersAgree' /\ WritesAccounted'
  BY <1>1, Balance
<1>4. CheckerInv'
  BY <1>1, CheckerKeeps
<1>5. WaitersAreKnown'
  BY <1>1, WaitersKeep
<1> QED
  BY <1>2, <1>3, <1>4, <1>5 DEF PressureInv, PressureTypes

(* The pool is left alone. *)
LEMMA PoolStays ==
    ASSUME BufferTypes, trim' \in BOOLEAN,
           UNCHANGED <<m_in_use, m_max_use, m_low_watermark, m_exceeded_max_size, m_observers, posted>>
    PROVE  /\ BufferTypes' /\ m_in_use' = m_in_use
           /\ \A p \in Peers : Known(p) => Known(p)'
           /\ ListUsed => ListUsed'
BY DEF BufferTypes, Known, ListUsed, NoObservers

LEMMA QuietFacts ==
    ASSUME BufferTypes, NEW n \in Nat, n > 0, NEW ok \in BOOLEAN, AllocateQuietly(n, ok)
    PROVE  /\ BufferTypes' /\ m_in_use' = m_in_use + IF ok THEN n ELSE 0
           /\ \A p \in Peers : Known(p) => Known(p)'
           /\ ListUsed => ListUsed'
           /\ m_max_use' = m_max_use /\ m_low_watermark' = m_low_watermark
           /\ trim => trim'
           /\ ok /\ AboveLow => AboveLow'
<1>1. Allocate(n, ok) /\ m_observers' = m_observers
  BY DEF AllocateQuietly
<1>2. m_observers' \in Blocks
  BY <1>1 DEF BufferTypes
<1>3. /\ BufferTypes' /\ m_in_use' = m_in_use + IF ok THEN n ELSE 0
      /\ m_max_use' = m_max_use /\ m_low_watermark' = m_low_watermark /\ posted' = posted
      /\ m_exceeded_max_size => m_exceeded_max_size'
      /\ trim => trim'
      /\ ok /\ AboveLow => AboveLow'
  BY <1>1, <1>2, Allocates
<1>4. (\A p \in Peers : Known(p) => Known(p)') /\ (ListUsed => ListUsed')
  BY <1>1, <1>3 DEF Known, ListUsed, NoObservers
<1> QED
  BY <1>3, <1>4

(* A thread at the beginning of a job. *)
LEMMA IdleFacts ==
    ASSUME PressureInv, NEW t \in Threads, At(t, "idle")
    PROVE  /\ thread[t] \in ThreadStates
           /\ HeldOf(thread[t]) = 0 /\ \A p \in Peers : OwedOf(thread[t], p) = 0
           /\ ~ IsChecking(thread[t])
<1>1. thread[t] \in ThreadStates /\ Sound(thread[t]) /\ thread[t].pc = "idle"
  BY DEF PressureInv, PressureTypes, ThreadTypes, At
<1>2. thread[t].writes = None /\ thread[t].over = None /\ thread[t].then = "level"
  BY <1>1 DEF Sound
<1>3. Size(None) = 0 /\ \A p \in Peers : None[p] = 0
  BY BlockFacts DEF None
<1> QED
  BY <1>1, <1>2, <1>3 DEF HeldOf, OwedOf, IsChecking

LEMMA IdleRecord ==
    /\ ThreadIdle \in ThreadStates
    /\ ThreadIdle.writes = None /\ ThreadIdle.over = None /\ ThreadIdle.then = "level"
    /\ ThreadIdle.pc = "idle"
<1>1. None \in Blocks
  BY BlockFacts
<1> HIDE DEF None
<1> QED
  BY <1>1 DEF ThreadIdle, ThreadStates

JobRecord(q, pc, w) == [q EXCEPT !.pc = pc, !.writes = w]
ReadRecord(q, pc, n) == [q EXCEPT !.pc = pc, !.read = n]

LEMMA JobFields ==
    ASSUME NEW q \in ThreadStates, NEW w \in Blocks, NEW pc \in {"level", "write"},
           NEW r, r = JobRecord(q, pc, w)
    PROVE  /\ r \in ThreadStates
           /\ r.pc = pc /\ r.writes = w /\ r.then = q.then /\ r.over = q.over
<1>1. r = [pc |-> pc, writes |-> w, then |-> q.then, read |-> q.read, need |-> q.need, over |-> q.over]
  BY DEF ThreadStates, JobRecord
<1> QED
  BY <1>1 DEF ThreadStates

LEMMA ReadFields ==
    ASSUME NEW q \in ThreadStates, NEW n \in Nat, NEW pc \in {"alloc", "uncached", "read", "level"},
           NEW r, r = ReadRecord(q, pc, n)
    PROVE  /\ r \in ThreadStates
           /\ r.pc = pc /\ r.writes = q.writes /\ r.then = q.then /\ r.over = q.over /\ r.read = n
<1>1. r = [pc |-> pc, writes |-> q.writes, then |-> q.then, read |-> n, need |-> q.need, over |-> q.over]
  BY DEF ThreadStates, ReadRecord
<1> QED
  BY <1>1 DEF ThreadStates

LevelRecord(q) == [q EXCEPT !.pc = "level", !.read = 0]

LEMMA LevelFields ==
    ASSUME NEW q \in ThreadStates
    PROVE  /\ LevelRecord(q) \in ThreadStates
           /\ LevelRecord(q).pc = "level" /\ LevelRecord(q).writes = q.writes
           /\ LevelRecord(q).then = q.then /\ LevelRecord(q).over = q.over
<1>1. LevelRecord(q) = ReadRecord(q, "level", 0)
  BY DEF LevelRecord, ReadRecord
<1>2. ASSUME NEW pc \in {"level"}, NEW n \in {0}
      PROVE  /\ ReadRecord(q, pc, n) \in ThreadStates
             /\ ReadRecord(q, pc, n).pc = pc /\ ReadRecord(q, pc, n).writes = q.writes
             /\ ReadRecord(q, pc, n).then = q.then /\ ReadRecord(q, pc, n).over = q.over
  <2>1. pc \in {"alloc", "uncached", "read", "level"} /\ n \in Nat
    OBVIOUS
  <2> QED
    BY <2>1, ReadFields
<1> HIDE DEF LevelRecord, ReadRecord
<1> QED
  BY <1>1, <1>2

LEMMA PcFields ==
    ASSUME NEW q \in ThreadStates, NEW pc \in {"level", "uncached", "read", "written", "done"},
           NEW r, r = [q EXCEPT !.pc = pc]
    PROVE  /\ r \in ThreadStates
           /\ r.pc = pc /\ r.writes = q.writes /\ r.then = q.then /\ r.over = q.over
           /\ r.read = q.read /\ r.need = q.need
<1>1. r = [pc |-> pc, writes |-> q.writes, then |-> q.then, read |-> q.read, need |-> q.need,
           over |-> q.over]
  BY DEF ThreadStates
<1> QED
  BY <1>1 DEF ThreadStates

LEMMA FlushJobKeeps ==
    ASSUME PressureInv, NEW t \in Threads, FlushJob(t)
    PROVE  PressureInv'
<1>1. /\ BufferTypes /\ CacheTypes /\ ThreadTypes /\ dirty \in Blocks /\ trim \in BOOLEAN
  BY DEF PressureInv, PressureTypes, CacheTypes, BufferTypes
<1>2. /\ At(t, "idle") /\ outstanding_flush' = FALSE
      /\ UNCHANGED bufferVars
      /\ bw_disk' = bw_disk /\ outstanding_writing' = outstanding_writing /\ receiving' = receiving
      /\ clean' = clean /\ pinned' = pinned /\ lent' = lent /\ completions' = completions
      /\ m_cache_check_state' = m_cache_check_state
  BY DEF FlushJob, peerVars, sendVars
<1>3. PICK w \in Parts(dirty) :
          /\ dirty' = Minus(dirty, w)
          /\ Goes(t, [ThreadIdle EXCEPT !.pc = IF w = None THEN "level" ELSE "write", !.writes = w])
  BY DEF FlushJob
<1> DEFINE pc == IF w = None THEN "level" ELSE "write"
           r == [ThreadIdle EXCEPT !.pc = pc, !.writes = w]
<1>4. /\ w \in Blocks /\ Size(w) \in Nat /\ Size(dirty) \in Nat
      /\ dirty' \in Blocks /\ Size(dirty') = Size(dirty) - Size(w)
      /\ \A p \in Peers : dirty'[p] = dirty[p] - w[p]
  BY <1>1, <1>3, PartFacts, BlockFacts
<1>5. Goes(t, r)
  BY <1>3
<1>6. /\ r \in ThreadStates /\ r.pc = pc /\ r.writes = w /\ r.then = "level" /\ r.over = None
  <2>1. pc \in {"level", "write"}
    OBVIOUS
  <2>2. r = JobRecord(ThreadIdle, pc, w)
    BY DEF JobRecord
  <2> HIDE DEF r, pc
  <2>3. r \in ThreadStates /\ r.pc = pc /\ r.writes = w /\ r.then = ThreadIdle.then /\ r.over = ThreadIdle.over
    BY ONLY <1>4, <2>1, <2>2, IdleRecord, JobFields, SMTT(60)
  <2> QED
    BY <2>3, IdleRecord
<1> HIDE DEF r
<1>7. Sound(r) /\ ~ IsChecking(r) /\ r.pc # "read"
  BY <1>6 DEF Sound, IsChecking
<1>8. /\ HeldOf(r) = Size(w) /\ \A p \in Peers : OwedOf(r, p) = w[p]
  <2>1. \A p \in Peers : None[p] = 0 /\ w[p] \in Nat
    BY <1>4 DEF None, Blocks
  <2> QED
    BY <1>4, <1>6, <1>7, <2>1 DEF HeldOf, OwedOf
<1>9. /\ HeldOf(thread[t]) = 0 /\ \A p \in Peers : OwedOf(thread[t], p) = 0
      /\ ~ IsChecking(thread[t])
  BY <1>2, IdleFacts
<1>10. /\ BufferTypes' /\ m_in_use' = m_in_use
       /\ \A p \in Peers : Known(p) => Known(p)'
       /\ ListUsed => ListUsed'
  BY <1>1, <1>2, PoolStays DEF bufferVars
<1>11. CacheTypes'
  BY <1>1, <1>2, <1>4 DEF CacheTypes
<1>12. m_in_use' - Size(dirty') - clean' - pinned' - lent' - HeldOf(r)
         = m_in_use - Size(dirty) - clean - pinned - lent - HeldOf(thread[t])
  <2> DEFINE d == Size(dirty)
             s == Size(w)
  <2>1. /\ d \in Nat /\ s \in Nat /\ Size(dirty') = d - s /\ HeldOf(r) = s /\ HeldOf(thread[t]) = 0
    BY <1>4, <1>8, <1>9
  <2>2. m_in_use \in Nat /\ clean \in Nat /\ pinned \in Nat /\ lent \in Nat
    BY <1>1 DEF CacheTypes, BufferTypes
  <2> HIDE DEF d, s, HeldOf
  <2>3. m_in_use - (d - s) - clean - pinned - lent - s = m_in_use - d - clean - pinned - lent - 0
    BY <2>1, <2>2
  <2> QED
    BY <1>2, <1>10, <2>1, <2>3 DEF d
<1>13. ASSUME NEW p \in Peers
       PROVE  dirty'[p] + completions'[p] + OwedOf(r, p) = dirty[p] + completions[p] + OwedOf(thread[t], p)
  <2>1. dirty[p] \in Nat /\ w[p] \in Nat /\ completions[p] \in Nat
    BY <1>1, <1>4 DEF CacheTypes, Blocks
  <2> QED
    BY <1>2, <1>4, <1>8, <1>9, <2>1
<1>14. m_cache_check_state' \in 0 .. 2
  BY <1>1, <1>2 DEF ThreadTypes
<1> QED
  BY <1>2, <1>5, <1>6, <1>7, <1>9, <1>10, <1>11, <1>12, <1>13, <1>14, GoesKeeps

LEMMA TrimJobKeeps ==
    ASSUME PressureInv, NEW t \in Threads, TrimJob(t)
    PROVE  PressureInv'
<1>1. BufferTypes /\ CacheTypes /\ ThreadTypes
  BY DEF PressureInv, PressureTypes
<1>2. /\ At(t, "idle") /\ trim' = FALSE
      /\ UNCHANGED <<m_in_use, m_max_use, m_low_watermark, m_exceeded_max_size, m_observers, posted>>
      /\ bw_disk' = bw_disk /\ outstanding_writing' = outstanding_writing /\ receiving' = receiving
      /\ dirty' = dirty /\ clean' = clean /\ pinned' = pinned /\ lent' = lent
      /\ outstanding_flush' = outstanding_flush /\ completions' = completions
      /\ m_cache_check_state' = m_cache_check_state
  BY DEF TrimJob, peerVars, sendVars, cacheVars
<1> DEFINE r == [ThreadIdle EXCEPT !.pc = "level"]
<1>3. Goes(t, r)
  BY DEF TrimJob
<1>4. /\ r \in ThreadStates /\ r.pc = "level" /\ r.writes = None /\ r.then = "level" /\ r.over = None
  BY IdleRecord, PcFields
<1> HIDE DEF r
<1>5. /\ Sound(r) /\ ~ IsChecking(r) /\ HeldOf(r) = 0 /\ \A p \in Peers : OwedOf(r, p) = 0
  <2>1. Size(None) = 0 /\ \A p \in Peers : None[p] = 0
    BY BlockFacts DEF None
  <2> QED
    BY <1>4, <2>1 DEF Sound, IsChecking, HeldOf, OwedOf
<1>6. /\ HeldOf(thread[t]) = 0 /\ \A p \in Peers : OwedOf(thread[t], p) = 0
      /\ ~ IsChecking(thread[t])
  BY <1>2, IdleFacts
<1>7. /\ BufferTypes' /\ m_in_use' = m_in_use
      /\ \A p \in Peers : Known(p) => Known(p)'
      /\ ListUsed => ListUsed'
  BY <1>1, <1>2, PoolStays
<1>8. CacheTypes'
  BY <1>1, <1>2 DEF CacheTypes
<1>9. m_in_use' - Size(dirty') - clean' - pinned' - lent' - HeldOf(r)
         = m_in_use - Size(dirty) - clean - pinned - lent - HeldOf(thread[t])
  BY <1>2, <1>5, <1>6
<1>10. \A p \in Peers : dirty'[p] + completions'[p] + OwedOf(r, p)
                        = dirty[p] + completions[p] + OwedOf(thread[t], p)
  BY <1>2, <1>5, <1>6
<1>11. m_cache_check_state' \in 0 .. 2
  BY <1>1, <1>2 DEF ThreadTypes
<1> QED
  BY <1>2, <1>3, <1>4, <1>5, <1>6, <1>7, <1>8, <1>9, <1>10, <1>11, GoesKeeps

LEMMA ReadJobFrees ==
    ASSUME PressureInv, NEW t \in Threads, NEW n \in ReadSizes, ReadJob(t, n)
    PROVE  \E evict \in Nat : /\ evict <= clean /\ evict <= m_in_use
                              /\ FreeSome(evict) /\ clean' = clean - evict
<1>1. PressureTypes /\ BuffersAgree /\ BufferTypes /\ clean \in Nat /\ lent \in Nat /\ m_in_use \in Nat
  BY DEF PressureInv, PressureTypes, CacheTypes, BufferTypes
<1>2. n \in Nat
  BY PressureAssumption DEF PressureAssumption
<1>3. NumToEvict(n) \in Nat
  BY <1>1, <1>2, NumFacts
<1>4. Evicted(NumToEvict(n)) \in Nat /\ Evicted(NumToEvict(n)) <= clean
  BY <1>1, <1>3 DEF Evicted
<1>5. clean + lent <= m_in_use
  BY <1>1, PartsOfUse
<1> DEFINE e == Evicted(NumToEvict(n))
<1>6. FreeSome(e) /\ clean' = clean - e
  BY DEF ReadJob
<1> HIDE DEF e
<1>7. e \in Nat /\ e <= clean
  BY <1>4 DEF e
<1>8. e <= m_in_use
  BY <1>1, <1>5, <1>7
<1> QED
  BY <1>6, <1>7, <1>8

LEMMA ReadJobKeeps ==
    ASSUME PressureInv, NEW t \in Threads, NEW n \in ReadSizes, ReadJob(t, n)
    PROVE  PressureInv'
<1>1. BufferTypes /\ CacheTypes /\ ThreadTypes
  BY DEF PressureInv, PressureTypes
<1>2. /\ At(t, "idle")
      /\ bw_disk' = bw_disk /\ outstanding_writing' = outstanding_writing /\ receiving' = receiving
      /\ dirty' = dirty /\ pinned' = pinned /\ lent' = lent
      /\ outstanding_flush' = outstanding_flush /\ completions' = completions
      /\ m_cache_check_state' = m_cache_check_state
  BY DEF ReadJob, peerVars, sendVars
<1>3. PICK pc \in {"alloc", "uncached"} : Goes(t, [ThreadIdle EXCEPT !.pc = pc, !.read = n])
  BY DEF ReadJob
<1>4. n \in Nat /\ n > 0
  BY PressureAssumption DEF PressureAssumption
<1> DEFINE r == [ThreadIdle EXCEPT !.pc = pc, !.read = n]
<1>5. /\ r \in ThreadStates /\ r.pc = pc /\ r.writes = None /\ r.then = "level" /\ r.over = None
      /\ r.read = n
  <2>1. r = ReadRecord(ThreadIdle, pc, n)
    BY DEF ReadRecord
  <2> HIDE DEF r
  <2> QED
    BY <1>4, <2>1, IdleRecord, ReadFields
<1>6. Goes(t, r)
  BY <1>3
<1> HIDE DEF r
<1>7. /\ Sound(r) /\ ~ IsChecking(r) /\ HeldOf(r) = 0 /\ \A p \in Peers : OwedOf(r, p) = 0
  <2>1. Size(None) = 0 /\ \A p \in Peers : None[p] = 0
    BY BlockFacts DEF None
  <2> QED
    BY <1>4, <1>5, <2>1 DEF Sound, IsChecking, HeldOf, OwedOf
<1>8. /\ HeldOf(thread[t]) = 0 /\ \A p \in Peers : OwedOf(thread[t], p) = 0
      /\ ~ IsChecking(thread[t])
  BY <1>2, IdleFacts
<1>9. PICK evict \in Nat : /\ evict <= clean /\ evict <= m_in_use
                           /\ FreeSome(evict) /\ clean' = clean - evict
  BY ReadJobFrees
<1>10. /\ BufferTypes' /\ m_in_use' = m_in_use - evict
       /\ \A p \in Peers : Known(p) => Known(p)'
       /\ ListUsed => ListUsed'
  BY <1>1, <1>9, Frees
<1>11. CacheTypes'
  <2>1. clean' \in Nat
    BY <1>1, <1>9 DEF CacheTypes
  <2> QED
    BY <1>1, <1>2, <2>1 DEF CacheTypes
<1>12. m_in_use' - Size(dirty') - clean' - pinned' - lent' - HeldOf(r)
         = m_in_use - Size(dirty) - clean - pinned - lent - HeldOf(thread[t])
  <2> DEFINE d == Size(dirty)
  <2>1. d \in Nat /\ Size(dirty') = d
    BY <1>1, <1>2, BlockFacts DEF CacheTypes
  <2>2. m_in_use \in Nat /\ clean \in Nat /\ pinned \in Nat /\ lent \in Nat
    BY <1>1 DEF CacheTypes, BufferTypes
  <2> HIDE DEF d, HeldOf
  <2>3. (m_in_use - evict) - d - (clean - evict) - pinned - lent - 0
          = m_in_use - d - clean - pinned - lent - 0
    BY <2>1, <2>2
  <2> QED
    BY <1>2, <1>7, <1>8, <1>9, <1>10, <2>1, <2>3 DEF d
<1>13. \A p \in Peers : dirty'[p] + completions'[p] + OwedOf(r, p)
                        = dirty[p] + completions[p] + OwedOf(thread[t], p)
  BY <1>2, <1>7, <1>8
<1>14. m_cache_check_state' \in 0 .. 2
  BY <1>1, <1>2 DEF ThreadTypes
<1> QED
  BY <1>2, <1>5, <1>6, <1>7, <1>8, <1>10, <1>11, <1>12, <1>13, <1>14, GoesKeeps

(* The record of a thread that reads. *)
LEMMA ReadingFacts ==
    ASSUME PressureInv, NEW t \in Threads, thread[t].pc \in {"alloc", "uncached", "read"}
    PROVE  /\ thread[t] \in ThreadStates /\ Sound(thread[t])
           /\ thread[t].writes = None /\ thread[t].then = "level"
           /\ thread[t].over \in Blocks
           /\ thread[t].read \in Nat /\ thread[t].read > 0
           /\ HeldOf(thread[t]) = IF thread[t].pc = "read" THEN thread[t].read ELSE 0
           /\ ~ IsChecking(thread[t])
<1>1. thread[t] \in ThreadStates /\ Sound(thread[t])
  BY DEF PressureInv, PressureTypes, ThreadTypes
<1>2. /\ thread[t].writes = None /\ thread[t].then = "level" /\ thread[t].over \in Blocks
      /\ thread[t].read \in Nat /\ thread[t].read > 0
  BY <1>1 DEF Sound, ThreadStates
<1>3. Size(None) = 0
  BY BlockFacts
<1> QED
  BY <1>1, <1>2, <1>3 DEF HeldOf, IsChecking

LEMMA DoUncachedReadKeeps ==
    ASSUME PressureInv, NEW t \in Threads, DoUncachedRead(t)
    PROVE  PressureInv'
<1>1. BufferTypes /\ CacheTypes /\ ThreadTypes
  BY DEF PressureInv, PressureTypes
<1>2. /\ thread[t].pc = "uncached"
      /\ bw_disk' = bw_disk /\ outstanding_writing' = outstanding_writing /\ receiving' = receiving
      /\ dirty' = dirty /\ clean' = clean /\ pinned' = pinned
      /\ outstanding_flush' = outstanding_flush /\ completions' = completions
      /\ m_cache_check_state' = m_cache_check_state
  BY DEF DoUncachedRead, peerVars, At
<1>3. PICK ok \in AllocOutcomes : AllocateQuietly(1, ok) /\ lent' = IF ok THEN lent + 1 ELSE lent
  BY DEF DoUncachedRead
<1>4. ok \in BOOLEAN
  BY PressureAssumption DEF PressureAssumption
<1>5. /\ thread[t] \in ThreadStates /\ thread[t].writes = None /\ thread[t].then = "level"
      /\ HeldOf(thread[t]) = 0 /\ ~ IsChecking(thread[t])
  BY <1>2, ReadingFacts
<1> DEFINE r == [thread[t] EXCEPT !.pc = "level", !.read = 0]
<1>6. Goes(t, r)
  BY DEF DoUncachedRead
<1>7. /\ r \in ThreadStates /\ r.pc = "level" /\ r.writes = None /\ r.then = "level"
      /\ r.over = thread[t].over
  <2>1. r = LevelRecord(thread[t])
    BY DEF LevelRecord
  <2> HIDE DEF r
  <2>2. thread[t] \in ThreadStates
    BY <1>5
  <2>3. /\ r \in ThreadStates /\ r.pc = "level" /\ r.writes = thread[t].writes
        /\ r.then = thread[t].then /\ r.over = thread[t].over
    BY <2>1, <2>2, LevelFields
  <2> QED
    BY <1>5, <2>3
<1> HIDE DEF r
<1>8. /\ Sound(r) /\ ~ IsChecking(r) /\ HeldOf(r) = 0
      /\ \A p \in Peers : OwedOf(r, p) = OwedOf(thread[t], p)
  <2>1. Size(None) = 0
    BY BlockFacts
  <2> QED
    BY <1>5, <1>7, <2>1 DEF Sound, IsChecking, HeldOf, OwedOf
<1>9. /\ BufferTypes' /\ m_in_use' = m_in_use + IF ok THEN 1 ELSE 0
      /\ \A p \in Peers : Known(p) => Known(p)'
      /\ ListUsed => ListUsed'
  <2>1. AllocateQuietly(1, ok) /\ 1 \in Nat /\ 1 > 0
    BY <1>3
  <2> QED
    BY <1>1, <1>4, <2>1, QuietFacts
<1>10. CacheTypes'
  <2>1. lent' \in Nat /\ lent' >= lent
    BY <1>1, <1>3 DEF CacheTypes
  <2> QED
    BY <1>1, <1>2, <2>1 DEF CacheTypes
<1>11. m_in_use' - Size(dirty') - clean' - pinned' - lent' - HeldOf(r)
         = m_in_use - Size(dirty) - clean - pinned - lent - HeldOf(thread[t])
  <2> DEFINE d == Size(dirty)
             k == IF ok THEN 1 ELSE 0
  <2>1. d \in Nat /\ Size(dirty') = d
    BY <1>1, <1>2, BlockFacts DEF CacheTypes
  <2>2. m_in_use \in Nat /\ clean \in Nat /\ pinned \in Nat /\ lent \in Nat
    BY <1>1 DEF CacheTypes, BufferTypes
  <2>3. k \in Nat /\ m_in_use' = m_in_use + k /\ lent' = lent + k
    BY <1>3, <1>9, <2>2
  <2> HIDE DEF d, k, HeldOf
  <2>4. (m_in_use + k) - d - clean - pinned - (lent + k) - 0 = m_in_use - d - clean - pinned - lent - 0
    BY <2>1, <2>2, <2>3
  <2> QED
    BY <1>2, <1>5, <1>8, <2>1, <2>3, <2>4 DEF d
<1>12. \A p \in Peers : dirty'[p] + completions'[p] + OwedOf(r, p)
                        = dirty[p] + completions[p] + OwedOf(thread[t], p)
  BY <1>2, <1>8
<1>13. m_cache_check_state' \in 0 .. 2
  BY <1>1, <1>2 DEF ThreadTypes
<1> QED
  BY <1>2, <1>5, <1>6, <1>7, <1>8, <1>9, <1>10, <1>11, <1>12, <1>13, GoesKeeps
LEMMA ReadAllocKeeps ==
    ASSUME PressureInv, NEW t \in Threads, ReadAlloc(t)
    PROVE  PressureInv'
<1>1. BufferTypes /\ CacheTypes /\ ThreadTypes
  BY DEF PressureInv, PressureTypes
<1>2. /\ thread[t].pc = "alloc"
      /\ bw_disk' = bw_disk /\ outstanding_writing' = outstanding_writing /\ receiving' = receiving
      /\ dirty' = dirty /\ clean' = clean /\ pinned' = pinned /\ lent' = lent
      /\ outstanding_flush' = outstanding_flush /\ completions' = completions
      /\ m_cache_check_state' = m_cache_check_state
  BY DEF ReadAlloc, peerVars, cacheVars, sendVars, At
<1>3. PICK ok \in AllocOutcomes :
          /\ \E n \in IF ok THEN {thread[t].read} ELSE 1 .. thread[t].read : AllocateQuietly(n, ok)
          /\ Goes(t, [thread[t] EXCEPT !.pc = IF ok THEN "read" ELSE "uncached"])
  BY DEF ReadAlloc
<1>4. ok \in BOOLEAN
  BY PressureAssumption DEF PressureAssumption
<1>5. /\ thread[t] \in ThreadStates /\ thread[t].writes = None /\ thread[t].then = "level"
      /\ HeldOf(thread[t]) = 0 /\ ~ IsChecking(thread[t])
      /\ thread[t].read \in Nat /\ thread[t].read > 0
  BY <1>2, ReadingFacts
<1>6. PICK n \in Nat : n > 0 /\ AllocateQuietly(n, ok) /\ (ok => n = thread[t].read)
  <2>1. CASE ok
    BY <1>3, <1>5, <2>1
  <2>2. CASE ~ ok
    BY <1>3, <1>5, <2>2
  <2> QED
    BY <2>1, <2>2
<1> DEFINE pc == IF ok THEN "read" ELSE "uncached"
           r == [thread[t] EXCEPT !.pc = pc]
<1>7. Goes(t, r)
  BY <1>3
<1>8. /\ r \in ThreadStates /\ r.pc = pc /\ r.writes = None /\ r.then = "level"
      /\ r.over = thread[t].over /\ r.read = thread[t].read
  <2>1. pc \in {"level", "uncached", "read", "written", "done"}
    OBVIOUS
  <2> HIDE DEF pc
  <2> QED
    BY <1>5, <2>1, PcFields
<1> HIDE DEF r
<1>9. /\ Sound(r) /\ ~ IsChecking(r) /\ HeldOf(r) = IF ok THEN n ELSE 0
      /\ \A p \in Peers : OwedOf(r, p) = OwedOf(thread[t], p)
  <2>1. Size(None) = 0
    BY BlockFacts
  <2> QED
    BY <1>5, <1>6, <1>8, <2>1 DEF Sound, IsChecking, HeldOf, OwedOf
<1>10. /\ BufferTypes' /\ m_in_use' = m_in_use + IF ok THEN n ELSE 0
       /\ \A p \in Peers : Known(p) => Known(p)'
       /\ ListUsed => ListUsed'
  BY <1>1, <1>4, <1>6, QuietFacts
<1>11. CacheTypes'
  BY <1>1, <1>2 DEF CacheTypes
<1>12. m_in_use' - Size(dirty') - clean' - pinned' - lent' - HeldOf(r)
         = m_in_use - Size(dirty) - clean - pinned - lent - HeldOf(thread[t])
  <2> DEFINE d == Size(dirty)
             k == IF ok THEN n ELSE 0
  <2>1. d \in Nat /\ Size(dirty') = d
    BY <1>1, <1>2, BlockFacts DEF CacheTypes
  <2>2. m_in_use \in Nat /\ clean \in Nat /\ pinned \in Nat /\ lent \in Nat
    BY <1>1 DEF CacheTypes, BufferTypes
  <2>3. k \in Nat /\ m_in_use' = m_in_use + k /\ HeldOf(r) = k
    BY <1>9, <1>10
  <2> HIDE DEF d, k, HeldOf
  <2>4. (m_in_use + k) - d - clean - pinned - lent - k = m_in_use - d - clean - pinned - lent - 0
    BY <2>1, <2>2, <2>3
  <2> QED
    BY <1>2, <1>5, <2>1, <2>3, <2>4 DEF d
<1>13. \A p \in Peers : dirty'[p] + completions'[p] + OwedOf(r, p)
                        = dirty[p] + completions[p] + OwedOf(thread[t], p)
  BY <1>2, <1>9
<1>14. m_cache_check_state' \in 0 .. 2
  BY <1>1, <1>2 DEF ThreadTypes
<1> QED
  BY <1>2, <1>5, <1>7, <1>8, <1>9, <1>10, <1>11, <1>12, <1>13, <1>14, GoesKeeps

LEMMA ReadDoneKeeps ==
    ASSUME PressureInv, NEW t \in Threads, ReadDone(t)
    PROVE  PressureInv'
<1>1. PressureTypes /\ BuffersAgree /\ BufferTypes /\ CacheTypes /\ ThreadTypes /\ trim \in BOOLEAN
  BY DEF PressureInv, PressureTypes, BufferTypes
<1>2. /\ thread[t].pc = "read"
      /\ bw_disk' = bw_disk /\ outstanding_writing' = outstanding_writing /\ receiving' = receiving
      /\ dirty' = dirty /\ lent' = lent
      /\ outstanding_flush' = outstanding_flush /\ completions' = completions
      /\ m_cache_check_state' = m_cache_check_state
  BY DEF ReadDone, peerVars, At
<1>3. /\ thread[t] \in ThreadStates /\ thread[t].writes = None /\ thread[t].then = "level"
      /\ HeldOf(thread[t]) = thread[t].read /\ ~ IsChecking(thread[t])
      /\ thread[t].read \in Nat /\ thread[t].read > 0
  BY <1>2, ReadingFacts
<1> DEFINE r == [thread[t] EXCEPT !.pc = "level", !.read = 0]
           n == thread[t].read
<1>4. Goes(t, r)
  BY DEF ReadDone
<1>5. /\ r \in ThreadStates /\ r.pc = "level" /\ r.writes = None /\ r.then = "level"
      /\ r.over = thread[t].over
  <2>1. r = LevelRecord(thread[t])
    BY DEF LevelRecord
  <2> HIDE DEF r
  <2>2. thread[t] \in ThreadStates
    BY <1>3
  <2>3. /\ r \in ThreadStates /\ r.pc = "level" /\ r.writes = thread[t].writes
        /\ r.then = thread[t].then /\ r.over = thread[t].over
    BY <2>1, <2>2, LevelFields
  <2> QED
    BY <1>3, <2>3
<1> HIDE DEF r
<1>6. /\ Sound(r) /\ ~ IsChecking(r) /\ HeldOf(r) = 0
      /\ \A p \in Peers : OwedOf(r, p) = OwedOf(thread[t], p)
  <2>1. Size(None) = 0
    BY BlockFacts
  <2> QED
    BY <1>3, <1>5, <2>1 DEF Sound, IsChecking, HeldOf, OwedOf
<1>7. clean \in Nat /\ pinned \in Nat /\ lent \in Nat /\ m_in_use \in Nat
  BY <1>1 DEF CacheTypes, BufferTypes
<1>8. /\ BufferTypes' /\ (\A p \in Peers : Known(p) => Known(p)') /\ (ListUsed => ListUsed')
      /\ clean' \in Nat /\ pinned' \in Nat
      /\ \/ clean' = clean + n - 1 /\ pinned' = pinned + 1 /\ m_in_use' = m_in_use
         \/ clean' = clean /\ pinned' = pinned /\ m_in_use' = m_in_use - n
  <2>1. CASE clean' = clean + thread[t].read - 1 /\ pinned' = pinned + 1 /\ UNCHANGED bufferVars
    <3>1. /\ BufferTypes' /\ m_in_use' = m_in_use
          /\ (\A p \in Peers : Known(p) => Known(p)') /\ (ListUsed => ListUsed')
      BY <1>1, <2>1, PoolStays DEF bufferVars
    <3>2. clean' \in Nat /\ pinned' \in Nat
      BY <1>3, <1>7, <2>1
    <3> QED
      BY <2>1, <3>1, <3>2
  <2>2. CASE Free(thread[t].read) /\ UNCHANGED <<clean, pinned>>
    <3>1. thread[t].read <= m_in_use
      <4>1. clean + lent + HeldOf(thread[t]) <= m_in_use
        BY <1>1, PartsOfUse
      <4> QED
        BY <1>3, <1>7, <4>1
    <3>2. FreeSome(thread[t].read)
      BY <1>3, <2>2 DEF FreeSome
    <3>3. /\ BufferTypes' /\ m_in_use' = m_in_use - thread[t].read
          /\ (\A p \in Peers : Known(p) => Known(p)') /\ (ListUsed => ListUsed')
      BY <1>1, <1>3, <3>1, <3>2, Frees
    <3> QED
      BY <1>7, <2>2, <3>3
  <2> QED
    BY <2>1, <2>2 DEF ReadDone
<1>9. CacheTypes'
  BY <1>1, <1>2, <1>8 DEF CacheTypes
<1>10. m_in_use' - Size(dirty') - clean' - pinned' - lent' - HeldOf(r)
         = m_in_use - Size(dirty) - clean - pinned - lent - HeldOf(thread[t])
  <2> DEFINE d == Size(dirty)
  <2>1. d \in Nat /\ Size(dirty') = d
    BY <1>1, <1>2, BlockFacts DEF CacheTypes
  <2>2. n \in Nat /\ HeldOf(thread[t]) = n
    BY <1>3
  <2> HIDE DEF d, n, HeldOf
  <2>3. m_in_use - d - (clean + n - 1) - (pinned + 1) - lent - 0 = m_in_use - d - clean - pinned - lent - n
    BY <1>7, <2>1, <2>2
  <2>4. (m_in_use - n) - d - clean - pinned - lent - 0 = m_in_use - d - clean - pinned - lent - n
    BY <1>7, <2>1, <2>2
  <2> QED
    BY <1>2, <1>6, <1>8, <2>1, <2>2, <2>3, <2>4 DEF d
<1>11. \A p \in Peers : dirty'[p] + completions'[p] + OwedOf(r, p)
                        = dirty[p] + completions[p] + OwedOf(thread[t], p)
  BY <1>2, <1>6
<1>12. m_cache_check_state' \in 0 .. 2
  BY <1>1, <1>2 DEF ThreadTypes
<1> QED
  BY <1>2, <1>3, <1>4, <1>5, <1>6, <1>8, <1>9, <1>10, <1>11, <1>12, GoesKeeps

(* A thread goes on with what it has. *)
LEMMA PcKeeps ==
    ASSUME PressureInv, NEW t \in Threads, NEW pc \in {"written", "done"},
           Goes(t, [thread[t] EXCEPT !.pc = pc]),
           \/ thread[t].pc = "write" /\ pc = "written"
           \/ thread[t].pc = "level" /\ pc = "done",
           m_cache_check_state' \in 0 .. 2, m_cache_check_state' = 0 <=> m_cache_check_state = 0,
           UNCHANGED <<bufferVars, peerVars, cacheVars, completions>>
    PROVE  PressureInv'
<1>1. BufferTypes /\ CacheTypes /\ trim \in BOOLEAN /\ thread[t] \in ThreadStates /\ Sound(thread[t])
  BY DEF PressureInv, PressureTypes, ThreadTypes, BufferTypes
<1>2. /\ bw_disk' = bw_disk /\ outstanding_writing' = outstanding_writing /\ receiving' = receiving
      /\ dirty' = dirty /\ clean' = clean /\ pinned' = pinned /\ lent' = lent
      /\ outstanding_flush' = outstanding_flush /\ completions' = completions
  BY DEF peerVars, cacheVars, sendVars
<1> DEFINE r == [thread[t] EXCEPT !.pc = pc]
<1>3. /\ r \in ThreadStates /\ r.pc = pc /\ r.writes = thread[t].writes /\ r.then = thread[t].then
      /\ r.over = thread[t].over
  BY <1>1, PcFields
<1>4. Goes(t, r)
  OBVIOUS
<1> HIDE DEF r
<1>5. Sound(r) /\ (IsChecking(r) <=> IsChecking(thread[t]))
  BY <1>1, <1>3 DEF Sound, IsChecking
<1>6. HeldOf(r) = HeldOf(thread[t]) /\ \A p \in Peers : OwedOf(r, p) = OwedOf(thread[t], p)
  BY <1>3 DEF HeldOf, OwedOf
<1>7. /\ BufferTypes' /\ m_in_use' = m_in_use
      /\ \A p \in Peers : Known(p) => Known(p)'
      /\ ListUsed => ListUsed'
  BY <1>1, PoolStays DEF bufferVars
<1>8. CacheTypes'
  BY <1>1, <1>2 DEF CacheTypes
<1>9. /\ m_in_use' - Size(dirty') - clean' - pinned' - lent' - HeldOf(r)
           = m_in_use - Size(dirty) - clean - pinned - lent - HeldOf(thread[t])
      /\ \A p \in Peers : dirty'[p] + completions'[p] + OwedOf(r, p)
                          = dirty[p] + completions[p] + OwedOf(thread[t], p)
  BY <1>2, <1>6, <1>7
<1> QED
  BY <1>2, <1>3, <1>4, <1>5, <1>7, <1>8, <1>9, GoesKeeps

LEMMA WriteEndsKeeps ==
    ASSUME PressureInv, NEW t \in Threads, WriteEnds(t)
    PROVE  PressureInv'
<1>1. m_cache_check_state \in 0 .. 2
  BY DEF PressureInv, PressureTypes, ThreadTypes
<1> QED
  BY <1>1, PcKeeps DEF WriteEnds, At

LEMMA PerformJobEndKeeps ==
    ASSUME PressureInv, NEW t \in Threads, PerformJobEnd(t)
    PROVE  PressureInv'
<1>1. thread[t].pc = "level" /\ m_cache_check_state \in 0 .. 2
  BY DEF PressureInv, PressureTypes, ThreadTypes, PerformJobEnd, At
<1>2. CASE m_cache_check_state = 0
  <2>1. CheckCacheLevel(t, 1) /\ 1 \in 1 .. 2
    BY <1>2 DEF PerformJobEnd
  <2> QED
    BY <1>1, <1>2, <2>1, CheckCacheLevelKeeps
<1>3. CASE m_cache_check_state # 0
  <2>1. /\ m_cache_check_state' = 2
        /\ Goes(t, [thread[t] EXCEPT !.pc = "done"])
        /\ UNCHANGED <<bufferVars, peerVars, cacheVars, completions>>
    BY <1>3 DEF PerformJobEnd
  <2>2. /\ m_cache_check_state' \in 0 .. 2
        /\ m_cache_check_state' = 0 <=> m_cache_check_state = 0
    BY <1>3, <2>1
  <2>3. ASSUME NEW pc \in {"done"}, Goes(t, [thread[t] EXCEPT !.pc = pc])
        PROVE  PressureInv'
    <3>1. pc \in {"written", "done"} /\ pc = "done"
      OBVIOUS
    <3> QED
      BY <1>1, <2>1, <2>2, <2>3, <3>1, PcKeeps
  <2> QED
    BY <2>1, <2>3
<1> QED
  BY <1>2, <1>3

LEMMA CheckAgainKeeps ==
    ASSUME PressureInv, NEW t \in Threads, CheckAgain(t)
    PROVE  PressureInv'
<1>1. thread[t].pc = "again" /\ CheckCacheLevel(t, m_cache_check_state)
  BY DEF CheckAgain, At
<1>2. Checking(t)
  BY <1>1 DEF Checking, At
<1>3. m_cache_check_state \in 1 .. 2
  BY <1>2 DEF PressureInv, PressureTypes, ThreadTypes, CheckerInv
<1> QED
  BY <1>1, <1>3, CheckCacheLevelKeeps

LEMMA JobDoneKeeps ==
    ASSUME PressureInv, NEW t \in Threads, JobDone(t)
    PROVE  PressureInv'
<1>1. /\ BufferTypes /\ CacheTypes /\ trim \in BOOLEAN /\ thread[t] \in ThreadStates /\ Sound(thread[t])
      /\ m_cache_check_state \in 0 .. 2
  BY DEF PressureInv, PressureTypes, ThreadTypes, BufferTypes
<1>2. /\ thread[t].pc = "done" /\ UNCHANGED bufferVars
      /\ bw_disk' = bw_disk /\ outstanding_writing' = outstanding_writing /\ receiving' = receiving
      /\ dirty' = dirty /\ clean' = clean /\ pinned' = pinned /\ lent' = lent
      /\ outstanding_flush' = outstanding_flush
      /\ m_cache_check_state' = m_cache_check_state
      /\ completions' = Plus(completions, thread[t].over)
      /\ Goes(t, ThreadIdle)
  BY DEF JobDone, peerVars, cacheVars, sendVars, At
<1>3. thread[t].writes = None /\ thread[t].then = "level" /\ thread[t].over \in Blocks
  BY <1>1, <1>2 DEF Sound, ThreadStates
<1>4. completions \in Blocks /\ completions' \in Blocks
      /\ \A p \in Peers : completions'[p] = completions[p] + thread[t].over[p]
  BY <1>1, <1>2, <1>3, PlusFacts DEF CacheTypes
<1>5. Size(None) = 0 /\ \A p \in Peers : None[p] = 0
  BY BlockFacts DEF None
<1>6. /\ ThreadIdle \in ThreadStates /\ Sound(ThreadIdle) /\ ~ IsChecking(ThreadIdle)
      /\ HeldOf(ThreadIdle) = 0 /\ \A p \in Peers : OwedOf(ThreadIdle, p) = 0
  BY <1>5, IdleRecord DEF Sound, IsChecking, HeldOf, OwedOf
<1>7. /\ ~ IsChecking(thread[t]) /\ HeldOf(thread[t]) = 0
      /\ \A p \in Peers : OwedOf(thread[t], p) = thread[t].over[p]
  BY <1>2, <1>3, <1>5 DEF IsChecking, HeldOf, OwedOf, Blocks
<1>8. /\ BufferTypes' /\ m_in_use' = m_in_use
      /\ \A p \in Peers : Known(p) => Known(p)'
      /\ ListUsed => ListUsed'
  BY <1>1, <1>2, PoolStays DEF bufferVars
<1>9. CacheTypes'
  BY <1>1, <1>2, <1>4 DEF CacheTypes
<1>10. m_in_use' - Size(dirty') - clean' - pinned' - lent' - HeldOf(ThreadIdle)
         = m_in_use - Size(dirty) - clean - pinned - lent - HeldOf(thread[t])
  BY <1>2, <1>6, <1>7, <1>8
<1>11. ASSUME NEW p \in Peers
       PROVE  dirty'[p] + completions'[p] + OwedOf(ThreadIdle, p)
                = dirty[p] + completions[p] + OwedOf(thread[t], p)
  <2>1. dirty[p] \in Nat /\ completions[p] \in Nat /\ thread[t].over[p] \in Nat
    BY <1>1, <1>3, <1>4 DEF CacheTypes, Blocks
  <2> QED
    BY <1>2, <1>4, <1>6, <1>7, <2>1
<1> QED
  BY <1>1, <1>2, <1>6, <1>7, <1>8, <1>9, <1>10, <1>11, GoesKeeps
-----------------------------------------------------------------------------
(* The invariant *)

LEMMA PressureStarts == Init => PressureInv
<1> SUFFICES ASSUME Init PROVE PressureInv
  OBVIOUS
<1>1. /\ m_in_use = 0 /\ m_max_use = MaxUse /\ m_low_watermark = LowWatermark(m_max_use)
      /\ m_exceeded_max_size = FALSE /\ m_observers = NoObservers /\ posted = <<>> /\ trim = FALSE
      /\ bw_disk = {} /\ outstanding_writing = None /\ dirty = None /\ receiving = {}
      /\ clean = 0 /\ pinned = 0 /\ lent = 0 /\ outstanding_flush = FALSE
      /\ completions = None /\ m_cache_check_state = 0
      /\ thread = [t \in Threads |-> ThreadIdle]
  BY DEF Init, BufferInit
<1>2. None \in Blocks /\ Size(None) = 0 /\ \A p \in Peers : None[p] = 0
  BY BlockFacts DEF None
<1>3. BufferTypes
  <2>1. NoObservers \in Blocks /\ MaxUse \in Nat
    BY BufferAssumption DEF BufferAssumption, NoObservers, Blocks
  <2>2. <<>> \in Seq(SUBSET Peers)
    OBVIOUS
  <2> QED
    BY <1>1, <2>1, <2>2 DEF BufferTypes
<1>4. CacheTypes
  BY <1>1, <1>2 DEF CacheTypes
<1>5. ThreadIdle \in ThreadStates /\ Sound(ThreadIdle) /\ ~ IsChecking(ThreadIdle)
  BY IdleRecord DEF Sound, IsChecking
<1>6. thread \in [Threads -> ThreadStates] /\ \A t \in Threads : thread[t] = ThreadIdle
  BY <1>1, <1>5
<1>7. ThreadTypes
  BY <1>1, <1>5, <1>6 DEF ThreadTypes
<1>8. \A t \in Threads : ~ Checking(t)
  BY <1>5, <1>6 DEF Checking, IsChecking, At
<1>9. CheckerInv
  BY <1>1, <1>8 DEF CheckerInv
<1>10. WaitersAreKnown
  BY <1>1 DEF WaitersAreKnown
<1>11. \A t \in Threads : HeldOf(thread[t]) = 0 /\ \A p \in Peers : OwedOf(thread[t], p) = 0
  BY <1>2, <1>6, IdleRecord DEF HeldOf, OwedOf
<1>12. IsFiniteSet(Threads)
  BY PressureAssumption DEF PressureAssumption
<1>13. SumFunction(Held) = 0
  <2>1. Held = [t \in Threads |-> HeldOf(thread[t])]
    BY DEF Held, HeldOf, At
  <2> HIDE DEF HeldOf, Held
  <2>2. Held \in [Threads -> Int] /\ \A t \in Threads : Held[t] = 0
    BY <1>11, <2>1
  <2> QED
    BY <1>12, <2>2, SumZero
<1>14. ASSUME NEW p \in Peers PROVE SumFunction(Owed(p)) = 0
  <2> DEFINE f == Owed(p)
  <2>1. f = [t \in Threads |-> OwedOf(thread[t], p)]
    BY DEF Owed, OwedOf
  <2> HIDE DEF OwedOf, f
  <2>2. f \in [Threads -> Int] /\ \A t \in Threads : f[t] = 0
    BY <1>11, <2>1
  <2>3. SumFunction(f) = 0
    BY <1>12, <2>2, SumZero
  <2> QED
    BY <2>3 DEF f
<1>15. BuffersAgree
  BY <1>1, <1>2, <1>13 DEF BuffersAgree
<1>16. WritesAccounted
  BY <1>1, <1>2, <1>14 DEF WritesAccounted
<1> QED
  BY <1>3, <1>4, <1>7, <1>9, <1>10, <1>15, <1>16 DEF PressureInv, PressureTypes

LEMMA PressureStep == PressureInv /\ [Next]_vars => PressureInv'
<1> SUFFICES ASSUME PressureInv, [Next]_vars PROVE PressureInv'
  OBVIOUS
<1>1. CASE WatermarkCallback
  BY <1>1, WatermarkCallbackKeeps
<1>2. ASSUME NEW p \in Peers, OnDiskWriteComplete(p) PROVE PressureInv'
  BY <1>2, OnDiskWriteCompleteKeeps
<1>3. CASE ReadHit
  BY <1>3, ReadHitKeeps
<1>4. CASE Sent
  BY <1>4, SentKeeps
<1>5. ASSUME NEW p \in Peers, IncomingPiece(p) \/ Disconnect(p) PROVE PressureInv'
  BY <1>5, IncomingPieceKeeps, DisconnectKeeps
<1>6. ASSUME NEW change \in Changes, SetSettings(change[2]) PROVE PressureInv'
  <2>1. change[2] \in Nat
    BY BufferAssumption DEF BufferAssumption
  <2> QED
    BY <1>6, <2>1, SetSettingsKeeps
<1>7. ASSUME NEW t \in Threads, NEW n \in ReadSizes, ReadJob(t, n) PROVE PressureInv'
  BY <1>7, ReadJobKeeps
<1>8. ASSUME NEW t \in Threads, ThreadStep(t) PROVE PressureInv'
  <2>1. CASE FlushJob(t)
    BY <2>1, FlushJobKeeps
  <2>2. CASE TrimJob(t)
    BY <2>2, TrimJobKeeps
  <2>3. CASE DoUncachedRead(t)
    BY <2>3, DoUncachedReadKeeps
  <2>4. CASE ReadAlloc(t)
    BY <2>4, ReadAllocKeeps
  <2>5. CASE ReadDone(t)
    BY <2>5, ReadDoneKeeps
  <2>6. CASE WriteEnds(t)
    BY <2>6, WriteEndsKeeps
  <2>7. CASE Written(t)
    BY <2>7, WrittenKeeps
  <2>8. CASE PerformJobEnd(t)
    BY <2>8, PerformJobEndKeeps
  <2>9. CASE CheckAgain(t)
    BY <2>9, CheckAgainKeeps
  <2>10. CASE JobDone(t)
    BY <2>10, JobDoneKeeps
  <2> QED
    BY <1>8, <2>1, <2>2, <2>3, <2>4, <2>5, <2>6, <2>7, <2>8, <2>9, <2>10 DEF ThreadStep
<1>9. ASSUME NEW p \in Peers, NEW exceeded \in BOOLEAN, AddDirtyBlock(p, exceeded) PROVE PressureInv'
  BY <1>9, AddDirtyBlockKeeps
<1>10. CASE UNCHANGED vars
  <2>1. /\ UNCHANGED <<m_in_use, m_max_use, m_low_watermark, m_exceeded_max_size, m_observers, posted,
                       trim>>
        /\ UNCHANGED <<peerVars, dirty, outstanding_flush, completions, m_cache_check_state, thread>>
        /\ clean' = clean /\ pinned' = pinned /\ lent' = lent
    BY <1>10 DEF vars, bufferVars, cacheVars, sendVars
  <2>2. BufferTypes /\ clean \in Nat /\ pinned \in Nat /\ lent \in Nat
    BY DEF PressureInv, PressureTypes, CacheTypes
  <2>3. /\ BufferTypes' /\ (\A p \in Peers : Known(p) => Known(p)') /\ (ListUsed => ListUsed')
    BY <2>1, <2>2 DEF BufferTypes, Known, ListUsed, NoObservers
  <2> QED
    BY <2>1, <2>2, <2>3, SendKeeps
<1> QED
  BY <1>1, <1>2, <1>3, <1>4, <1>5, <1>6, <1>7, <1>8, <1>9, <1>10 DEF Next, NetStep

(* The inductive invariant, for any peers, disk threads, cache sizes and   *)
(* their changes, read sizes, with and without memory.                     *)
THEOREM PressureInvTheorem == Spec => []PressureInv
<1>1. Init => PressureInv
  BY PressureStarts
<1>2. PressureInv /\ [Next]_vars => PressureInv'
  BY PressureStep
<1> QED
  BY <1>1, <1>2, PTL DEF Spec

(* No disk buffer is lost or counted twice: m_in_use is what the cache,    *)
(* the peers and the threads hold (allocate_buffer, free_multiple_buffers, *)
(* check_cache_level, iovec_flushed).                                      *)
THEOREM BuffersTheorem == Spec => []BuffersAgree
<1>1. PressureInv => BuffersAgree
  BY DEF PressureInv
<1> QED
  BY <1>1, PressureInvTheorem, PTL

(* A peer is told of each of its writes exactly once, whichever thread     *)
(* wrote the block and however often it was interrupted by a check.        *)
THEOREM WritesTheorem == Spec => []WritesAccounted
<1>1. PressureInv => WritesAccounted
  BY DEF PressureInv
<1> QED
  BY <1>1, PressureInvTheorem, PTL

(* A peer that waits for the disk is on the list of a pool that will call  *)
(* it, or the call is due (check_buffer_level, watermark_callback).        *)
THEOREM WaitersTheorem == Spec => []WaitersAreKnown
<1>1. PressureInv => WaitersAreKnown
  BY DEF PressureInv
<1> QED
  BY <1>1, PressureInvTheorem, PTL

(* One thread at a time checks the cache level, and m_cache_check_state    *)
(* says whether one does (perform_job).                                    *)
THEOREM OneCheckerTheorem == Spec => []OneChecker
<1>1. PressureInv => OneChecker
  <2> SUFFICES ASSUME PressureInv PROVE OneChecker
    OBVIOUS
  <2> DEFINE S == {t \in Threads : At(t, "again") \/ thread[t].then # "level"}
  <2>1. /\ \A t, u \in Threads : Checking(t) /\ Checking(u) => t = u
        /\ m_cache_check_state = 0 <=> \A t \in Threads : ~ Checking(t)
    BY DEF PressureInv, CheckerInv
  <2>2. S = {t \in Threads : Checking(t)}
    BY DEF Checking
  <2>3. m_cache_check_state = 0 <=> \A t \in Threads : ~ At(t, "again") /\ thread[t].then = "level"
    BY <2>1 DEF Checking
  <2> HIDE DEF S
  <2>4. Cardinality(S) <= 1
    <3>1. CASE S = {}
      BY <3>1, FS_EmptySet
    <3>2. CASE S # {}
      <4>1. PICK t : t \in S
        BY <3>2
      <4>2. S = {t}
        BY <2>1, <2>2, <4>1
      <4>3. Cardinality(S) = 1
        BY <4>2, FS_Singleton
      <4> QED
        BY <4>3
    <3> QED
      BY <3>1, <3>2
  <2> QED
    BY <2>3, <2>4 DEF OneChecker, S
<1> QED
  BY <1>1, PressureInvTheorem, PTL

-----------------------------------------------------------------------------
(* Nobody is left waiting *)

(* The allocations succeed, and a cache size that was changed stays so.    *)
MemorySuffices == AllocOutcomes \subseteq {TRUE}
SizeNotRestored == \A c \in Changes : c[2] # MaxUse

LEMMA AttendedBy ==
    ASSUME ThreadTypes, NEW t \in Threads, NEW r \in ThreadStates, Goes(t, r),
           ChecksLater(r, m_in_use', m_low_watermark')
    PROVE  Attended'
<1>1. thread'[t] = r
  BY DEF ThreadTypes, Goes
<1>2. WillCheck(t)'
  BY <1>1 DEF WillCheck
<1> QED
  BY <1>2 DEF Attended

(* A thread that checks later still does when another one goes on. *)
LEMMA OthersAttend ==
    ASSUME PressureTypes, m_in_use' \in Nat, m_in_use' <= m_in_use, m_low_watermark' = m_low_watermark,
           NEW u \in Threads, thread'[u] = thread[u], WillCheck(u)
    PROVE  Attended'
<1>1. m_in_use \in Nat /\ m_low_watermark \in Nat /\ Size(thread[u].writes) \in Nat
  BY LowFacts, HeldFacts DEF PressureTypes, BufferTypes, ThreadTypes
<1>2. ChecksLater(thread[u], m_in_use', m_low_watermark')
  <2> DEFINE use == m_in_use'
             size == Size(thread[u].writes)
  <2>1. use - size <= m_low_watermark \/ ~ (m_in_use - size <= m_low_watermark)
    <3>1. use \in Nat /\ use <= m_in_use /\ size \in Nat
      BY <1>1
    <3> HIDE DEF use, size
    <3> QED
      BY <1>1, <3>1
  <2> QED
    BY <2>1 DEF WillCheck, ChecksLater
<1>3. WillCheck(u)'
  BY <1>2 DEF WillCheck
<1> QED
  BY <1>3 DEF Attended

LEMMA AttendedStays ==
    ASSUME PressureTypes, m_in_use' \in Nat, m_in_use' <= m_in_use, m_low_watermark' = m_low_watermark,
           outstanding_flush => outstanding_flush', trim => trim', receiving' = receiving, Attended,
           m_cache_check_state = 2 => Attended',
           NEW t \in Threads, NEW r, Goes(t, r), WillCheck(t) => Attended'
    PROVE  Attended'
<1>1. \A u \in Threads : u # t => thread'[u] = thread[u]
  BY DEF PressureTypes, ThreadTypes, Goes
<1>2. CASE outstanding_flush \/ trim \/ receiving # {}
  BY <1>2 DEF Attended
<1>3. ASSUME NEW u \in Threads, u # t, WillCheck(u) PROVE Attended'
  BY <1>1, <1>3, OthersAttend
<1> HIDE DEF WillCheck
<1> QED
  BY <1>2, <1>3 DEF Attended

(* Nothing that matters changes. *)
LEMMA RestStays ==
    ASSUME RestInv,
           UNCHANGED <<m_in_use, m_max_use, m_low_watermark, m_exceeded_max_size, trim, dirty,
                       outstanding_flush, receiving, m_cache_check_state, thread>>
    PROVE  RestInv'
BY DEF RestInv, AboveLow, Attended, WillCheck, ChecksLater, None, Size

LEMMA FreesAbove ==
    ASSUME BufferTypes, NEW n \in Nat, n <= m_in_use, FreeSome(n), AboveLow
    PROVE  AboveLow'
<1>1. /\ n > 0 /\ m_exceeded_max_size' => m_in_use' > m_low_watermark'
  BY Frees
<1>2. CASE n = 0
  <2>1. UNCHANGED bufferVars
    BY <1>2 DEF FreeSome
  <2> QED
    BY <2>1 DEF bufferVars, AboveLow
<1> QED
  BY <1>1, <1>2 DEF AboveLow

(* A thread that goes where it will check. *)
LEMMA GoesToCheck ==
    ASSUME ThreadTypes, RestInv, m_max_use' = m_max_use, AboveLow => AboveLow',
           NEW t \in Threads, NEW r \in ThreadStates, Goes(t, r),
           \/ r.pc \in {"alloc", "uncached", "read", "level", "again"}
           \/ r.pc \in {"write", "written"} /\ r.then = "level"
    PROVE  RestInv'
<1>1. ChecksLater(r, m_in_use', m_low_watermark')
  BY DEF ChecksLater
<1>2. Attended'
  BY <1>1, AttendedBy
<1> HIDE DEF Attended
<1> QED
  BY <1>2 DEF RestInv

LEMMA NetRests ==
    ASSUME PressureInv, RestInv, MemorySuffices, SizeNotRestored,
           \/ WatermarkCallback \/ ReadHit \/ Sent
           \/ \E p \in Peers : OnDiskWriteComplete(p) \/ IncomingPiece(p) \/ Disconnect(p)
           \/ \E p \in Peers, exceeded \in BOOLEAN : AddDirtyBlock(p, exceeded)
           \/ \E change \in Changes : SetSettings(change[2])
    PROVE  RestInv'
<1>1. PressureTypes /\ BuffersAgree /\ BufferTypes /\ CacheTypes
  BY DEF PressureInv, PressureTypes
<1>2. CASE WatermarkCallback
  BY <1>2, RestStays DEF WatermarkCallback, cacheVars, sendVars
<1>3. CASE ReadHit
  BY <1>3, RestStays DEF ReadHit, bufferVars, peerVars
<1>4. CASE Sent
  <2>1. /\ dirty' = dirty /\ outstanding_flush' = outstanding_flush
        /\ m_cache_check_state' = m_cache_check_state /\ thread' = thread
        /\ receiving' = receiving
    BY <1>4 DEF Sent, peerVars
  <2>2. CASE UNCHANGED bufferVars
    BY <2>1, <2>2, RestStays DEF bufferVars
  <2>3. CASE lent > 0 /\ Free(1)
    <3>1. 1 \in Nat /\ FreeSome(1)
      BY <2>3 DEF FreeSome
    <3>2. 1 <= m_in_use
      <4>1. clean + lent <= m_in_use
        BY <1>1, PartsOfUse
      <4> QED
        BY <1>1, <2>3, <4>1 DEF CacheTypes, BufferTypes
    <3>3. /\ m_in_use' = m_in_use - 1 /\ m_max_use' = m_max_use /\ m_low_watermark' = m_low_watermark
          /\ trim' = trim /\ (m_exceeded_max_size' => m_exceeded_max_size) /\ BufferTypes'
      BY <1>1, <3>1, <3>2, Frees
    <3>4. AboveLow => AboveLow'
      BY <1>1, <3>1, <3>2, FreesAbove
    <3>5. m_in_use' \in Nat /\ m_in_use' <= m_in_use
      BY <1>1, <3>3 DEF BufferTypes
    <3>6. ASSUME NEW u \in Threads, WillCheck(u) PROVE Attended'
      BY <1>1, <2>1, <3>3, <3>5, <3>6, OthersAttend
    <3>7. Attended => Attended'
      <4>1. CASE outstanding_flush \/ trim \/ m_cache_check_state = 2 \/ receiving # {}
        BY <2>1, <3>3, <4>1 DEF Attended
      <4> HIDE DEF WillCheck
      <4> QED
        BY <3>6, <4>1 DEF Attended
    <3>8. None' = None
      BY DEF None
    <3> HIDE DEF Attended, AboveLow, None
    <3> QED
      BY <2>1, <3>3, <3>4, <3>7, <3>8 DEF RestInv
  <2> QED
    BY <1>4, <2>2, <2>3 DEF Sent
<1>5. ASSUME NEW p \in Peers, OnDiskWriteComplete(p) PROVE RestInv'
  BY <1>5, RestStays DEF OnDiskWriteComplete, bufferVars, cacheVars, sendVars
<1>6. ASSUME NEW p \in Peers, Disconnect(p) PROVE RestInv'
  BY <1>6, RestStays DEF Disconnect, bufferVars, cacheVars, sendVars
<1>7. ASSUME NEW p \in Peers, IncomingPiece(p) PROVE RestInv'
  <2>1. PICK ok \in AllocOutcomes :
           /\ AllocateFor(p, ok)
           /\ receiving' = IF ok THEN {[peer |-> p, exceeded |-> m_exceeded_max_size']} ELSE {}
    BY <1>7 DEF IncomingPiece
  <2>2. ok = TRUE
    BY DEF MemorySuffices
  <2>3. Attended'
    BY <2>1, <2>2 DEF Attended
  <2>4. 1 \in Nat /\ 1 > 0
    OBVIOUS
  <2>5. Allocate(1, ok) /\ ok \in BOOLEAN
    BY <2>1, <2>2 DEF AllocateFor
  <2>6. m_observers' \in Blocks
    BY <1>1, <2>1 DEF AllocateFor, BufferTypes, Blocks
  <2>7. m_max_use' = m_max_use /\ (ok /\ AboveLow => AboveLow')
    BY <1>1, <2>4, <2>5, <2>6, Allocates
  <2> HIDE DEF Attended, AboveLow
  <2> QED
    BY <2>2, <2>3, <2>7 DEF RestInv
<1>8. ASSUME NEW change \in Changes, SetSettings(change[2]) PROVE RestInv'
  <2>1. m_max_use' = change[2] /\ change[2] # MaxUse
    BY <1>8 DEF SetSettings, SetCacheSize, SizeNotRestored
  <2> QED
    BY <2>1 DEF RestInv
<1>9. ASSUME NEW p \in Peers, NEW exceeded \in BOOLEAN, AddDirtyBlock(p, exceeded) PROVE RestInv'
  <2>1. Attended'
    BY <1>9 DEF AddDirtyBlock, Attended
  <2>2. PICK n \in Nat : n <= clean /\ FreeSome(n)
    BY <1>9, AddDirtyBlockFrees
  <2>3. n <= m_in_use
    BY <1>1, <2>2, PartsOfUse DEF CacheTypes, BufferTypes
  <2>4. m_max_use' = m_max_use /\ (AboveLow => AboveLow')
    BY <1>1, <2>2, <2>3, Frees, FreesAbove
  <2> HIDE DEF Attended, AboveLow
  <2> QED
    BY <2>1, <2>4 DEF RestInv
<1> QED
  BY <1>2, <1>3, <1>4, <1>5, <1>6, <1>7, <1>8, <1>9

LEMMA JobRests ==
    ASSUME PressureInv, RestInv, MemorySuffices, NEW t \in Threads,
           \/ FlushJob(t) \/ TrimJob(t) \/ DoUncachedRead(t) \/ ReadAlloc(t) \/ ReadDone(t)
           \/ \E n \in ReadSizes : ReadJob(t, n)
    PROVE  RestInv'
<1>1. /\ PressureTypes /\ BuffersAgree /\ BufferTypes /\ CacheTypes /\ ThreadTypes
      /\ thread[t] \in ThreadStates
  BY DEF PressureInv, PressureTypes, ThreadTypes
<1>2. CASE FlushJob(t)
  <2>1. PICK w \in Parts(dirty) :
          Goes(t, [ThreadIdle EXCEPT !.pc = IF w = None THEN "level" ELSE "write", !.writes = w])
    BY <1>2 DEF FlushJob
  <2> DEFINE pc == IF w = None THEN "level" ELSE "write"
             r == [ThreadIdle EXCEPT !.pc = pc, !.writes = w]
  <2>2. r = JobRecord(ThreadIdle, pc, w) /\ pc \in {"level", "write"} /\ Goes(t, r)
    BY <2>1 DEF JobRecord
  <2>3. w \in Blocks
    BY <1>1, PartFacts DEF CacheTypes
  <2> HIDE DEF pc, r
  <2>4. r \in ThreadStates /\ r.pc = pc /\ r.then = "level"
    BY <2>2, <2>3, IdleRecord, JobFields
  <2>5. m_max_use' = m_max_use /\ (AboveLow => AboveLow')
    BY <1>2 DEF FlushJob, bufferVars, AboveLow
  <2> QED
    BY <1>1, <2>2, <2>4, <2>5, GoesToCheck
<1>3. CASE TrimJob(t)
  <2> DEFINE r == [ThreadIdle EXCEPT !.pc = "level"]
  <2>1. Goes(t, r)
    BY <1>3 DEF TrimJob
  <2>2. r \in ThreadStates /\ r.pc = "level"
    BY IdleRecord, PcFields
  <2> HIDE DEF r
  <2>3. m_max_use' = m_max_use /\ (AboveLow => AboveLow')
    BY <1>3 DEF TrimJob, AboveLow
  <2> QED
    BY <1>1, <2>1, <2>2, <2>3, GoesToCheck
<1>4. CASE DoUncachedRead(t)
  <2> DEFINE r == [thread[t] EXCEPT !.pc = "level", !.read = 0]
  <2>1. Goes(t, r) /\ r = LevelRecord(thread[t])
    BY <1>4 DEF DoUncachedRead, LevelRecord
  <2> HIDE DEF r
  <2>2. r \in ThreadStates /\ r.pc = "level"
    BY <1>1, <2>1, LevelFields
  <2>3. PICK ok \in AllocOutcomes : AllocateQuietly(1, ok)
    BY <1>4 DEF DoUncachedRead
  <2>4. ok = TRUE /\ ok \in BOOLEAN
    BY DEF MemorySuffices
  <2>5. 1 \in Nat /\ 1 > 0
    OBVIOUS
  <2>6. m_max_use' = m_max_use /\ (ok /\ AboveLow => AboveLow')
    BY <1>1, <2>3, <2>4, <2>5, QuietFacts
  <2>7. AboveLow => AboveLow'
    BY <2>4, <2>6
  <2> QED
    BY <1>1, <2>1, <2>2, <2>6, <2>7, GoesToCheck
<1>5. CASE ReadAlloc(t)
  <2>1. PICK ok \in AllocOutcomes :
          /\ \E n \in IF ok THEN {thread[t].read} ELSE 1 .. thread[t].read : AllocateQuietly(n, ok)
          /\ Goes(t, [thread[t] EXCEPT !.pc = IF ok THEN "read" ELSE "uncached"])
    BY <1>5 DEF ReadAlloc
  <2>2. ok = TRUE /\ ok \in BOOLEAN
    BY DEF MemorySuffices
  <2> DEFINE r == [thread[t] EXCEPT !.pc = "read"]
  <2>3. Goes(t, r)
    BY <2>1, <2>2
  <2>4. r \in ThreadStates /\ r.pc = "read"
    BY <1>1, PcFields
  <2>5. thread[t].pc \in {"alloc", "uncached", "read"}
    BY <1>5 DEF ReadAlloc, At
  <2>6. thread[t].read \in Nat /\ thread[t].read > 0
    BY <2>5, ReadingFacts
  <2>7. AllocateQuietly(thread[t].read, ok)
    BY <2>1, <2>2
  <2>8. m_max_use' = m_max_use /\ (ok /\ AboveLow => AboveLow')
    BY <1>1, <2>2, <2>6, <2>7, QuietFacts
  <2>9. AboveLow => AboveLow'
    BY <2>2, <2>8
  <2> HIDE DEF r
  <2> QED
    BY <1>1, <2>3, <2>4, <2>8, <2>9, GoesToCheck
<1>6. CASE ReadDone(t)
  <2> DEFINE r == [thread[t] EXCEPT !.pc = "level", !.read = 0]
             n == thread[t].read
  <2>1. Goes(t, r) /\ r = LevelRecord(thread[t])
    BY <1>6 DEF ReadDone, LevelRecord
  <2> HIDE DEF r
  <2>2. r \in ThreadStates /\ r.pc = "level"
    BY <1>1, <2>1, LevelFields
  <2>3. m_max_use' = m_max_use /\ (AboveLow => AboveLow')
    <3>1. CASE UNCHANGED bufferVars
      BY <3>1 DEF bufferVars, AboveLow
    <3>2. CASE Free(n)
      <4>1. n \in Nat /\ n > 0 /\ HeldOf(thread[t]) = n
        BY <1>6, ReadingFacts DEF ReadDone, At
      <4>2. clean + lent + HeldOf(thread[t]) <= m_in_use
        BY <1>1, PartsOfUse
      <4> HIDE DEF n, HeldOf
      <4>3. n <= m_in_use
        BY <1>1, <4>1, <4>2 DEF CacheTypes, BufferTypes
      <4>4. FreeSome(n)
        BY <3>2, <4>1 DEF FreeSome
      <4> QED
        BY <1>1, <4>1, <4>3, <4>4, Frees, FreesAbove
    <3> QED
      BY <1>6, <3>1, <3>2 DEF ReadDone
  <2> QED
    BY <1>1, <2>1, <2>2, <2>3, GoesToCheck
<1>7. ASSUME NEW n \in ReadSizes, ReadJob(t, n) PROVE RestInv'
  <2>1. PICK pc \in {"alloc", "uncached"} : Goes(t, [ThreadIdle EXCEPT !.pc = pc, !.read = n])
    BY <1>7 DEF ReadJob
  <2> DEFINE r == [ThreadIdle EXCEPT !.pc = pc, !.read = n]
  <2>2. Goes(t, r) /\ r = ReadRecord(ThreadIdle, pc, n)
    BY <2>1 DEF ReadRecord
  <2>3. n \in Nat
    BY PressureAssumption DEF PressureAssumption
  <2> HIDE DEF r
  <2>4. r \in ThreadStates /\ r.pc = pc
    <3>1. pc \in {"alloc", "uncached", "read", "level"}
      OBVIOUS
    <3>2. ThreadIdle \in ThreadStates
      BY IdleRecord
    <3> QED
      BY ONLY <2>2, <2>3, <3>1, <3>2, ReadFields, SMTT(60)
  <2>5. PICK evict \in Nat : /\ evict <= clean /\ evict <= m_in_use
                             /\ FreeSome(evict) /\ clean' = clean - evict
    BY <1>7, ReadJobFrees
  <2>6. m_max_use' = m_max_use /\ (AboveLow => AboveLow')
    BY <1>1, <2>5, Frees, FreesAbove
  <2> QED
    BY <1>1, <2>2, <2>4, <2>6, GoesToCheck
<1> QED
  BY <1>2, <1>3, <1>4, <1>5, <1>6, <1>7
(* A step of the check leaves another that will check, or the pool below   *)
(* its watermark, or nothing dirty.                                        *)
LEMMA CheckRests ==
    ASSUME PressureInv, RestInv, NEW t \in Threads, NEW state \in 1 .. 2,
           \/ thread[t].pc = "level" /\ m_cache_check_state = 0
           \/ thread[t].pc = "again" /\ state = m_cache_check_state,
           CheckCacheLevel(t, state)
    PROVE  RestInv'
<1>1. PressureTypes /\ BuffersAgree /\ BufferTypes /\ ThreadTypes /\ CheckerInv /\ dirty \in Blocks
  BY DEF PressureInv, PressureTypes, CacheTypes
<1>2. thread[t].pc \in {"level", "again"}
  OBVIOUS
<1>3. PICK evict \in Nat, rec \in ThreadStates, r \in ThreadStates :
              /\ evict <= m_in_use /\ FreeSome(evict)
              /\ Takes(t, rec, r)
              /\ (Ends(state, r) /\ NothingToDo(t, rec)) \/ Writes(state, rec, r)
              /\ m_exceeded_max_size' /\ AboveLow =>
                    rec.need # 0 /\ m_in_use' - rec.need <= m_low_watermark'
  BY <1>1, <1>2, CheckGoes
<1>4. /\ m_in_use' = m_in_use - evict /\ m_max_use' = m_max_use /\ m_low_watermark' = m_low_watermark
      /\ trim' = trim /\ (m_exceeded_max_size' => m_exceeded_max_size) /\ BufferTypes'
      /\ AboveLow => AboveLow'
  BY <1>1, <1>3, Frees, FreesAbove
<1>5. ASSUME m_max_use' = MaxUse, m_exceeded_max_size', dirty' # None
      PROVE  Attended'
  <2>1. AboveLow /\ rec.need # 0 /\ m_in_use' - rec.need <= m_low_watermark'
    BY <1>3, <1>4, <1>5 DEF RestInv
  <2>2. Goes(t, r)
    BY <1>3 DEF Takes
  <2>3. CASE Ends(state, r) /\ NothingToDo(t, rec)
    <3>1. PICK u \in Writing : u # t
      BY <1>5, <2>1, <2>3 DEF NothingToDo, Ends
    <3>2. u \in Threads /\ thread[u].pc = "write" /\ thread[u] \in ThreadStates
      BY <1>1, <3>1 DEF Writing, At, ThreadTypes
    <3>3. thread[u].then = "level"
      <4>1. CASE m_cache_check_state = 0
        BY <1>1, <3>2, <4>1 DEF CheckerInv, Checking
      <4>2. CASE thread[t].pc = "again"
        BY <1>1, <3>1, <3>2, <4>2 DEF CheckerInv, Checking, At
      <4> QED
        BY <4>1, <4>2
    <3>4. thread'[u] = thread[u]
      BY <1>1, <2>2, <3>1, <3>2 DEF ThreadTypes, Goes
    <3>5. WillCheck(u)'
      BY <3>2, <3>3, <3>4 DEF WillCheck, ChecksLater
    <3> QED
      BY <3>2, <3>5 DEF Attended
  <2>4. CASE Writes(state, rec, r)
    <3>1. r.pc = "write" /\ r.then = "second" /\ r.need = rec.need - Size(r.writes)
      BY <1>5, <2>4 DEF Writes
    <3>2. r.need # 0 \/ m_in_use' - Size(r.writes) <= m_low_watermark'
      <4>1. rec.need \in Int /\ Size(r.writes) \in Nat
        BY HeldFacts DEF ThreadStates
      <4>2. CASE r.need = 0
        <5>1. Size(r.writes) = rec.need
          BY <3>1, <4>1, <4>2
        <5> QED
          BY <2>1, <5>1
      <4> QED
        BY <4>2
    <3>3. ChecksLater(r, m_in_use', m_low_watermark')
      BY <3>1, <3>2 DEF ChecksLater
    <3> QED
      BY <1>1, <2>2, <3>3, AttendedBy
  <2> QED
    BY <1>3, <2>3, <2>4
<1>6. None' = None
  BY DEF None
<1> HIDE DEF Attended, AboveLow, None
<1> QED
  BY <1>4, <1>5, <1>6 DEF RestInv

LEMMA WrittenRests ==
    ASSUME PressureInv, RestInv, NEW t \in Threads, Written(t)
    PROVE  RestInv'
<1>1. /\ PressureTypes /\ BuffersAgree /\ BufferTypes /\ ThreadTypes /\ CheckerInv
      /\ thread[t] \in ThreadStates /\ clean \in Nat /\ lent \in Nat /\ m_in_use \in Nat
  BY DEF PressureInv, PressureTypes, ThreadTypes, CacheTypes, BufferTypes
<1>2. PICK evict \in Nat, rec \in ThreadStates, r \in ThreadStates :
         WrittenFrees(t, evict, rec) /\ WrittenThen(t, rec, r)
  BY WrittenGoes
<1>3. /\ thread[t].pc = "written" /\ outstanding_flush' = outstanding_flush
      /\ receiving' = receiving
  BY DEF Written, At, peerVars
<1> DEFINE size == Size(thread[t].writes)
<1>4. size \in Nat /\ HeldOf(thread[t]) = size
  BY <1>1, <1>3, HeldFacts DEF HeldOf
<1>5. /\ evict <= clean + size /\ FreeSome(evict) /\ rec.need = thread[t].need
      /\ evict = NumToEvict(0) \/ evict = clean + size
  BY <1>2 DEF WrittenFrees
<1>6. evict <= m_in_use
  <2>1. clean + lent + HeldOf(thread[t]) <= m_in_use
    BY <1>1, PartsOfUse
  <2> HIDE DEF size, HeldOf
  <2> QED
    BY <1>1, <1>4, <1>5, <2>1
<1>7. /\ m_in_use' = m_in_use - evict /\ m_max_use' = m_max_use /\ m_low_watermark' = m_low_watermark
      /\ trim' = trim /\ (m_exceeded_max_size' => m_exceeded_max_size) /\ BufferTypes'
      /\ AboveLow => AboveLow'
  BY <1>1, <1>5, <1>6, Frees, FreesAbove
<1>8. Goes(t, r) /\ Takes(t, rec, r)
  BY <1>2 DEF WrittenThen, Takes
<1>9. m_in_use' \in Nat /\ m_in_use' <= m_in_use
  BY <1>1, <1>6, <1>7
<1>10. ASSUME m_max_use' = MaxUse, m_exceeded_max_size', dirty' # None
       PROVE  Attended'
  <2>1. AboveLow /\ (dirty # None => Attended) /\ AboveLow'
    BY <1>7, <1>10 DEF RestInv
  <2>2. CASE Levels(t, r)
    <3>1. ChecksLater(r, m_in_use', m_low_watermark')
      BY <2>2 DEF Levels, ChecksLater
    <3> QED
      BY <1>1, <1>8, <3>1, AttendedBy
  <2>3. ASSUME Ends(m_cache_check_state, r), m_cache_check_state \in 1 .. 2, WillCheck(t) => Attended'
        PROVE  Attended'
    <3>1. dirty' = dirty
      BY <2>3 DEF Ends
    <3>2. Attended
      BY <1>10, <2>1, <3>1
    <3>3. m_cache_check_state = 2 => Attended'
      <4>1. ASSUME m_cache_check_state = 2 PROVE Attended'
        <5>1. r.pc = "again"
          BY <2>3, <4>1 DEF Ends
        <5>2. ChecksLater(r, m_in_use', m_low_watermark')
          BY <5>1 DEF ChecksLater
        <5> QED
          BY <1>1, <1>8, <5>2, AttendedBy
      <4> QED
        BY <4>1
    <3> HIDE DEF Attended, WillCheck
    <3> QED
      BY <1>1, <1>3, <1>7, <1>8, <1>9, <2>3, <3>2, <3>3, AttendedStays
  <2>4. CASE thread[t].then = "end" /\ m_cache_check_state \in 1 .. 2 /\ Ends(m_cache_check_state, r)
    <3>1. ~ WillCheck(t)
      BY <1>3, <2>4 DEF WillCheck, ChecksLater
    <3> QED
      BY <2>3, <2>4, <3>1
  <2>5. CASE /\ thread[t].then = "second" /\ Checking(t) /\ m_cache_check_state \in 1 .. 2
             /\ Ends(m_cache_check_state, r) /\ NothingToDo(t, rec)
    <3>1. CASE rec.need = 0
      <4>1. ~ WillCheck(t)
        <5>1. ~ (m_in_use - size <= m_low_watermark)
          <6>1. m_low_watermark \in Nat
            BY <1>1, LowFacts DEF BufferTypes
          <6>2. m_in_use' > m_low_watermark
            BY <1>7, <1>10, <2>1 DEF AboveLow
          <6>3. NumToEvict(0) \in Nat /\ m_in_use - NumToEvict(0) <= m_low_watermark
            BY <1>1, <1>7, <1>10, NumFacts
          <6> DEFINE n == NumToEvict(0)
          <6> HIDE DEF size, n
          <6>4. n \in Nat /\ m_in_use - n <= m_low_watermark /\ (evict = n \/ evict = clean + size)
            BY <1>5, <6>3 DEF n
          <6>5. m_in_use - evict > m_low_watermark
            BY <1>7, <6>2
          <6> QED
            BY <1>1, <1>4, <6>1, <6>4, <6>5
        <5> QED
          BY <1>3, <1>5, <2>5, <3>1, <5>1 DEF WillCheck, ChecksLater
      <4> QED
        BY <2>3, <2>5, <4>1
    <3>2. CASE Writing \ {t} # {}
      <4>1. PICK u \in Writing : u # t
        BY <3>2
      <4>2. u \in Threads /\ thread[u].pc = "write" /\ thread[u] \in ThreadStates
        BY <1>1, <4>1 DEF Writing, At, ThreadTypes
      <4>3. thread[u].then = "level"
        BY <1>1, <2>5, <4>1, <4>2 DEF CheckerInv, Checking
      <4>4. thread'[u] = thread[u]
        BY <1>1, <1>8, <4>1, <4>2 DEF ThreadTypes, Goes
      <4>5. WillCheck(u)'
        BY <4>2, <4>3, <4>4 DEF WillCheck, ChecksLater
      <4> QED
        BY <4>2, <4>5 DEF Attended
    <3>3. CASE dirty = None
      BY <1>10, <2>5, <3>3 DEF Ends
    <3> QED
      BY <2>5, <3>1, <3>2, <3>3 DEF NothingToDo
  <2>6. CASE WritesRest(m_cache_check_state, r)
    BY <1>10, <2>6 DEF WritesRest
  <2> QED
    BY <1>2, <2>2, <2>4, <2>5, <2>6 DEF WrittenThen
<1>11. None' = None
  BY DEF None
<1> HIDE DEF Attended, AboveLow, None
<1> QED
  BY <1>7, <1>10, <1>11 DEF RestInv
LEMMA ThreadRests ==
    ASSUME PressureInv, RestInv, NEW t \in Threads,
           WriteEnds(t) \/ PerformJobEnd(t) \/ CheckAgain(t) \/ JobDone(t)
    PROVE  RestInv'
<1>1. /\ PressureTypes /\ BufferTypes /\ ThreadTypes /\ CheckerInv
      /\ thread[t] \in ThreadStates /\ m_in_use \in Nat /\ m_cache_check_state \in 0 .. 2
  BY DEF PressureInv, PressureTypes, ThreadTypes, BufferTypes
<1>2. ASSUME UNCHANGED <<bufferVars, cacheVars>>, (Attended => Attended')
      PROVE  RestInv'
  <2>1. /\ m_in_use' = m_in_use /\ m_max_use' = m_max_use /\ m_low_watermark' = m_low_watermark
        /\ m_exceeded_max_size' = m_exceeded_max_size /\ dirty' = dirty
    BY <1>2 DEF bufferVars, cacheVars
  <2>2. None' = None /\ (AboveLow => AboveLow')
    BY <2>1 DEF None, AboveLow
  <2> HIDE DEF Attended, AboveLow, None
  <2> QED
    BY <1>2, <2>1, <2>2 DEF RestInv
<1>3. ASSUME UNCHANGED <<bufferVars, cacheVars>>, Attended
      PROVE  /\ m_in_use' \in Nat /\ m_in_use' <= m_in_use /\ m_low_watermark' = m_low_watermark
             /\ outstanding_flush' = outstanding_flush /\ trim' = trim
  BY <1>1, <1>3 DEF bufferVars, cacheVars
<1>4. CASE WriteEnds(t)
  <2> DEFINE r == [thread[t] EXCEPT !.pc = "written"]
  <2>1. /\ thread[t].pc = "write" /\ Goes(t, r) /\ UNCHANGED <<bufferVars, cacheVars, receiving>>
        /\ m_cache_check_state' = m_cache_check_state
    BY <1>4 DEF WriteEnds, At, peerVars
  <2>2. /\ r \in ThreadStates /\ r.pc = "written" /\ r.writes = thread[t].writes
        /\ r.then = thread[t].then /\ r.need = thread[t].need
    BY <1>1, PcFields
  <2> HIDE DEF r
  <2>3. ASSUME WillCheck(t) PROVE Attended'
    <3>1. m_in_use' = m_in_use /\ m_low_watermark' = m_low_watermark
      BY <2>1 DEF bufferVars
    <3>2. ChecksLater(r, m_in_use', m_low_watermark')
      BY <2>1, <2>2, <2>3, <3>1 DEF WillCheck, ChecksLater
    <3> QED
      BY <1>1, <2>1, <2>2, <3>2, AttendedBy
  <2>4. m_cache_check_state = 2 => Attended'
    BY <2>1 DEF Attended
  <2>5. Attended => Attended'
    <3> HIDE DEF Attended, WillCheck
    <3> QED
      BY <1>1, <1>3, <2>1, <2>3, <2>4, AttendedStays
  <2> QED
    BY <1>2, <2>1, <2>5
<1>5. CASE JobDone(t)
  <2>1. /\ thread[t].pc = "done" /\ Goes(t, ThreadIdle) /\ UNCHANGED <<bufferVars, cacheVars, receiving>>
        /\ m_cache_check_state' = m_cache_check_state
    BY <1>5 DEF JobDone, At, peerVars
  <2>2. ~ WillCheck(t)
    BY <2>1 DEF WillCheck, ChecksLater
  <2>3. m_cache_check_state = 2 => Attended'
    BY <2>1 DEF Attended
  <2>4. Attended => Attended'
    <3> HIDE DEF Attended, WillCheck
    <3> QED
      BY <1>1, <1>3, <2>1, <2>2, <2>3, AttendedStays
  <2> QED
    BY <1>2, <2>1, <2>4
<1>6. CASE CheckAgain(t)
  <2>1. thread[t].pc = "again" /\ CheckCacheLevel(t, m_cache_check_state)
    BY <1>6 DEF CheckAgain, At
  <2>2. Checking(t)
    BY <2>1 DEF Checking, At
  <2>3. m_cache_check_state \in 1 .. 2
    BY <1>1, <2>2 DEF CheckerInv
  <2> QED
    BY <2>1, <2>3, CheckRests
<1>7. CASE PerformJobEnd(t)
  <2>1. CASE m_cache_check_state = 0
    <3>1. CheckCacheLevel(t, 1) /\ 1 \in 1 .. 2 /\ thread[t].pc = "level"
      BY <1>7, <2>1 DEF PerformJobEnd, At
    <3> QED
      BY <2>1, <3>1, CheckRests
  <2>2. CASE m_cache_check_state # 0
    <3>1. m_cache_check_state' = 2 /\ UNCHANGED <<bufferVars, cacheVars>>
      BY <1>7, <2>2 DEF PerformJobEnd
    <3>2. Attended'
      BY <3>1 DEF Attended
    <3> QED
      BY <1>2, <3>1, <3>2
  <2> QED
    BY <2>1, <2>2
<1> QED
  BY <1>4, <1>5, <1>6, <1>7

LEMMA RestStep ==
    ASSUME MemorySuffices, SizeNotRestored, PressureInv, RestInv, [Next]_vars
    PROVE  RestInv'
<1>1. ASSUME NEW t \in Threads, ThreadStep(t) \/ \E n \in ReadSizes : ReadJob(t, n)
      PROVE  RestInv'
  BY <1>1, JobRests, WrittenRests, ThreadRests DEF ThreadStep
<1>2. CASE UNCHANGED vars
  BY <1>2, RestStays DEF vars, bufferVars, peerVars, cacheVars
<1> QED
  BY <1>1, <1>2, NetRests DEF Next, NetStep

(* At rest every thread is idle, so that a peer that waits has a dirty     *)
(* block, and is on the list of a pool that counts as exceeded: somebody   *)
(* would yet check.                                                        *)
LEMMA RestLeavesNobody == PressureInv /\ RestInv => NobodyLeftWaiting
<1> SUFFICES ASSUME PressureInv, RestInv, Rest, m_max_use = MaxUse, NEW p \in bw_disk
             PROVE  FALSE
  BY DEF NobodyLeftWaiting
<1>1. /\ \A t \in Threads : thread[t] = ThreadIdle
      /\ ~ outstanding_flush /\ ~ trim /\ posted = <<>> /\ completions = None /\ receiving = {}
  BY DEF Rest, Between
<1>2. WaitersAreKnown /\ WritesAccounted /\ CheckerInv /\ p \in Peers /\ dirty \in Blocks
  BY DEF PressureInv, PressureTypes, CacheTypes
<1>3. outstanding_writing[p] > 0 /\ m_observers[p] > 0
  BY <1>1, <1>2 DEF WaitersAreKnown
<1>4. m_exceeded_max_size
  BY <1>2, <1>3 DEF WaitersAreKnown, NoObservers
<1>5. SumFunction(Owed(p)) = 0
  <2> DEFINE f == Owed(p)
  <2>1. None[p] = 0
    BY <1>2 DEF None
  <2>2. \A t \in Threads : thread[t].writes[p] + thread[t].over[p] = 0
    BY <1>1, <2>1, IdleRecord
  <2>3. f \in [Threads -> Int] /\ \A t \in Threads : f[t] = 0
    BY <2>2 DEF Owed
  <2>4. IsFiniteSet(Threads)
    BY PressureAssumption DEF PressureAssumption
  <2> HIDE DEF f
  <2>5. SumFunction(f) = 0
    BY <2>3, <2>4, SumZero
  <2> QED
    BY <2>5 DEF f
<1>6. dirty # None
  <2>1. outstanding_writing[p] = dirty[p] + completions[p] + SumFunction(Owed(p))
    BY <1>2 DEF WritesAccounted
  <2>2. completions[p] = 0 /\ None[p] = 0
    BY <1>1, <1>2 DEF None
  <2>3. dirty[p] \in Nat
    BY <1>2 DEF Blocks
  <2>4. dirty[p] # 0
    BY <1>3, <1>5, <2>1, <2>2, <2>3
  <2> QED
    BY <2>2, <2>4
<1>7. \A t \in Threads : ~ WillCheck(t) /\ ~ Checking(t)
  BY <1>1, IdleRecord DEF WillCheck, ChecksLater, Checking, At
<1>8. m_cache_check_state = 0
  BY <1>2, <1>7 DEF CheckerInv
<1>9. ~ Attended
  BY <1>1, <1>7, <1>8 DEF Attended
<1> QED
  BY <1>4, <1>6, <1>9 DEF RestInv

(* When the disk has come to rest no peer waits for it, while allocations  *)
(* succeed and the cache has the size it began with: try_flush_write_      *)
(* blocks, the threads that leave their check to another (perform_job) and *)
(* check_buffer_level together never lose the last check.                  *)
THEOREM WaitingTheorem ==
    ASSUME MemorySuffices, SizeNotRestored
    PROVE  Spec => []NobodyLeftWaiting
<1>1. Init => PressureInv /\ RestInv
  <2>1. Init => RestInv
    BY DEF Init, BufferInit, RestInv, AboveLow
  <2> QED
    BY <2>1, PressureStarts
<1>2. PressureInv /\ RestInv /\ [Next]_vars => PressureInv' /\ RestInv'
  BY PressureStep, RestStep
<1>3. PressureInv /\ RestInv => NobodyLeftWaiting
  BY RestLeavesNobody
<1> QED
  BY <1>1, <1>2, <1>3, PTL DEF Spec
=============================================================================

------------------------ MODULE DiskJobFenceProofs ------------------------
(***************************************************************************)
(* Proofs about disk_job_fence for any set of jobs, any number of fences   *)
(* and any order in which jobs arrive and complete.                        *)
(***************************************************************************)
EXTENDS DiskJobFence, FiniteSetTheorems, TLAPS

(* The inductive invariant. *)
FenceInv ==
    /\ FenceTypeOK /\ CountersAgree
    /\ FenceIsExclusive /\ FenceIsHeld /\ HeadIsFence
    /\ OnePlace /\ FencesApart

-----------------------------------------------------------------------------
(* What is in a sequence after one element, or two, are added at the end. *)
LEMMA AppendElements ==
    ASSUME NEW S, NEW s \in Seq(S), NEW x \in S, NEW y \in S
    PROVE  /\ Append(s, x) \in Seq(S)
           /\ Len(Append(s, x)) = Len(s) + 1
           /\ DOMAIN Append(s, x) = 1 .. Len(s) + 1
           /\ \A i \in 1 .. Len(s) : Append(s, x)[i] = s[i]
           /\ Append(s, x)[Len(s) + 1] = x
           /\ s \o <<x, y>> \in Seq(S)
           /\ Len(s \o <<x, y>>) = Len(s) + 2
           /\ DOMAIN (s \o <<x, y>>) = 1 .. Len(s) + 2
           /\ \A i \in 1 .. Len(s) : (s \o <<x, y>>)[i] = s[i]
           /\ (s \o <<x, y>>)[Len(s) + 1] = x
           /\ (s \o <<x, y>>)[Len(s) + 2] = y
OBVIOUS

(* The blocked jobs after one job was added. *)
LEMMA BlockedAppend ==
    ASSUME FenceTypeOK, NEW j \in Jobs, m_blocked_jobs' = Append(m_blocked_jobs, j)
    PROVE  Blocked' = Blocked \cup {j}
<1>1. m_blocked_jobs \in Seq(Jobs)
  BY DEF FenceTypeOK
<1>2. DOMAIN m_blocked_jobs = 1 .. Len(m_blocked_jobs)
  BY <1>1
<1> QED
  BY <1>1, <1>2, AppendElements DEF Blocked

(* No fence is up: nothing is blocked and no fence job is in progress. *)
LEMMA NoFence ==
    ASSUME FenceInv, m_has_fence = 0
    PROVE  /\ m_blocked_jobs = <<>>
           /\ Blocked = {}
           /\ fence \subseteq finished
           /\ fence \cap in_progress = {}
<1>1. fence \subseteq finished
  BY FS_EmptySet DEF FenceInv, CountersAgree
<1>2. m_blocked_jobs = <<>>
  BY DEF FenceInv, HeadIsFence
<1> QED
  BY <1>1, <1>2 DEF FenceInv, OnePlace, Blocked

(* The counter of outstanding jobs tells whether there are any. *)
LEMMA Outstanding ==
    ASSUME CountersAgree
    PROVE  /\ m_outstanding_jobs = 0 <=> in_progress = {}
           /\ \A j : in_progress = {j} => m_outstanding_jobs = 1
BY FS_EmptySet, FS_Singleton DEF CountersAgree

-----------------------------------------------------------------------------
(* The constructor establishes the invariant. *)
LEMMA FenceInvInit == FenceInit => FenceInv
<1> SUFFICES ASSUME FenceInit PROVE FenceInv
  OBVIOUS
<1> USE DEF FenceInit
<1>1. FenceTypeOK
  BY DEF FenceTypeOK
<1>2. CountersAgree
  <2>1. fence \ finished = {}
    OBVIOUS
  <2> QED
    BY <2>1, FS_EmptySet DEF CountersAgree
<1>3. FenceIsExclusive /\ FenceIsHeld /\ HeadIsFence
  BY DEF FenceIsExclusive, FenceIsHeld, HeadIsFence
<1>4. OnePlace /\ FencesApart
  BY DEF OnePlace, FencesApart, Blocked
<1> QED
  BY <1>1, <1>2, <1>3, <1>4 DEF FenceInv

(* is_blocked, when the job is let through and when it is queued. *)
LEMMA IsBlockedKeepsInv ==
    ASSUME FenceInv, NEW j \in Jobs, IsBlocked(j)
    PROVE  FenceInv'
<1> USE DEF FenceInv
<1>0. /\ j \notin in_progress /\ j \notin Blocked /\ j \notin finished /\ j \notin fence
      /\ UNCHANGED <<m_has_fence, fence, finished>>
  BY DEF IsBlocked, Fresh, OnePlace
<1>1. CASE m_has_fence = 0
  <2>1. /\ in_progress' = in_progress \cup {j}
        /\ m_outstanding_jobs' = m_outstanding_jobs + 1
        /\ UNCHANGED m_blocked_jobs
        /\ Blocked' = Blocked
    BY <1>1 DEF IsBlocked, LetThrough, Blocked
  <2>2. m_blocked_jobs = <<>> /\ fence \cap in_progress = {} /\ Blocked = {}
    BY <1>1, NoFence
  <2>3. FenceTypeOK'
    BY <1>0, <2>1 DEF FenceTypeOK
  <2>4. CountersAgree'
    BY <1>0, <2>1, FS_AddElement DEF CountersAgree
  <2>5. FenceIsExclusive' /\ FenceIsHeld' /\ HeadIsFence'
    BY <1>0, <1>1, <2>1, <2>2 DEF FenceIsExclusive, FenceIsHeld, HeadIsFence
  <2>6. OnePlace'
    BY <1>0, <2>1, <2>2 DEF OnePlace
  <2>7. FencesApart'
    BY <1>0, <2>1, <2>2 DEF FencesApart
  <2> QED
    BY <2>3, <2>4, <2>5, <2>6, <2>7
<1>2. CASE m_has_fence # 0
  <2>1. /\ m_blocked_jobs' = Append(m_blocked_jobs, j)
        /\ UNCHANGED <<in_progress, m_outstanding_jobs>>
    BY <1>2 DEF IsBlocked
  <2>2. Blocked' = Blocked \cup {j}
    BY <2>1, BlockedAppend
  <2> DEFINE b == m_blocked_jobs
  <2>3. /\ b \in Seq(Jobs) /\ Len(b) \in Nat
        /\ DOMAIN b = 1 .. Len(b) /\ DOMAIN b' = 1 .. Len(b) + 1
        /\ \A i \in 1 .. Len(b) : b'[i] = b[i]
        /\ b'[Len(b) + 1] = j /\ b' # <<>> /\ b' \in Seq(Jobs)
    BY <2>1, AppendElements DEF FenceTypeOK
  <2>4. FenceTypeOK'
    BY <1>0, <2>1, <2>3 DEF FenceTypeOK
  <2>5. CountersAgree' /\ FenceIsExclusive' /\ FenceIsHeld'
    BY <1>0, <2>1 DEF CountersAgree, FenceIsExclusive, FenceIsHeld
  <2>6. HeadIsFence'
    BY <1>0, <1>2, <2>1, <2>3 DEF HeadIsFence
  <2>7. OnePlace'
    <3>1. \A i, k \in DOMAIN b' : b'[i] = b'[k] => i = k
      BY <1>0, <2>3 DEF OnePlace, Blocked
    <3> QED
      BY <1>0, <2>1, <2>2, <3>1 DEF OnePlace
  <2>8. FencesApart'
    <3>1. \A i \in DOMAIN b' : i > 1 /\ b'[i] \in fence' => b'[i - 1] \notin fence'
      BY <1>0, <2>3 DEF FencesApart
    <3>2. fence' \cap in_progress' # {} => b'[1] \notin fence'
      <4>1. CASE b = <<>>
        BY <4>1, <1>0, <2>3
      <4>2. CASE b # <<>>
        BY <4>2, <1>0, <2>1, <2>3 DEF FencesApart
      <4> QED
        BY <4>1, <4>2
    <3> QED
      BY <3>1, <3>2 DEF FencesApart
  <2> QED
    BY <2>4, <2>5, <2>6, <2>7, <2>8
<1> QED
  BY <1>1, <1>2

(* raise_fence: the fence job is counted, and is new in all its places. *)
LEMMA FenceRaised ==
    ASSUME FenceInv, NEW j \in Jobs, NEW fj \in Jobs, RaiseFence(j, fj)
    PROVE  /\ j # fj
           /\ j \notin in_progress /\ j \notin Blocked /\ j \notin finished /\ j \notin fence
           /\ fj \notin in_progress /\ fj \notin Blocked /\ fj \notin finished /\ fj \notin fence
           /\ fence' = fence \cup {j}
           /\ m_has_fence' = m_has_fence + 1
           /\ m_has_fence' > 0
BY DEF FenceInv, FenceTypeOK, RaiseFence, Fresh

(* raise_fence keeps the invariant, whichever of its three answers it gives. *)
LEMMA RaiseFenceKeepsInv ==
    ASSUME FenceInv, NEW j \in Jobs, NEW fj \in Jobs, RaiseFence(j, fj)
    PROVE  FenceInv'
<1> USE DEF FenceInv
<1> DEFINE b == m_blocked_jobs
<1>0. /\ j # fj
      /\ j \notin in_progress /\ j \notin Blocked /\ j \notin finished /\ j \notin fence
      /\ fj \notin in_progress /\ fj \notin Blocked /\ fj \notin finished /\ fj \notin fence
      /\ fence' = fence \cup {j}
      /\ m_has_fence' = m_has_fence + 1
      /\ m_has_fence' > 0
  BY FenceRaised
<1>1. b \in Seq(Jobs) /\ Len(b) \in Nat /\ DOMAIN b = 1 .. Len(b)
  BY DEF FenceTypeOK
<1>2. CASE PostFence(j, fj)
  <2>1. /\ m_has_fence = 0 /\ m_outstanding_jobs = 0
        /\ in_progress' = in_progress \cup {j}
        /\ m_outstanding_jobs' = m_outstanding_jobs + 1
        /\ finished' = finished \cup {fj}
        /\ m_blocked_jobs' = m_blocked_jobs /\ Blocked' = Blocked
    BY <1>2 DEF PostFence, LetThrough, Blocked
  <2>2. b = <<>> /\ Blocked = {} /\ in_progress = {} /\ fence \subseteq finished
    BY <2>1, NoFence, Outstanding
  <2>3. FenceTypeOK'
    BY <1>0, <2>1 DEF FenceTypeOK
  <2>4. CountersAgree'
    <3>1. fence' \ finished' = (fence \ finished) \cup {j}
      BY <1>0, <2>1
    <3>2. /\ IsFiniteSet((fence \ finished) \cup {j})
          /\ Cardinality((fence \ finished) \cup {j}) = m_has_fence + 1
      BY <1>0, FS_AddElement DEF CountersAgree
    <3>3. IsFiniteSet(in_progress') /\ Cardinality(in_progress') = m_outstanding_jobs'
      BY <1>0, <2>1, FS_AddElement DEF CountersAgree
    <3> QED
      BY <1>0, <3>1, <3>2, <3>3 DEF CountersAgree
  <2>5. FenceIsExclusive' /\ FenceIsHeld' /\ HeadIsFence'
    BY <1>0, <2>1, <2>2 DEF FenceIsExclusive, FenceIsHeld, HeadIsFence
  <2>6. OnePlace' /\ FencesApart'
    BY <1>0, <2>1, <2>2 DEF OnePlace, FencesApart
  <2> QED
    BY <2>3, <2>4, <2>5, <2>6
<1>3. CASE PostFlush(j, fj)
  <2>1. /\ m_has_fence = 0 /\ m_outstanding_jobs > 0
        /\ in_progress' = in_progress \cup {fj}
        /\ m_outstanding_jobs' = m_outstanding_jobs + 1
        /\ finished' = finished
        /\ m_blocked_jobs' = Append(m_blocked_jobs, j)
    BY <1>3 DEF PostFlush, LetThrough
  <2>2. b = <<>> /\ Blocked = {} /\ fence \cap in_progress = {} /\ fence \subseteq finished
    BY <2>1, NoFence
  <2>3. b' = <<j>> /\ DOMAIN b' = {1} /\ b'[1] = j /\ b' \in Seq(Jobs) /\ b' # <<>>
    BY <2>1, <2>2
  <2>4. Blocked' = {j}
    BY <2>3 DEF Blocked
  <2>5. FenceTypeOK'
    BY <1>0, <2>1, <2>3 DEF FenceTypeOK
  <2>6. CountersAgree'
    <3>1. fence' \ finished' = (fence \ finished) \cup {j}
      BY <1>0, <2>1
    <3>2. /\ IsFiniteSet((fence \ finished) \cup {j})
          /\ Cardinality((fence \ finished) \cup {j}) = m_has_fence + 1
      BY <1>0, FS_AddElement DEF CountersAgree
    <3>3. IsFiniteSet(in_progress') /\ Cardinality(in_progress') = m_outstanding_jobs'
      BY <1>0, <2>1, FS_AddElement DEF CountersAgree
    <3> QED
      BY <1>0, <3>1, <3>2, <3>3 DEF CountersAgree
  <2>7. fence' \cap in_progress' = {}
    BY <1>0, <2>1, <2>2
  <2>8. FenceIsExclusive' /\ FenceIsHeld' /\ HeadIsFence'
    BY <1>0, <2>1, <2>3, <2>7 DEF FenceIsExclusive, FenceIsHeld, HeadIsFence, FenceTypeOK
  <2>9. OnePlace' /\ FencesApart'
    BY <1>0, <2>1, <2>2, <2>3, <2>4, <2>7 DEF OnePlace, FencesApart
  <2> QED
    BY <2>5, <2>6, <2>8, <2>9
<1>4. CASE PostNone(j, fj)
  <2>1. /\ m_has_fence > 0
        /\ in_progress' = in_progress
        /\ m_outstanding_jobs' = m_outstanding_jobs
        /\ finished' = finished
        /\ b' = b \o <<fj, j>>
    BY <1>4 DEF PostNone
  <2>2. /\ b' \in Seq(Jobs) /\ Len(b') = Len(b) + 2 /\ DOMAIN b' = 1 .. Len(b) + 2
        /\ \A i \in 1 .. Len(b) : b'[i] = b[i]
        /\ b'[Len(b) + 1] = fj /\ b'[Len(b) + 2] = j /\ b' # <<>>
    BY <1>1, <2>1, AppendElements
  <2>3. Blocked' = Blocked \cup {j, fj}
    BY <1>1, <2>2 DEF Blocked
  <2>4. FenceTypeOK'
    BY <1>0, <2>1, <2>2 DEF FenceTypeOK
  <2>5. CountersAgree'
    <3>1. fence' \ finished' = (fence \ finished) \cup {j}
      BY <1>0, <2>1
    <3>2. /\ IsFiniteSet((fence \ finished) \cup {j})
          /\ Cardinality((fence \ finished) \cup {j}) = m_has_fence + 1
      BY <1>0, FS_AddElement DEF CountersAgree
    <3>3. IsFiniteSet(in_progress') /\ Cardinality(in_progress') = m_outstanding_jobs'
      BY <1>0, <2>1, FS_AddElement DEF CountersAgree
    <3> QED
      BY <1>0, <3>1, <3>2, <3>3 DEF CountersAgree
  <2>6. fence' \cap in_progress' = fence \cap in_progress
    BY <1>0, <2>1
  <2>7. FenceIsExclusive' /\ FenceIsHeld'
    BY <1>0, <2>1, <2>6 DEF FenceIsExclusive, FenceIsHeld
  <2>8. HeadIsFence'
    <3>1. SUFFICES ASSUME fence \cap in_progress = {} PROVE b'[1] \in fence'
      BY <1>0, <2>2, <2>6 DEF HeadIsFence
    <3>2. b # <<>> /\ b[1] \in fence
      BY <2>1, <3>1 DEF HeadIsFence
    <3>3. b'[1] = b[1]
      BY <1>1, <2>2, <3>2
    <3> QED
      BY <1>0, <3>2, <3>3
  <2>9. OnePlace'
    <3>a. /\ \A i, k \in 1 .. Len(b) : b[i] = b[k] => i = k
          /\ \A i \in 1 .. Len(b) : b[i] # j /\ b[i] # fj
          /\ j # fj /\ Len(b) \in Nat
      BY <1>0, <1>1 DEF OnePlace, Blocked
    <3>b. \A i \in 1 .. Len(b) + 2 : i \in 1 .. Len(b) \/ i = Len(b) + 1 \/ i = Len(b) + 2
      BY <3>a
    <3>1. \A i, k \in DOMAIN b' : b'[i] = b'[k] => i = k
      BY ONLY <2>2, <3>a, <3>b
    <3>2. /\ Blocked \cap in_progress = {}
          /\ finished \cap (Blocked \cup in_progress) = {}
          /\ fence \subseteq Blocked \cup in_progress \cup finished
      BY DEF OnePlace
    <3>3. /\ Blocked' \cap in_progress' = {}
          /\ finished' \cap (Blocked' \cup in_progress') = {}
          /\ fence' \subseteq Blocked' \cup in_progress' \cup finished'
      BY ONLY <1>0, <2>1, <2>3, <3>2
    <3> QED
      BY ONLY <3>1, <3>3 DEF OnePlace
  <2>10. FencesApart'
    <3>0. \A i \in 1 .. Len(b) : b[i] # j
      BY <1>0, <1>1 DEF Blocked
    <3>1. \A i \in DOMAIN b' : i > 1 /\ b'[i] \in fence' => b'[i - 1] \notin fence'
      BY <1>0, <1>1, <2>2, <3>0 DEF FencesApart
    <3>2. fence' \cap in_progress' # {} => b'[1] \notin fence'
      <4>1. CASE b = <<>>
        BY <4>1, <1>0, <2>2
      <4>2. CASE b # <<>>
        BY <4>2, <1>0, <1>1, <2>2, <2>6, <3>0 DEF FencesApart
      <4> QED
        BY <4>1, <4>2
    <3> QED
      BY <3>1, <3>2 DEF FencesApart
  <2> QED
    BY <2>4, <2>5, <2>7, <2>8, <2>9, <2>10
<1> QED
  BY <1>2, <1>3, <1>4 DEF RaiseFence

(* What is left of a sequence when the first n elements are removed. *)
LEMMA SuffixElements ==
    ASSUME NEW S, NEW s \in Seq(S), NEW n \in 0 .. Len(s)
    PROVE  /\ SubSeq(s, n + 1, Len(s)) \in Seq(S)
           /\ Len(SubSeq(s, n + 1, Len(s))) = Len(s) - n
           /\ DOMAIN SubSeq(s, n + 1, Len(s)) = 1 .. Len(s) - n
           /\ \A i \in 1 .. Len(s) - n : SubSeq(s, n + 1, Len(s))[i] = s[i + n]
OBVIOUS

(* The first n of the blocked jobs are n jobs. *)
LEMMA BlockedPrefix ==
    ASSUME FenceInv, NEW n \in 0 .. Len(m_blocked_jobs)
    PROVE  /\ IsFiniteSet({m_blocked_jobs[i] : i \in 1 .. n})
           /\ Cardinality({m_blocked_jobs[i] : i \in 1 .. n}) = n
<1> DEFINE T == {m_blocked_jobs[i] : i \in 1 .. n}
           f == [i \in 1 .. n |-> m_blocked_jobs[i]]
<1>1. \A i \in 1 .. n : i \in DOMAIN m_blocked_jobs
  BY DEF FenceInv, FenceTypeOK
<1>2. \A i, k \in 1 .. n : f[i] = f[k] => i = k
  BY <1>1 DEF FenceInv, OnePlace
<1>3. f \in Injection(1 .. n, T)
  BY <1>2 DEF Injection, IsInjective
<1>4. f \in Surjection(1 .. n, T)
  BY DEF Surjection
<1>5. ExistsBijection(1 .. n, T)
  BY <1>3, <1>4 DEF ExistsBijection, Bijection
<1>6. IsFiniteSet(1 .. n) /\ Cardinality(1 .. n) = n
  BY FS_Interval
<1> QED
  BY <1>5, <1>6, FS_Bijection

(* job_complete: what holds whether or not the job was a fence.  The jobs  *)
(* released change places, and are counted.                                *)
LEMMA JobCompleteMoves ==
    ASSUME FenceInv, NEW j \in Jobs, NEW n \in 0 .. Len(m_blocked_jobs),
           NEW empty \in BOOLEAN, JobComplete(j, empty, n)
    PROVE  /\ FenceTypeOK'
           /\ OnePlace'
           /\ IsFiniteSet(in_progress')
           /\ Cardinality(in_progress') = m_outstanding_jobs'
<1> USE DEF FenceInv
<1> DEFINE b == m_blocked_jobs
           P == {b[i] : i \in 1 .. n}
<1>1. b \in Seq(Jobs) /\ Len(b) \in Nat /\ DOMAIN b = 1 .. Len(b) /\ n \in Nat /\ n <= Len(b)
  BY DEF FenceTypeOK
<1>2. /\ j \in in_progress
      /\ in_progress' = (in_progress \ {j}) \cup P
      /\ m_outstanding_jobs' = m_outstanding_jobs - 1 + n
      /\ b' = SubSeq(b, n + 1, Len(b))
      /\ finished' = finished \cup {j}
      /\ fence' = fence
  BY DEF JobComplete
<1>3. /\ b' \in Seq(Jobs)
      /\ DOMAIN b' = 1 .. Len(b) - n
      /\ \A i \in 1 .. Len(b) - n : b'[i] = b[i + n]
  BY <1>1, <1>2, SuffixElements
<1>4. P \subseteq Jobs /\ P \subseteq Blocked
  BY <1>1 DEF Blocked
<1>5. Blocked' \subseteq Blocked /\ Blocked \subseteq P \cup Blocked'
  <2>1. Blocked' \subseteq Blocked
    BY <1>1, <1>3 DEF Blocked
  <2>2. ASSUME NEW i \in 1 .. Len(b) PROVE b[i] \in P \cup Blocked'
    <3>1. CASE i <= n
      BY <3>1, <1>1
    <3>2. CASE i > n
      <4>1. i - n \in 1 .. Len(b) - n /\ b'[i - n] = b[i]
        BY <3>2, <1>1, <1>3
      <4> QED
        BY <4>1, <1>3 DEF Blocked
    <3> QED
      BY <3>1, <3>2, <1>1
  <2> QED
    BY <1>1, <2>1, <2>2 DEF Blocked
<1>d. \A i, k \in DOMAIN b : b[i] = b[k] => i = k
  BY DEF OnePlace
<1>6. P \cap Blocked' = {}
  <2>1. ASSUME NEW i \in 1 .. n, NEW k \in 1 .. Len(b) - n PROVE b[i] # b'[k]
    <3>1. b'[k] = b[k + n] /\ k + n \in DOMAIN b /\ i \in DOMAIN b /\ i # k + n
      BY <1>1, <1>3
    <3> QED
      BY <3>1, <1>d
  <2>2. Blocked' = {b'[k] : k \in 1 .. Len(b) - n}
    BY <1>3 DEF Blocked
  <2> QED
    BY <2>1, <2>2
<1>7. /\ IsFiniteSet(in_progress') /\ Cardinality(in_progress') = m_outstanding_jobs'
      /\ m_outstanding_jobs' \in Nat
  <2>1. IsFiniteSet(P) /\ Cardinality(P) = n
    BY BlockedPrefix
  <2>2. /\ IsFiniteSet(in_progress \ {j})
        /\ Cardinality(in_progress \ {j}) = m_outstanding_jobs - 1
    BY <1>2, FS_RemoveElement DEF CountersAgree
  <2>3. (in_progress \ {j}) \cap P = {}
    BY <1>4 DEF OnePlace
  <2>4. /\ IsFiniteSet((in_progress \ {j}) \cup P)
        /\ Cardinality((in_progress \ {j}) \cup P)
             = Cardinality(in_progress \ {j}) + Cardinality(P) - Cardinality((in_progress \ {j}) \cap P)
    BY <2>1, <2>2, FS_Union
  <2>5. Cardinality((in_progress \ {j}) \cap P) = 0
    BY <2>3, FS_EmptySet
  <2>6. Cardinality(in_progress \ {j}) \in Nat
    BY <2>2, FS_CardinalityType
  <2> QED
    BY <1>1, <1>2, <2>1, <2>2, <2>4, <2>5, <2>6 DEF FenceTypeOK
<1>8. m_has_fence' \in Nat
  <2>1. CASE j \in fence
    <3>1. j \in fence \ finished
      BY <1>2, <2>1 DEF OnePlace
    <3>2. m_has_fence > 0
      BY <3>1, FS_EmptySet, FS_CardinalityType DEF CountersAgree
    <3>3. m_has_fence' = m_has_fence - 1
      BY <2>1 DEF JobComplete
    <3> QED
      BY <3>2, <3>3 DEF FenceTypeOK
  <2>2. CASE j \notin fence
    BY <2>2 DEF JobComplete, FenceTypeOK
  <2> QED
    BY <2>1, <2>2
<1>9. FenceTypeOK'
  BY <1>2, <1>3, <1>4, <1>7, <1>8 DEF FenceTypeOK
<1>10. OnePlace'
  <2>1. ASSUME NEW i \in DOMAIN b', NEW k \in DOMAIN b', b'[i] = b'[k] PROVE i = k
    <3>a. i \in 1 .. Len(b) - n /\ k \in 1 .. Len(b) - n
      BY ONLY <1>3, i \in DOMAIN b', k \in DOMAIN b'
    <3>b. b[i + n] = b[k + n]
      BY ONLY <1>3, <2>1, <3>a
    <3>1. /\ i \in Nat /\ k \in Nat /\ n \in Nat
          /\ i + n \in DOMAIN b /\ k + n \in DOMAIN b /\ b[i + n] = b[k + n]
      BY ONLY <1>1, <3>a, <3>b
    <3>2. i + n = k + n
      BY ONLY <1>d, <3>1
    <3> QED
      BY ONLY <3>1, <3>2
  <2>2. Blocked' \cap in_progress' = {}
    BY <1>2, <1>5, <1>6 DEF OnePlace
  <2>3. finished' \cap (Blocked' \cup in_progress') = {}
    BY <1>2, <1>4, <1>5 DEF OnePlace
  <2>4. fence' \subseteq Blocked' \cup in_progress' \cup finished'
    BY <1>2, <1>5 DEF OnePlace
  <2> QED
    BY <2>1, <2>2, <2>3, <2>4 DEF OnePlace
<1> QED
  BY <1>7, <1>9, <1>10

(* job_complete for a job that is no fence: nothing is released, or the    *)
(* fence job at the head of the queue is.                                  *)
LEMMA JobCompleteKeepsInv ==
    ASSUME FenceInv, NEW j \in Jobs, NEW n \in 0 .. Len(m_blocked_jobs),
           NEW empty \in BOOLEAN, JobComplete(j, empty, n), j \notin fence
    PROVE  FenceInv'
<1> USE DEF FenceInv
<1> DEFINE b == m_blocked_jobs
<1>1. b \in Seq(Jobs) /\ Len(b) \in Nat /\ DOMAIN b = 1 .. Len(b) /\ n \in Nat /\ n <= Len(b)
  BY DEF FenceTypeOK
<1>2. /\ j \in in_progress /\ j \notin fence
      /\ in_progress' = (in_progress \ {j}) \cup {b[i] : i \in 1 .. n}
      /\ m_outstanding_jobs' = m_outstanding_jobs - 1 + n
      /\ b' = SubSeq(b, n + 1, Len(b))
      /\ finished' = finished \cup {j}
      /\ fence' = fence /\ m_has_fence' = m_has_fence
      /\ ReachedBy(n)
  BY DEF JobComplete
<1>3. /\ DOMAIN b' = 1 .. Len(b) - n
      /\ \A i \in 1 .. Len(b) - n : b'[i] = b[i + n]
  BY <1>1, <1>2, SuffixElements
<1>4. /\ FenceTypeOK' /\ OnePlace'
      /\ IsFiniteSet(in_progress') /\ Cardinality(in_progress') = m_outstanding_jobs'
  BY JobCompleteMoves
<1>5. CountersAgree'
  <2>1. fence' \ finished' = fence \ finished
    BY <1>2
  <2> QED
    BY <1>2, <1>4, <2>1 DEF CountersAgree
<1>6. fence \cap in_progress = {}
  BY <1>2 DEF FenceIsExclusive
<1>7. CASE n = 0
  <2>1. b' = b
    BY <1>1, <1>2, <1>7
  <2>2. in_progress' = in_progress \ {j}
    BY <1>2, <1>7
  <2>3. m_has_fence > 0 => m_outstanding_jobs > 1
    BY <1>2, <1>7 DEF ReachedBy, FenceTypeOK
  <2>4. FenceIsExclusive' /\ FenceIsHeld' /\ HeadIsFence'
    BY <1>2, <1>6, <1>7, <2>1, <2>2, <2>3
       DEF FenceIsExclusive, FenceIsHeld, HeadIsFence, FenceTypeOK
  <2>5. FencesApart'
    BY <1>2, <1>6, <2>1, <2>2 DEF FencesApart
  <2> QED
    BY <1>4, <1>5, <2>4, <2>5
<1>8. CASE n # 0
  <2>1. n = 1 /\ m_has_fence > 0 /\ m_outstanding_jobs <= 1
    BY <1>2, <1>8 DEF ReachedBy, FenceTypeOK
  <2>2. in_progress = {j}
    <3>1. Cardinality(in_progress \ {j}) = m_outstanding_jobs - 1 /\ IsFiniteSet(in_progress \ {j})
      BY <1>2, FS_RemoveElement DEF CountersAgree
    <3>2. Cardinality(in_progress \ {j}) \in Nat
      BY <3>1, FS_CardinalityType
    <3>3. Cardinality(in_progress \ {j}) = 0
      BY <2>1, <3>1, <3>2 DEF FenceTypeOK
    <3>4. in_progress \ {j} = {}
      BY <3>1, <3>3, FS_EmptySet
    <3> QED
      BY <1>2, <3>4
  <2>3. m_outstanding_jobs = 1
    BY <2>2, Outstanding
  <2>4. b # <<>> /\ b[1] \in fence
    BY <1>6, <2>1 DEF HeadIsFence
  <2>5. in_progress' = {b[1]}
    BY <1>2, <2>1, <2>2
  <2>6. FenceIsExclusive' /\ FenceIsHeld' /\ HeadIsFence'
    BY <1>2, <2>1, <2>3, <2>4, <2>5 DEF FenceIsExclusive, FenceIsHeld, HeadIsFence
  <2>7. FencesApart'
    <3>1. \A i \in DOMAIN b' : i > 1 /\ b'[i] \in fence' => b'[i - 1] \notin fence'
      BY <1>1, <1>2, <1>3, <2>1 DEF FencesApart
    <3>2. b' # <<>> => b'[1] \notin fence'
      BY <1>1, <1>2, <1>3, <2>1, <2>4 DEF FencesApart
    <3> QED
      BY <3>1, <3>2 DEF FencesApart
  <2> QED
    BY <1>4, <1>5, <2>6, <2>7
<1> QED
  BY <1>7, <1>8

(* job_complete for a fence job: nothing else is in progress, and what     *)
(* follows in the queue is not a fence, so that the branch of job_complete *)
(* that posts the next fence job directly is not taken.                    *)
LEMMA FenceCompleteKeepsInv ==
    ASSUME FenceInv, NEW j \in Jobs, NEW n \in 0 .. Len(m_blocked_jobs),
           NEW empty \in BOOLEAN, JobComplete(j, empty, n), j \in fence
    PROVE  FenceInv' /\ UpToFence(n)
<1> USE DEF FenceInv
<1> DEFINE b == m_blocked_jobs
<1>1. b \in Seq(Jobs) /\ Len(b) \in Nat /\ DOMAIN b = 1 .. Len(b) /\ n \in Nat /\ n <= Len(b)
  BY DEF FenceTypeOK
<1>2. /\ j \in in_progress /\ j \in fence /\ j \in fence \ finished
      /\ in_progress' = (in_progress \ {j}) \cup {b[i] : i \in 1 .. n}
      /\ m_outstanding_jobs' = m_outstanding_jobs - 1 + n
      /\ b' = SubSeq(b, n + 1, Len(b))
      /\ finished' = finished \cup {j}
      /\ fence' = fence /\ m_has_fence' = m_has_fence - 1
      /\ LoweredBy(empty, n)
  BY DEF JobComplete, OnePlace
<1>3. /\ DOMAIN b' = 1 .. Len(b) - n
      /\ \A i \in 1 .. Len(b) - n : b'[i] = b[i + n]
      /\ Len(b') = Len(b) - n /\ b' \in Seq(Jobs)
  BY <1>1, <1>2, SuffixElements
<1>4. /\ FenceTypeOK' /\ OnePlace'
      /\ IsFiniteSet(in_progress') /\ Cardinality(in_progress') = m_outstanding_jobs'
  BY JobCompleteMoves
<1>5. in_progress = {j} /\ m_outstanding_jobs = 1
  BY <1>2, Outstanding DEF FenceIsExclusive
<1>6. b # <<>> => b[1] \notin fence
  BY <1>2 DEF FencesApart
<1>7. UpToFence(n)
  <2>1. PICK k \in 0 .. Len(b) :
          /\ UpToFence(k)
          /\ n = IF k < Len(b) /\ m_outstanding_jobs = 1 /\ k = 0 /\ empty THEN 1 ELSE k
    BY <1>2 DEF LoweredBy
  <2>2. ~ (k < Len(b) /\ k = 0)
    BY <1>1, <1>6, <2>1 DEF UpToFence
  <2> QED
    BY <2>1, <2>2
<1>8. /\ IsFiniteSet((fence \ finished) \ {j})
      /\ Cardinality((fence \ finished) \ {j}) = m_has_fence - 1
  BY <1>2, FS_RemoveElement DEF CountersAgree
<1>9. CountersAgree'
  <2>1. fence' \ finished' = (fence \ finished) \ {j}
    BY <1>2
  <2> QED
    BY <1>2, <1>4, <1>8, <2>1 DEF CountersAgree
<1>10. fence' \cap in_progress' = {}
  BY <1>2, <1>5, <1>7 DEF UpToFence
<1>11. FenceIsExclusive'
  BY <1>10 DEF FenceIsExclusive
<1>12. ASSUME m_has_fence' > 0 PROVE n > 0 /\ n < Len(b)
  <2>1. (fence \ finished) \ {j} # {}
    BY <1>2, <1>8, <1>12, FS_EmptySet
  <2>2. PICK f \in (fence \ finished) \ {j} : TRUE
    BY <2>1
  <2>3. f \in Blocked
    BY <1>5, <2>2 DEF OnePlace
  <2>4. PICK i \in 1 .. Len(b) : b[i] \in fence
    BY <1>1, <2>2, <2>3 DEF Blocked
  <2>5. n < Len(b)
    BY <1>1, <1>7, <2>4 DEF UpToFence
  <2> QED
    BY <1>1, <1>6, <1>7, <2>5 DEF UpToFence
<1>13. FenceIsHeld'
  BY <1>1, <1>2, <1>5, <1>12 DEF FenceIsHeld
<1>14. HeadIsFence'
  <2>1. ASSUME m_has_fence' > 0 PROVE b' # <<>> /\ b'[1] \in fence'
    <3>1. n < Len(b)
      BY <2>1, <1>12
    <3>2. b[n + 1] \in fence
      BY <1>7, <3>1 DEF UpToFence
    <3>3. 1 \in DOMAIN b' /\ b'[1] = b[n + 1]
      BY <1>1, <1>3, <3>1
    <3>4. b' # <<>>
      BY <1>1, <1>3, <3>1
    <3> QED
      BY <1>2, <3>2, <3>3, <3>4
  <2>2. ASSUME m_has_fence' = 0 PROVE b' = <<>>
    <3>1. (fence \ finished) \ {j} = {}
      BY <1>2, <1>8, <2>2, FS_EmptySet
    <3>2. SUFFICES ASSUME n < Len(b) PROVE FALSE
      BY <1>1, <1>3
    <3>3. b[n + 1] \in fence /\ b[n + 1] \in Blocked
      BY <1>1, <1>7, <3>2 DEF UpToFence, Blocked
    <3> QED
      BY <1>2, <3>1, <3>3 DEF OnePlace
  <2> QED
    BY <2>1, <2>2 DEF HeadIsFence
<1>15. FencesApart'
  <2>1. \A i \in DOMAIN b' : i > 1 /\ b'[i] \in fence' => b'[i - 1] \notin fence'
    <3> SUFFICES ASSUME NEW i \in DOMAIN b', i > 1, b'[i] \in fence
                 PROVE  b'[i - 1] \notin fence
      BY <1>2
    <3>1. /\ i + n \in DOMAIN b /\ i + n > 1 /\ b'[i] = b[i + n]
          /\ b'[i - 1] = b[(i + n) - 1]
      BY <1>1, <1>3
    <3> QED
      BY <3>1 DEF FencesApart
  <2> QED
    BY <1>10, <2>1 DEF FencesApart
<1> QED
  BY <1>4, <1>7, <1>9, <1>11, <1>13, <1>14, <1>15

(* Every operation of disk_job_fence keeps the invariant. *)
LEMMA FenceInvNext == FenceInv /\ [FenceNext]_fenceVars => FenceInv'
<1> SUFFICES ASSUME FenceInv, [FenceNext]_fenceVars PROVE FenceInv'
  OBVIOUS
<1>1. CASE UNCHANGED fenceVars
  BY <1>1 DEF fenceVars, FenceInv, FenceTypeOK, CountersAgree, FenceIsExclusive, FenceIsHeld,
              HeadIsFence, OnePlace, FencesApart, Blocked
<1>2. ASSUME NEW j \in Jobs, IsBlocked(j) PROVE FenceInv'
  BY <1>2, IsBlockedKeepsInv
<1>3. ASSUME NEW j \in Jobs, NEW fj \in Jobs, RaiseFence(j, fj) PROVE FenceInv'
  BY <1>3, RaiseFenceKeepsInv
<1>4. ASSUME NEW j \in Jobs, NEW empty \in BOOLEAN, NEW n \in 0 .. Len(m_blocked_jobs),
             JobComplete(j, empty, n)
      PROVE  FenceInv'
  BY <1>4, JobCompleteKeepsInv, FenceCompleteKeepsInv
<1> QED
  BY <1>1, <1>2, <1>3, <1>4 DEF FenceNext

(* The inductive invariant of disk_job_fence holds in every state that calls  *)
(* of is_blocked, raise_fence and job_complete can reach, for any set of jobs. *)
THEOREM FenceInvariant == FenceSpec => []FenceInv
BY FenceInvInit, FenceInvNext, PTL DEF FenceSpec
-----------------------------------------------------------------------------
(* No operation takes the counters m_outstanding_jobs and m_has_fence      *)
(* below zero, and the list of blocked jobs holds jobs.                    *)
THEOREM FenceTypeTheorem == FenceSpec => []FenceTypeOK
<1>1. FenceInv => FenceTypeOK
  BY DEF FenceInv
<1> QED
  BY <1>1, FenceInvariant, PTL

(* The counters count the jobs in progress and the fences that are up. *)
THEOREM CountersTheorem == FenceSpec => []CountersAgree
<1>1. FenceInv => CountersAgree
  BY DEF FenceInv
<1> QED
  BY <1>1, FenceInvariant, PTL

(* A fence job never shares the storage. *)
THEOREM ExclusiveTheorem == FenceSpec => []FenceIsExclusive
<1>1. FenceInv => FenceIsExclusive
  BY DEF FenceInv
<1> QED
  BY <1>1, FenceInvariant, PTL

(* A fence that is up has a job in progress that will lower it. *)
THEOREM HeldTheorem == FenceSpec => []FenceIsHeld
<1>1. FenceInv => FenceIsHeld
  BY DEF FenceInv
<1> QED
  BY <1>1, FenceInvariant, PTL

(* What job_complete takes from the queue for a fence job is one. *)
THEOREM HeadTheorem == FenceSpec => []HeadIsFence
<1>1. FenceInv => HeadIsFence
  BY DEF FenceInv
<1> QED
  BY <1>1, FenceInvariant, PTL
-----------------------------------------------------------------------------
(* disk_job_fence implements StorageBarrier. *)

(* The empty sequence, and a sequence as its own suffix. *)
LEMMA SequenceFacts ==
    ASSUME NEW S, NEW s \in Seq(S), NEW x \in S, NEW y \in S
    PROVE  /\ s \o <<>> = s
           /\ SubSeq(s, 1, Len(s)) = s
           /\ s \o <<x>> = Append(s, x)
           /\ SubSeq(<<x>>, 2, 1) = <<>>
           /\ SubSeq(<<x, y>>, 2, 2) = <<y>>
           /\ <<>> \o <<x>> = <<x>>
           /\ <<>> \o <<x, y>> = <<x, y>>
<1>1. s \o <<>> = s
  OBVIOUS
<1>2. SubSeq(s, 1, Len(s)) = s
  OBVIOUS
<1>3. s \o <<x>> = Append(s, x)
  OBVIOUS
<1>4. SubSeq(<<x>>, 2, 1) = <<>> /\ SubSeq(<<x, y>>, 2, 2) = <<y>>
  <2> DEFINE u == <<x>>  v == <<x, y>>
  <2>1. u \in Seq(S) /\ Len(u) = 1 /\ v \in Seq(S) /\ Len(v) = 2 /\ v[2] = y
    OBVIOUS
  <2>2. Len(SubSeq(u, 2, 1)) = 0 /\ SubSeq(u, 2, 1) \in Seq(S)
    BY <2>1
  <2>3. Len(SubSeq(v, 2, 2)) = 1 /\ SubSeq(v, 2, 2)[1] = v[2] /\ SubSeq(v, 2, 2) \in Seq(S)
    BY <2>1
  <2>4. SubSeq(u, 2, 1) = <<>>
    BY <2>2
  <2>5. SubSeq(v, 2, 2) = <<y>>
    <3> DEFINE w == SubSeq(v, 2, 2)
    <3>1. w \in Seq(S) /\ Len(w) = 1 /\ w[1] = y
      BY <2>1, <2>3
    <3> HIDE DEF w, v
    <3>2. w = <<y>>
      BY <3>1
    <3> QED
      BY <3>2 DEF w
  <2> QED
    BY <2>4, <2>5
<1>5. <<>> \o <<x>> = <<x>> /\ <<>> \o <<x, y>> = <<x, y>>
  OBVIOUS
<1> QED
  BY <1>1, <1>2, <1>3, <1>4, <1>5

(* A job arrives, and is started at once (n = 1) or waits (n = 0). *)
LEMMA IsBlockedRefines ==
    ASSUME FenceInv, FenceInv', NEW j \in Jobs, IsBlocked(j)
    PROVE  Barrier!BarrierNext
<1> USE DEF FenceInv
<1>0. m_blocked_jobs \in Seq(Jobs) /\ Len(m_blocked_jobs) \in Nat
  BY DEF FenceTypeOK
<1>1. Barrier!Exclusive(in_progress', fence') /\ fence' = fence
  BY DEF FenceIsExclusive, Barrier!Exclusive, IsBlocked
<1>2. CASE m_has_fence = 0
  <2>1. /\ m_blocked_jobs = <<>> /\ m_blocked_jobs' = <<>>
        /\ in_progress' = in_progress \cup {j}
    BY <1>2, NoFence DEF IsBlocked, LetThrough
  <2>2. Barrier!BarrierStep({}, <<j>>, 1)
    BY <1>1, <2>1, SequenceFacts DEF Barrier!BarrierStep
  <2> QED
    BY <1>1, <2>2 DEF Barrier!BarrierNext
<1>3. CASE m_has_fence # 0
  <2>1. m_blocked_jobs' = Append(m_blocked_jobs, j) /\ in_progress' = in_progress
    BY <1>3 DEF IsBlocked
  <2> DEFINE all == m_blocked_jobs \o <<j>>
  <2>2. all = m_blocked_jobs' /\ all \in Seq(Jobs) /\ Len(all) \in Nat
    BY <1>0, <2>1, SequenceFacts
  <2>3. SubSeq(all, 0 + 1, Len(all)) = all
    BY <2>2, SequenceFacts
  <2>4. in_progress' = (in_progress \ {}) \cup {all[i] : i \in 1 .. 0}
    BY <2>1
  <2>5. Barrier!BarrierStep({}, <<j>>, 0)
    BY <1>1, <2>2, <2>3, <2>4 DEF Barrier!BarrierStep
  <2> QED
    BY <1>1, <2>5 DEF Barrier!BarrierNext
<1> QED
  BY <1>2, <1>3

(* A fence job arrives, alone or with its flush job before it. *)
LEMMA RaiseFenceRefines ==
    ASSUME FenceInv, FenceInv', NEW j \in Jobs, NEW fj \in Jobs, RaiseFence(j, fj)
    PROVE  Barrier!BarrierNext
<1> USE DEF FenceInv
<1>0. m_blocked_jobs \in Seq(Jobs) /\ Len(m_blocked_jobs) \in Nat
  BY DEF FenceTypeOK
<1>1. Barrier!Exclusive(in_progress', fence') /\ fence' = fence \cup {j}
  BY DEF FenceIsExclusive, Barrier!Exclusive, RaiseFence
<1>2. CASE PostFence(j, fj)
  <2>1. /\ m_blocked_jobs = <<>> /\ m_blocked_jobs' = <<>>
        /\ in_progress' = in_progress \cup {j}
    BY <1>2, NoFence DEF PostFence, LetThrough
  <2>2. Barrier!BarrierStep({}, <<j>>, 1)
    BY <1>1, <2>1, SequenceFacts DEF Barrier!BarrierStep
  <2> QED
    BY <1>1, <2>2 DEF Barrier!BarrierNext
<1>3. CASE PostFlush(j, fj)
  <2>1. /\ m_blocked_jobs = <<>> /\ m_blocked_jobs' = <<j>>
        /\ in_progress' = in_progress \cup {fj}
    BY <1>3, NoFence DEF PostFlush, LetThrough
  <2>2. Barrier!BarrierStep({}, <<fj, j>>, 1)
    BY <1>1, <2>1, SequenceFacts DEF Barrier!BarrierStep
  <2> QED
    BY <1>1, <2>2 DEF Barrier!BarrierNext
<1>4. CASE PostNone(j, fj)
  <2> DEFINE all == m_blocked_jobs \o <<fj, j>>
  <2>1. m_blocked_jobs' = all /\ in_progress' = in_progress
    BY <1>4 DEF PostNone
  <2>2. all \in Seq(Jobs) /\ Len(all) \in Nat
    BY <1>0
  <2>3. SubSeq(all, 0 + 1, Len(all)) = all
    BY <2>2, SequenceFacts
  <2>4. in_progress' = (in_progress \ {}) \cup {all[i] : i \in 1 .. 0}
    BY <2>1
  <2>5. Barrier!BarrierStep({}, <<fj, j>>, 0)
    BY <1>1, <2>1, <2>2, <2>3, <2>4 DEF Barrier!BarrierStep
  <2> QED
    BY <1>1, <2>5 DEF Barrier!BarrierNext
<1> QED
  BY <1>2, <1>3, <1>4 DEF RaiseFence

(* A job completes, and the oldest n that wait are started. *)
LEMMA JobCompleteRefines ==
    ASSUME FenceInv, FenceInv', NEW j \in Jobs, NEW empty \in BOOLEAN,
           NEW n \in 0 .. Len(m_blocked_jobs), JobComplete(j, empty, n)
    PROVE  Barrier!BarrierNext
<1> USE DEF FenceInv
<1>0. m_blocked_jobs \in Seq(Jobs) /\ Len(m_blocked_jobs) \in Nat
  BY DEF FenceTypeOK
<1>1. Barrier!Exclusive(in_progress', fence') /\ fence' = fence
  BY DEF FenceIsExclusive, Barrier!Exclusive, JobComplete
<1>2. m_blocked_jobs \o <<>> = m_blocked_jobs
  BY <1>0, SequenceFacts
<1>3. Barrier!BarrierStep({j}, <<>>, n)
  BY <1>0, <1>1, <1>2 DEF Barrier!BarrierStep, JobComplete
<1>4. j \in in_progress
  BY DEF JobComplete
<1> QED
  BY <1>1, <1>3, <1>4 DEF Barrier!BarrierNext

(* Jobs are started in the order of their arrival and a fence job has the  *)
(* storage to itself, for any number of jobs and fences.                   *)
THEOREM BarrierTheorem == FenceSpec => ImplementsBarrier
<1>1. FenceInit => Barrier!BarrierInit
  BY DEF FenceInit, Barrier!BarrierInit
<1>2. FenceInv /\ FenceInv' /\ [FenceNext]_fenceVars
        => [Barrier!BarrierNext]_<<m_blocked_jobs, in_progress, fence>>
  <2> SUFFICES ASSUME FenceInv, FenceInv', FenceNext PROVE Barrier!BarrierNext
    BY DEF fenceVars
  <2> QED
    BY IsBlockedRefines, RaiseFenceRefines, JobCompleteRefines DEF FenceNext
<1> QED
  BY <1>1, <1>2, FenceInvariant, PTL DEF FenceSpec, ImplementsBarrier, Barrier!BarrierSpec
=============================================================================

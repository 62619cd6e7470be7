-------------------------- MODULE DiskJobsProofs --------------------------
(***************************************************************************)
(* No job of a storage is lost or doubled on its way through the queue,    *)
(* the cache and the hands of the disk threads, and when all is quiet      *)
(* every job was answered: for any number of jobs and threads.             *)
(***************************************************************************)
EXTENDS DiskIoThreadProofs, SequenceTheorems, WellFoundedInduction

-----------------------------------------------------------------------------
(* Lists of jobs: what is on them, and that nothing is on them twice *)

LEMMA EmptyList == ToSet(<<>>) = {} /\ IsInjective(<<>>)
BY DEF ToSet, IsInjective

LEMMA SingleList ==
    ASSUME NEW S, NEW x \in S
    PROVE  <<x>> \in Seq(S) /\ ToSet(<<x>>) = {x} /\ IsInjective(<<x>>)
<1>1. <<x>> \in Seq(S) /\ DOMAIN <<x>> = {1} /\ <<x>>[1] = x
  OBVIOUS
<1> QED
  BY <1>1 DEF ToSet, IsInjective

LEMMA JoinedList ==
    ASSUME NEW S, NEW s \in Seq(S), NEW u \in Seq(S)
    PROVE  /\ s \o u \in Seq(S)
           /\ ToSet(s \o u) = ToSet(s) \cup ToSet(u)
           /\ IsInjective(s) /\ IsInjective(u) /\ ToSet(s) \cap ToSet(u) = {} => IsInjective(s \o u)
<1> DEFINE c == s \o u
<1>1. /\ c \in Seq(S) /\ Len(c) = Len(s) + Len(u)
      /\ \A i \in 1 .. Len(c) : c[i] = IF i <= Len(s) THEN s[i] ELSE u[i - Len(s)]
  BY ConcatProperties
<1>2. DOMAIN s = 1 .. Len(s) /\ DOMAIN u = 1 .. Len(u) /\ DOMAIN c = 1 .. Len(c)
  BY <1>1, LenProperties
<1>3. Len(s) \in Nat /\ Len(u) \in Nat
  OBVIOUS
<1> HIDE DEF c
<1>4. ASSUME NEW i \in 1 .. Len(c) PROVE c[i] \in ToSet(s) \cup ToSet(u)
  <2>1. CASE i <= Len(s)
    <3>1. i \in DOMAIN s /\ c[i] = s[i]
      BY <1>1, <1>2, <1>3, <2>1
    <3> QED
      BY <3>1 DEF ToSet
  <2>2. CASE ~ (i <= Len(s))
    <3>1. i - Len(s) \in DOMAIN u /\ c[i] = u[i - Len(s)]
      BY <1>1, <1>2, <1>3, <2>2
    <3> QED
      BY <3>1 DEF ToSet
  <2> QED
    BY <2>1, <2>2
<1>9. ToSet(c) \subseteq ToSet(s) \cup ToSet(u)
  BY <1>2, <1>4 DEF ToSet
<1>10. ASSUME NEW i \in 1 .. Len(s) PROVE i \in 1 .. Len(c) /\ c[i] = s[i]
  <2>1. i \in 1 .. Len(c) /\ i <= Len(s)
    BY <1>1, <1>3
  <2> QED
    BY <1>1, <2>1
<1>5. ToSet(s) \subseteq ToSet(c)
  BY <1>2, <1>10 DEF ToSet
<1>6. ASSUME NEW i \in 1 .. Len(u) PROVE u[i] \in ToSet(c)
  <2>1. i + Len(s) \in 1 .. Len(c) /\ ~ (i + Len(s) <= Len(s)) /\ (i + Len(s)) - Len(s) = i
    BY <1>1, <1>3
  <2>2. c[i + Len(s)] = u[i]
    BY <1>1, <2>1
  <2> QED
    BY <1>2, <2>1, <2>2 DEF ToSet
<1>7. ToSet(u) \subseteq ToSet(c)
  BY <1>2, <1>6 DEF ToSet
<1>8. ASSUME IsInjective(s), IsInjective(u), ToSet(s) \cap ToSet(u) = {} PROVE IsInjective(c)
  <2>1. ASSUME NEW i \in 1 .. Len(c), NEW k \in 1 .. Len(c), c[i] = c[k] PROVE i = k
    <3>1. CASE i <= Len(s) /\ k <= Len(s)
      <4>1. i \in DOMAIN s /\ k \in DOMAIN s /\ c[i] = s[i] /\ c[k] = s[k]
        BY <1>1, <1>2, <1>3, <3>1
      <4> QED
        BY ONLY <1>8, <2>1, <4>1 DEF IsInjective
    <3>2. CASE ~ (i <= Len(s)) /\ ~ (k <= Len(s))
      <4>1. i - Len(s) \in DOMAIN u /\ k - Len(s) \in DOMAIN u
        BY <1>1, <1>2, <1>3, <3>2
      <4>2. u[i - Len(s)] = u[k - Len(s)]
        BY <1>1, <2>1, <3>2
      <4>3. i - Len(s) = k - Len(s)
        BY <1>8, <4>1, <4>2 DEF IsInjective
      <4> QED
        BY <1>3, <4>3
    <3>3. CASE i <= Len(s) /\ ~ (k <= Len(s))
      <4>1. i \in DOMAIN s /\ k - Len(s) \in DOMAIN u
        BY <1>1, <1>2, <1>3, <3>3
      <4>2. s[i] = u[k - Len(s)]
        BY <1>1, <2>1, <3>3
      <4> QED
        BY <1>8, <4>1, <4>2 DEF ToSet
    <3>4. CASE ~ (i <= Len(s)) /\ k <= Len(s)
      <4>1. k \in DOMAIN s /\ i - Len(s) \in DOMAIN u
        BY <1>1, <1>2, <1>3, <3>4
      <4>2. s[k] = u[i - Len(s)]
        BY <1>1, <2>1, <3>4
      <4> QED
        BY <1>8, <4>1, <4>2 DEF ToSet
    <3> QED
      BY <3>1, <3>2, <3>3, <3>4
  <2> QED
    BY <1>2, <2>1 DEF IsInjective
<1> QED
  BY <1>1, <1>5, <1>7, <1>8, <1>9 DEF c

LEMMA AppendedList ==
    ASSUME NEW S, NEW s \in Seq(S), NEW x \in S
    PROVE  /\ Append(s, x) \in Seq(S)
           /\ ToSet(Append(s, x)) = ToSet(s) \cup {x}
           /\ IsInjective(s) /\ x \notin ToSet(s) => IsInjective(Append(s, x))
<1> DEFINE last == <<x>>
<1>1. Append(s, x) = s \o last
  BY AppendIsConcat
<1>2. last \in Seq(S) /\ ToSet(last) = {x} /\ IsInjective(last)
  BY SingleList
<1> HIDE DEF last
<1>3. /\ s \o last \in Seq(S) /\ ToSet(s \o last) = ToSet(s) \cup ToSet(last)
      /\ IsInjective(s) /\ IsInjective(last) /\ ToSet(s) \cap ToSet(last) = {}
            => IsInjective(s \o last)
  BY <1>2, JoinedList
<1> QED
  BY ONLY <1>1, <1>2, <1>3

LEMMA TailList ==
    ASSUME NEW S, NEW s \in Seq(S), s # <<>>, IsInjective(s)
    PROVE  /\ Head(s) \in S /\ Head(s) \in ToSet(s)
           /\ Tail(s) \in Seq(S) /\ IsInjective(Tail(s))
           /\ ToSet(Tail(s)) = ToSet(s) \ {Head(s)}
<1> DEFINE u == Tail(s)
<1>1. /\ Head(s) = s[1] /\ Len(s) \in Nat /\ Len(s) >= 1 /\ u \in Seq(S)
      /\ Len(u) = Len(s) - 1 /\ \A i \in 1 .. Len(u) : u[i] = s[i + 1]
  BY HeadTailProperties, EmptySeq
<1>2. DOMAIN s = 1 .. Len(s) /\ DOMAIN u = 1 .. Len(u)
  BY <1>1, LenProperties
<1> HIDE DEF u
<1>3. Head(s) \in S /\ Head(s) \in ToSet(s)
  BY <1>1, <1>2 DEF ToSet
<1>4. IsInjective(u)
  <2>1. ASSUME NEW i \in 1 .. Len(u), NEW k \in 1 .. Len(u), u[i] = u[k] PROVE i = k
    <3>1. i + 1 \in DOMAIN s /\ k + 1 \in DOMAIN s /\ s[i + 1] = s[k + 1]
      BY <1>1, <1>2, <2>1
    <3>2. i + 1 = k + 1
      BY <3>1 DEF IsInjective
    <3> QED
      BY <3>2
  <2> QED
    BY <1>2, <2>1 DEF IsInjective
<1>5. ToSet(u) \subseteq ToSet(s) \ {Head(s)}
  <2>1. ASSUME NEW i \in 1 .. Len(u) PROVE u[i] \in ToSet(s) /\ u[i] # s[1]
    <3>1. i + 1 \in DOMAIN s /\ 1 \in DOMAIN s /\ i + 1 # 1 /\ u[i] = s[i + 1]
      BY <1>1, <1>2
    <3> QED
      BY <3>1 DEF IsInjective, ToSet
  <2> QED
    BY <1>1, <1>2, <2>1 DEF ToSet
<1>6. ToSet(s) \ {Head(s)} \subseteq ToSet(u)
  <2>1. ASSUME NEW i \in 1 .. Len(s), s[i] # s[1] PROVE s[i] \in ToSet(u)
    <3>1. i - 1 \in 1 .. Len(u) /\ (i - 1) + 1 = i
      BY <1>1, <2>1
    <3>2. u[i - 1] = s[i]
      BY <1>1, <3>1
    <3> QED
      BY <1>2, <3>1, <3>2 DEF ToSet
  <2> QED
    BY <1>1, <1>2, <2>1 DEF ToSet
<1> QED
  BY <1>1, <1>3, <1>4, <1>5, <1>6 DEF u

LEMMA FirstOfList ==
    ASSUME NEW S, NEW s \in Seq(S), NEW n \in 0 .. Len(s)
    PROVE  /\ SubSeq(s, 1, n) \in Seq(S)
           /\ ToSet(SubSeq(s, 1, n)) = {s[i] : i \in 1 .. n}
           /\ IsInjective(s) => IsInjective(SubSeq(s, 1, n))
<1> DEFINE u == SubSeq(s, 1, n)
<1>1. Len(s) \in Nat /\ n \in Nat /\ n <= Len(s) /\ DOMAIN s = 1 .. Len(s)
  OBVIOUS
<1>2. u \in Seq(S) /\ DOMAIN u = 1 .. n /\ \A i \in 1 .. n : u[i] = s[i]
  OBVIOUS
<1> HIDE DEF u
<1>3. ToSet(u) = {s[i] : i \in 1 .. n}
  BY <1>2 DEF ToSet
<1>4. IsInjective(s) => IsInjective(u)
  BY <1>1, <1>2 DEF IsInjective
<1> QED
  BY <1>2, <1>3, <1>4 DEF u

(* What Only computes: the function it is defined by exists, since on the  *)
(* shortest part of the list without one it could be made from the one     *)
(* before it, and has the jobs so far.                                     *)
Chooses(list, jobs, n, f) ==
    f = [i \in 0 .. n |-> IF i = 0 THEN <<>>
                          ELSE IF list[i] \in jobs THEN Append(f[i - 1], list[i]) ELSE f[i - 1]]

LEMMA LeastNumber ==
    ASSUME NEW B \in SUBSET Nat, B # {}
    PROVE  \E n \in B : \A m \in B : n <= m
<1>1. \E n \in B : \A m \in B : ~ (<<m, n>> \in OpToRel(<, Nat))
  BY NatLessThanWellFounded, WFMin
<1>2. OpToRel(<, Nat) = {p \in Nat \X Nat : p[1] < p[2]}
  BY DEF OpToRel
<1>3. ASSUME NEW n \in Nat, NEW m \in Nat, ~ (<<m, n>> \in OpToRel(<, Nat)) PROVE n <= m
  <2>1. ~ (<<m, n>> \in {p \in Nat \X Nat : p[1] < p[2]})
    BY ONLY <1>2, <1>3
  <2> QED
    BY ONLY <2>1, n \in Nat, m \in Nat
<1> QED
  BY <1>1, <1>3

LEMMA ChoosesExists ==
    ASSUME NEW list, NEW jobs, NEW n \in Nat
    PROVE  \E f : Chooses(list, jobs, n, f)
<1> DEFINE B == {m \in Nat : ~ \E f : Chooses(list, jobs, m, f)}
<1>1. SUFFICES ASSUME B # {} PROVE FALSE
  OBVIOUS
<1>2. PICK m \in B : \A k \in B : m <= k
  <2>1. B \in SUBSET Nat
    OBVIOUS
  <2> HIDE DEF B
  <2> QED
    BY <1>1, <2>1, LeastNumber
<1>3. m # 0
  <2>1. Chooses(list, jobs, 0, [i \in 0 .. 0 |-> <<>>])
    BY DEF Chooses
  <2> QED
    BY <2>1
<1>4. m - 1 \in Nat /\ m - 1 \notin B
  BY <1>2, <1>3
<1>5. PICK g : Chooses(list, jobs, m - 1, g)
  BY <1>4
<1> DEFINE next == IF list[m] \in jobs THEN Append(g[m - 1], list[m]) ELSE g[m - 1]
           f == [i \in 0 .. m |-> IF i = m THEN next ELSE g[i]]
<1>6. \A i \in 0 .. m - 1 : g[i] = IF i = 0 THEN <<>>
           ELSE IF list[i] \in jobs THEN Append(g[i - 1], list[i]) ELSE g[i - 1]
  BY <1>5 DEF Chooses
<1>7. ASSUME NEW i \in 0 .. m
      PROVE  f[i] = IF i = 0 THEN <<>>
                    ELSE IF list[i] \in jobs THEN Append(f[i - 1], list[i]) ELSE f[i - 1]
  <2>1. CASE i = m
    <3>1. m - 1 \in 0 .. m /\ m - 1 # m
      BY <1>4
    <3>2. f[m - 1] = g[m - 1] /\ f[m] = next
      BY <3>1
    <3> HIDE DEF f
    <3> QED
      BY <1>3, <2>1, <3>2
  <2>2. CASE i # m
    <3>1. i \in 0 .. m - 1 /\ (i # 0 => i - 1 \in 0 .. m /\ i - 1 # m)
      BY <1>4, <2>2
    <3>2. f[i] = g[i] /\ (i # 0 => f[i - 1] = g[i - 1])
      BY <2>2, <3>1
    <3> HIDE DEF f
    <3> QED
      BY <1>6, <3>1, <3>2
  <2> QED
    BY <2>1, <2>2
<1>8. f = [i \in 0 .. m |-> f[i]]
  OBVIOUS
<1> HIDE DEF f
<1>9. Chooses(list, jobs, m, f)
  BY <1>7, <1>8 DEF Chooses
<1> QED
  BY <1>9

LEMMA OnlyList ==
    ASSUME NEW S, NEW list \in Seq(S), NEW jobs
    PROVE  /\ Only(list, jobs) \in Seq(S)
           /\ ToSet(Only(list, jobs)) = ToSet(list) \cap jobs
           /\ IsInjective(list) => IsInjective(Only(list, jobs))
<1>1. Len(list) \in Nat /\ DOMAIN list = 1 .. Len(list) /\ \A i \in 1 .. Len(list) : list[i] \in S
  OBVIOUS
<1>2. PICK g : Chooses(list, jobs, Len(list), g)
  BY <1>1, ChoosesExists
<1>3. PICK f : Chooses(list, jobs, Len(list), f) /\ Only(list, jobs) = f[Len(list)]
  BY <1>2 DEF Only, Chooses
<1>4. \A i \in 0 .. Len(list) : f[i] = IF i = 0 THEN <<>>
          ELSE IF list[i] \in jobs THEN Append(f[i - 1], list[i]) ELSE f[i - 1]
  BY <1>3 DEF Chooses
<1> DEFINE Upto(n) == {list[i] : i \in 1 .. n}
           Good(n) == /\ f[n] \in Seq(S) /\ ToSet(f[n]) = Upto(n) \cap jobs
                      /\ IsInjective(list) => IsInjective(f[n])
           B == {n \in 0 .. Len(list) : ~ Good(n)}
<1>5. B = {}
  <2>1. SUFFICES ASSUME B # {} PROVE FALSE
    OBVIOUS
  <2>2. PICK n \in B : \A k \in B : n <= k
    <3>1. B \in SUBSET Nat
      OBVIOUS
    <3> HIDE DEF B
    <3> QED
      BY <2>1, <3>1, LeastNumber
  <2>3. n # 0
    <3>1. f[0] = <<>> /\ Upto(0) = {}
      BY <1>1, <1>4
    <3>2. Good(0)
      BY <3>1, EmptyList
    <3> QED
      BY <3>2
  <2>4. n \in 1 .. Len(list) /\ n - 1 \in 0 .. Len(list) /\ n - 1 \notin B
    <3>1. n \in 0 .. Len(list)
      OBVIOUS
    <3>2. n \in 1 .. Len(list) /\ n - 1 \in 0 .. Len(list) /\ ~ (n <= n - 1)
      BY <1>1, <2>3, <3>1
    <3> HIDE DEF B
    <3> QED
      BY <2>2, <3>2
  <2>5. /\ f[n - 1] \in Seq(S) /\ ToSet(f[n - 1]) = Upto(n - 1) \cap jobs
        /\ IsInjective(list) => IsInjective(f[n - 1])
    BY <2>4
  <2>6. Upto(n) = Upto(n - 1) \cup {list[n]}
    BY <2>4
  <2>7. IsInjective(list) => list[n] \notin Upto(n - 1)
    BY <1>1, <2>4 DEF IsInjective
  <2>8. f[n] = IF list[n] \in jobs THEN Append(f[n - 1], list[n]) ELSE f[n - 1]
    BY <1>4, <2>3, <2>4
  <2>9. list[n] \in S
    BY <1>1, <2>4
  <2> HIDE DEF Upto
  <2>10. Good(n)
    <3>1. CASE list[n] \in jobs
      <4>1. /\ f[n] \in Seq(S) /\ ToSet(f[n]) = ToSet(f[n - 1]) \cup {list[n]}
            /\ IsInjective(f[n - 1]) /\ list[n] \notin ToSet(f[n - 1]) => IsInjective(f[n])
        BY <2>5, <2>8, <2>9, <3>1, AppendedList
      <4> QED
        BY <2>5, <2>6, <2>7, <3>1, <4>1
    <3>2. CASE list[n] \notin jobs
      BY <2>5, <2>6, <2>8, <3>2
    <3> QED
      BY <3>1, <3>2
  <2> QED
    BY <2>10
<1>6. Good(Len(list))
  <2>1. Len(list) \in 0 .. Len(list)
    BY <1>1
  <2> HIDE DEF Good
  <2> QED
    BY <1>5, <2>1
<1>7. Upto(Len(list)) = ToSet(list)
  BY <1>1 DEF ToSet
<1> QED
  BY <1>3, <1>6, <1>7
-----------------------------------------------------------------------------
(* What a thread has in hand ... *)
Hands ==
    [pc : {"idle", "perform", "flush", "complete", "append", "fence", "post"},
     job : Jobs \cup {None}, took : SUBSET Jobs, end : SUBSET Jobs, done : SUBSET Jobs,
     acked : SUBSET Jobs, list : Seq(Jobs), next : SUBSET Jobs, other : Seq(Jobs),
     flush : Jobs \cup {None}]

(* ... and when. *)
Shape(rec) ==
    /\ rec.pc = "idle" => rec.job = None
    /\ rec.pc = "perform" => rec.job # None
    /\ rec.pc # "flush" => rec.end = {}
    /\ rec.pc \notin {"flush", "complete"} => rec.done = {}
    /\ rec.pc # "complete" => rec.list = <<>>
    /\ rec.pc \notin {"append", "fence", "post"} => rec.next = {}
    /\ rec.pc \notin {"flush", "append"} => rec.other = <<>>
    /\ rec.pc \in {"idle", "perform", "flush"} => rec.acked = {}

(* What the network thread has in hand. *)
Carried(n) ==
    /\ n \in [pc : {"idle", "push", "push_front", "cache", "flush"}, job : Jobs \cup {None}]
    /\ n.pc # "idle" => n.job \in Jobs

JobTypes ==
    /\ m_queued_jobs \in Seq(Jobs) /\ hung \subseteq Jobs /\ read_jobs \in Seq(Reads)
    /\ outstanding_read \in BOOLEAN
    /\ Carried(net)
    /\ thread \in [Threads -> Hands]
    /\ \A t \in Threads : Shape(thread[t])

(* Some read is on its way that will serve the reads that wait. *)
ReadsServed ==
    IF outstanding_read
    THEN \E j \in Reads :
            \/ j \in ToSet(m_queued_jobs)
            \/ net.pc = "push" /\ net.job = j
            \/ \E t \in Threads : thread[t].job = j \/ j \in ToSet(thread[t].other)
    ELSE read_jobs = <<>>

(* A job that is done is on its way to its handler, or was there. *)
DoneAreCalled ==
    /\ finished \cap Issued \subseteq
          called \cup m_completed_jobs \cup UNION {thread[t].acked : t \in Threads}
    /\ m_completed_jobs # {} => m_job_completions_in_flight

JobsInv == JobTypes /\ JobsAccounted /\ ReadsServed /\ DoneAreCalled
-----------------------------------------------------------------------------
(* The places *)

LEMMA FourPlaces ==
    ASSUME NEW a, NEW b, NEW c, NEW d
    PROVE  /\ All(<<a, b, c, d>>) = a \cup b \cup c \cup d
           /\ Apart(<<a, b, c, d>>) <=>
                 /\ a \cap b = {} /\ a \cap c = {} /\ a \cap d = {}
                 /\ b \cap c = {} /\ b \cap d = {} /\ c \cap d = {}
<1> DEFINE p == <<a, b, c, d>>
<1>1. DOMAIN p = {1, 2, 3, 4} /\ p[1] = a /\ p[2] = b /\ p[3] = c /\ p[4] = d
  OBVIOUS
<1> HIDE DEF p
<1>2. All(p) = a \cup b \cup c \cup d
  BY <1>1 DEF All
<1>3. Apart(p) <=>
         /\ a \cap b = {} /\ a \cap c = {} /\ a \cap d = {}
         /\ b \cap c = {} /\ b \cap d = {} /\ c \cap d = {}
  BY <1>1 DEF Apart
<1> QED
  BY <1>2, <1>3 DEF p

LEMMA SixPlaces ==
    ASSUME NEW a, NEW b, NEW c, NEW d, NEW e, NEW f
    PROVE  /\ All(<<a, b, c, d, e, f>>) = a \cup b \cup c \cup d \cup e \cup f
           /\ Apart(<<a, b, c, d, e, f>>) <=>
                 /\ a \cap (b \cup c \cup d \cup e \cup f) = {}
                 /\ b \cap (c \cup d \cup e \cup f) = {} /\ c \cap (d \cup e \cup f) = {}
                 /\ d \cap (e \cup f) = {} /\ e \cap f = {}
<1> DEFINE p == <<a, b, c, d, e, f>>
<1>1. /\ DOMAIN p = {1, 2, 3, 4, 5, 6}
      /\ p[1] = a /\ p[2] = b /\ p[3] = c /\ p[4] = d /\ p[5] = e /\ p[6] = f
  OBVIOUS
<1> HIDE DEF p
<1>2. All(p) = a \cup b \cup c \cup d \cup e \cup f
  BY <1>1 DEF All
<1>3. ASSUME Apart(p)
      PROVE  /\ a \cap b = {} /\ a \cap c = {} /\ a \cap d = {} /\ a \cap e = {} /\ a \cap f = {}
             /\ b \cap c = {} /\ b \cap d = {} /\ b \cap e = {} /\ b \cap f = {}
             /\ c \cap d = {} /\ c \cap e = {} /\ c \cap f = {}
             /\ d \cap e = {} /\ d \cap f = {} /\ e \cap f = {}
  BY <1>1, <1>3 DEF Apart
<1>4. ASSUME /\ a \cap b = {} /\ a \cap c = {} /\ a \cap d = {} /\ a \cap e = {} /\ a \cap f = {}
             /\ b \cap c = {} /\ b \cap d = {} /\ b \cap e = {} /\ b \cap f = {}
             /\ c \cap d = {} /\ c \cap e = {} /\ c \cap f = {}
             /\ d \cap e = {} /\ d \cap f = {} /\ e \cap f = {}
      PROVE  Apart(p)
  <2>1. SUFFICES ASSUME NEW i \in {1, 2, 3, 4, 5, 6}, NEW k \in {1, 2, 3, 4, 5, 6}, i # k
                 PROVE  p[i] \cap p[k] = {}
    BY <1>1 DEF Apart
  <2>2. i = 1 \/ i = 2 \/ i = 3 \/ i = 4 \/ i = 5 \/ i = 6
    OBVIOUS
  <2>3. k = 1 \/ k = 2 \/ k = 3 \/ k = 4 \/ k = 5 \/ k = 6
    OBVIOUS
  <2> HIDE DEF p
  <2> QED
    BY ONLY <1>1, <1>4, <2>1, <2>2, <2>3
<1>5. (/\ a \cap b = {} /\ a \cap c = {} /\ a \cap d = {} /\ a \cap e = {} /\ a \cap f = {}
       /\ b \cap c = {} /\ b \cap d = {} /\ b \cap e = {} /\ b \cap f = {}
       /\ c \cap d = {} /\ c \cap e = {} /\ c \cap f = {}
       /\ d \cap e = {} /\ d \cap f = {} /\ e \cap f = {})
      <=> /\ a \cap (b \cup c \cup d \cup e \cup f) = {}
          /\ b \cap (c \cup d \cup e \cup f) = {} /\ c \cap (d \cup e \cup f) = {}
          /\ d \cap (e \cup f) = {} /\ e \cap f = {}
  OBVIOUS
<1> QED
  BY ONLY <1>2, <1>3, <1>4, <1>5 DEF p

(* A thread takes what others do not have, and gives what it had: the jobs *)
(* in its hands and in the shared places are the same as before, but for   *)
(* those that completed (gone) and those that the fence let through (came).*)
LEMMA ThreadMoves ==
    ASSUME JobsAccounted, thread \in [Threads -> Hands],
           NEW t \in Threads, NEW r, Goes(t, r), NEW gone, NEW came,
           gone \subseteq All(InHand(thread[t])), came \cap in_progress = {},
           in_progress' = (in_progress \ gone) \cup came,
           Apart(Shared'), IsInjective(m_queued_jobs'), IsInjective(read_jobs'),
           Apart(InHand(r)), IsInjective(r.list), IsInjective(r.other),
           All(InHand(r)) \cap All(Shared') = {},
           All(InHand(r)) \cup All(Shared') =
              ((All(InHand(thread[t])) \cup All(Shared)) \ gone) \cup came
    PROVE  JobsAccounted'
<1> DEFINE hand(u) == All(InHand(thread[u]))
           s == All(Shared)
           s2 == All(Shared')
           h == All(InHand(thread[t]))
           h2 == All(InHand(r))
<1>1. thread'[t] = r /\ \A u \in Threads \ {t} : thread'[u] = thread[u]
  BY DEF Goes
<1>2. /\ in_progress = s \cup UNION {hand(u) : u \in Threads}
      /\ h \cap s = {}
      /\ \A u \in Threads \ {t} :
            hand(u) \cap s = {} /\ hand(u) \cap h = {} /\ hand(u) \subseteq in_progress
      /\ s \subseteq in_progress /\ h \subseteq in_progress
      /\ in_progress \subseteq s \cup h \cup UNION {hand(u) : u \in Threads \ {t}}
  BY DEF JobsAccounted
<1>3. /\ h2 \cap s2 = {} /\ h2 \cup s2 = ((h \cup s) \ gone) \cup came
      /\ gone \subseteq h /\ came \cap in_progress = {}
      /\ in_progress' = (in_progress \ gone) \cup came
  OBVIOUS
<1>4. \A u \in Threads \ {t} : All(InHand(thread'[u])) = hand(u)
  BY <1>1
<1>5. All(InHand(thread'[t])) = h2
  BY <1>1
<1> HIDE DEF s, s2, h, h2, hand
<1>6. \A u \in Threads \ {t} : hand(u) \cap s2 = {} /\ hand(u) \cap h2 = {}
  BY ONLY <1>2, <1>3
<1>7. in_progress' = s2 \cup UNION {All(InHand(thread'[u])) : u \in Threads}
  <2>1. UNION {All(InHand(thread'[u])) : u \in Threads} = h2 \cup UNION {hand(u) : u \in Threads \ {t}}
    <3>1. ASSUME NEW x, NEW u \in Threads, x \in All(InHand(thread'[u]))
          PROVE  x \in h2 \cup UNION {hand(v) : v \in Threads \ {t}}
      BY <1>4, <1>5, <3>1
    <3>2. ASSUME NEW x, x \in h2 \cup UNION {hand(v) : v \in Threads \ {t}}
          PROVE  \E u \in Threads : x \in All(InHand(thread'[u]))
      BY <1>4, <1>5, <3>2
    <3> QED
      BY <3>1, <3>2
  <2>2. in_progress' = s2 \cup h2 \cup UNION {hand(u) : u \in Threads \ {t}}
    <3>1. (UNION {hand(u) : u \in Threads \ {t}}) \cap (gone \cup came) = {}
      BY ONLY <1>2, <1>3
    <3>2. s \cup h \cup UNION {hand(u) : u \in Threads \ {t}} = in_progress
      BY ONLY <1>2
    <3> QED
      BY ONLY <1>3, <3>1, <3>2
  <2> QED
    BY ONLY <2>1, <2>2
<1>8. ASSUME NEW u \in Threads
      PROVE  /\ Apart(InHand(thread'[u])) /\ All(InHand(thread'[u])) \cap s2 = {}
             /\ IsInjective(thread'[u].list) /\ IsInjective(thread'[u].other)
             /\ \A v \in Threads \ {u} : All(InHand(thread'[u])) \cap All(InHand(thread'[v])) = {}
  <2>1. CASE u = t
    BY <1>1, <1>3, <1>4, <1>5, <1>6, <2>1
  <2>2. CASE u # t
    <3>1. thread'[u] = thread[u]
      BY <1>1, <2>2
    <3>2. Apart(InHand(thread[u])) /\ IsInjective(thread[u].list) /\ IsInjective(thread[u].other)
      BY DEF JobsAccounted
    <3>3. ASSUME NEW v \in Threads \ {u} PROVE hand(u) \cap All(InHand(thread'[v])) = {}
      <4>1. CASE v = t
        BY <1>5, <1>6, <2>2, <4>1
      <4>2. CASE v # t
        <5>1. hand(u) \cap hand(v) = {}
          BY DEF JobsAccounted, hand
        <5> QED
          BY <1>4, <4>2, <5>1
      <4> QED
        BY <4>1, <4>2
    <3> QED
      BY <1>4, <1>6, <2>2, <3>1, <3>2, <3>3
  <2> QED
    BY <2>1, <2>2
<1> QED
  BY <1>7, <1>8 DEF JobsAccounted, s2

(* A step of the network thread, which may bring a job. *)
LEMMA NetMoves ==
    ASSUME JobsAccounted, thread' = thread, NEW came, came \cap in_progress = {},
           in_progress' = in_progress \cup came,
           Apart(Shared'), IsInjective(m_queued_jobs'), IsInjective(read_jobs'),
           All(Shared') = All(Shared) \cup came
    PROVE  JobsAccounted'
<1> DEFINE hand(u) == All(InHand(thread[u]))
           s == All(Shared)
           s2 == All(Shared')
<1>1. /\ in_progress = s \cup UNION {hand(u) : u \in Threads}
      /\ \A u \in Threads :
            /\ hand(u) \cap s = {} /\ hand(u) \subseteq in_progress
            /\ Apart(InHand(thread[u])) /\ IsInjective(thread[u].list) /\ IsInjective(thread[u].other)
            /\ \A v \in Threads \ {u} : hand(u) \cap hand(v) = {}
      /\ s2 = s \cup came /\ in_progress' = in_progress \cup came /\ came \cap in_progress = {}
  BY DEF JobsAccounted
<1> HIDE DEF s, s2, hand
<1>2. in_progress' = s2 \cup UNION {hand(u) : u \in Threads}
  BY ONLY <1>1
<1>3. \A u \in Threads : hand(u) \cap s2 = {}
  BY ONLY <1>1
<1>4. \A u \in Threads : All(InHand(thread'[u])) = hand(u)
  BY DEF hand
<1>5. in_progress' = All(Shared') \cup UNION {All(InHand(thread'[u])) : u \in Threads}
  BY <1>2, <1>4 DEF s2
<1>6. ASSUME NEW u \in Threads
      PROVE  /\ Apart(InHand(thread'[u])) /\ All(InHand(thread'[u])) \cap All(Shared') = {}
             /\ IsInjective(thread'[u].list) /\ IsInjective(thread'[u].other)
             /\ \A v \in Threads \ {u} : All(InHand(thread'[u])) \cap All(InHand(thread'[v])) = {}
  <2>1. /\ Apart(InHand(thread'[u])) /\ IsInjective(thread'[u].list)
        /\ IsInjective(thread'[u].other)
    BY <1>1
  <2>2. All(InHand(thread'[u])) \cap All(Shared') = {}
    BY <1>3, <1>4 DEF s2
  <2>3. ASSUME NEW v \in Threads \ {u}
        PROVE  All(InHand(thread'[u])) \cap All(InHand(thread'[v])) = {}
    BY <1>1, <1>4
  <2> QED
    BY <2>1, <2>2, <2>3
<1> QED
  BY <1>5, <1>6 DEF JobsAccounted

(* What a thread has in hand, and the shared places, as sets. *)
LEMMA HandPlaces ==
    ASSUME NEW rec
    PROVE  LET a == {rec.job} \ {None}
               d == ToSet(rec.list)
               f == ToSet(rec.other)
           IN  /\ All(InHand(rec)) = a \cup rec.end \cup rec.done \cup d \cup rec.next \cup f
               /\ Apart(InHand(rec)) <=>
                     /\ a \cap (rec.end \cup rec.done \cup d \cup rec.next \cup f) = {}
                     /\ rec.end \cap (rec.done \cup d \cup rec.next \cup f) = {}
                     /\ rec.done \cap (d \cup rec.next \cup f) = {}
                     /\ d \cap (rec.next \cup f) = {} /\ rec.next \cap f = {}
BY SixPlaces DEF InHand

LEMMA SharedPlaces ==
    /\ All(Shared) = ToSet(m_queued_jobs) \cup hung \cup ToSet(read_jobs) \cup NetJob
    /\ Apart(Shared) <=>
          /\ ToSet(m_queued_jobs) \cap hung = {} /\ ToSet(m_queued_jobs) \cap ToSet(read_jobs) = {}
          /\ ToSet(m_queued_jobs) \cap NetJob = {}
          /\ hung \cap ToSet(read_jobs) = {} /\ hung \cap NetJob = {} /\ ToSet(read_jobs) \cap NetJob = {}
BY FourPlaces DEF Shared

LEMMA SharedPlacesNext ==
    /\ All(Shared') = ToSet(m_queued_jobs') \cup hung' \cup ToSet(read_jobs') \cup NetJob'
    /\ Apart(Shared') <=>
          /\ ToSet(m_queued_jobs') \cap hung' = {} /\ ToSet(m_queued_jobs') \cap ToSet(read_jobs') = {}
          /\ ToSet(m_queued_jobs') \cap NetJob' = {}
          /\ hung' \cap ToSet(read_jobs') = {} /\ hung' \cap NetJob' = {}
          /\ ToSet(read_jobs') \cap NetJob' = {}
BY FourPlaces DEF Shared

(* The places that a step of a thread is about: the thread's own and the   *)
(* shared ones, no two of which have a job in common.                      *)
LEMMA PlacesApart ==
    ASSUME JobTypes, JobsAccounted, NEW t \in Threads
    PROVE  LET rec == thread[t]
               q == ToSet(m_queued_jobs)
               d == ToSet(read_jobs)
           IN  /\ rec \in Hands /\ Shape(rec)
               /\ IsInjective(m_queued_jobs) /\ IsInjective(read_jobs)
               /\ IsInjective(rec.list) /\ IsInjective(rec.other)
               /\ q \cap hung = {} /\ q \cap d = {} /\ q \cap NetJob = {}
               /\ hung \cap d = {} /\ hung \cap NetJob = {} /\ d \cap NetJob = {}
               /\ Apart(InHand(rec))
               /\ All(InHand(rec)) \cap (q \cup hung \cup d \cup NetJob) = {}
               /\ All(InHand(rec)) \subseteq in_progress
               /\ q \cup hung \cup d \cup NetJob \subseteq in_progress
<1>1. thread[t] \in Hands /\ Shape(thread[t])
  BY DEF JobTypes
<1>2. /\ IsInjective(m_queued_jobs) /\ IsInjective(read_jobs)
      /\ IsInjective(thread[t].list) /\ IsInjective(thread[t].other)
      /\ Apart(Shared) /\ Apart(InHand(thread[t]))
      /\ All(InHand(thread[t])) \cap All(Shared) = {}
      /\ All(InHand(thread[t])) \subseteq in_progress
      /\ All(Shared) \subseteq in_progress
  BY DEF JobsAccounted
<1> QED
  BY <1>1, <1>2, SharedPlaces

(* A step of a thread that leaves the network thread alone. *)
LEMMA ThreadTyped ==
    ASSUME JobTypes, NEW t \in Threads, NEW r \in Hands, Goes(t, r), Shape(r)
    PROVE  /\ thread' \in [Threads -> Hands] /\ \A u \in Threads : Shape(thread'[u])
           /\ thread'[t] = r /\ \A u \in Threads \ {t} : thread'[u] = thread[u]
BY DEF JobTypes, Goes

(* The read that is on its way stays on its way. *)
LEMMA ServedStays ==
    ASSUME JobTypes, ReadsServed, NEW t \in Threads, NEW r, Goes(t, r),
           net' = net, outstanding_read' = outstanding_read, read_jobs' = read_jobs,
           \A j \in Reads :
              j \in ToSet(m_queued_jobs) \/ thread[t].job = j \/ j \in ToSet(thread[t].other) =>
                 j \in ToSet(m_queued_jobs') \/ r.job = j \/ j \in ToSet(r.other)
    PROVE  ReadsServed'
<1>1. thread'[t] = r /\ \A u \in Threads \ {t} : thread'[u] = thread[u]
  BY DEF JobTypes, Goes
<1>2. CASE outstanding_read
  <2>1. PICK j \in Reads :
            \/ j \in ToSet(m_queued_jobs)
            \/ net.pc = "push" /\ net.job = j
            \/ \E u \in Threads : thread[u].job = j \/ j \in ToSet(thread[u].other)
    BY <1>2 DEF ReadsServed
  <2>2. \/ j \in ToSet(m_queued_jobs')
        \/ net'.pc = "push" /\ net'.job = j
        \/ \E u \in Threads : thread'[u].job = j \/ j \in ToSet(thread'[u].other)
    BY <1>1, <2>1
  <2> QED
    BY <1>2, <2>2 DEF ReadsServed
<1>3. CASE ~ outstanding_read
  BY <1>3 DEF ReadsServed
<1> QED
  BY <1>2, <1>3

(* A job that is acknowledged is not forgotten. *)
LEMMA CalledStays ==
    ASSUME JobTypes, DoneAreCalled, NEW t \in Threads, NEW r, Goes(t, r),
           called' = called, m_completed_jobs \subseteq m_completed_jobs',
           finished' \subseteq finished \cup r.acked \cup m_completed_jobs',
           thread[t].acked \subseteq r.acked \cup m_completed_jobs',
           m_completed_jobs' # {} => m_job_completions_in_flight'
    PROVE  DoneAreCalled'
<1>1. thread'[t] = r /\ \A u \in Threads \ {t} : thread'[u] = thread[u]
  BY DEF JobTypes, Goes
<1>2. ASSUME NEW x \in finished' \cap Issued
      PROVE  x \in called' \cup m_completed_jobs' \cup UNION {thread'[u].acked : u \in Threads}
  <2>1. CASE x \in r.acked \cup m_completed_jobs'
    BY <1>1, <2>1
  <2>2. CASE x \in finished /\ x \notin r.acked \cup m_completed_jobs'
    <3>1. x \in called \/ \E u \in Threads : x \in thread[u].acked
      BY <2>2 DEF DoneAreCalled
    <3>2. ASSUME NEW u \in Threads, x \in thread[u].acked PROVE u # t
      BY <2>2, <3>2
    <3> QED
      BY <1>1, <3>1, <3>2
  <2> QED
    BY <1>2, <2>1, <2>2
<1> QED
  BY <1>2 DEF DoneAreCalled

(* A step that moves jobs between the shared places and the hand of t. *)
LEMMA ThreadPasses ==
    ASSUME JobTypes, JobsAccounted, NEW t \in Threads, NEW r, Goes(t, r),
           net' = net, in_progress' = in_progress,
           IsInjective(m_queued_jobs'), IsInjective(read_jobs'),
           Apart(InHand(r)), IsInjective(r.list), IsInjective(r.other),
           NEW q, NEW h, NEW d, q = ToSet(m_queued_jobs'), h = hung', d = ToSet(read_jobs'),
           q \cap h = {}, q \cap d = {}, h \cap d = {}, All(InHand(r)) \cap (q \cup h \cup d) = {},
           All(InHand(r)) \cup q \cup h \cup d =
              All(InHand(thread[t])) \cup ToSet(m_queued_jobs) \cup hung \cup ToSet(read_jobs)
    PROVE  JobsAccounted'
<1> DEFINE rec == thread[t]
           old == All(InHand(rec))
           new == All(InHand(r))
           n == NetJob
           q0 == ToSet(m_queued_jobs)
           d0 == ToSet(read_jobs)
<1>1. /\ q0 \cap n = {} /\ hung \cap n = {} /\ d0 \cap n = {} /\ old \cap (q0 \cup hung \cup d0 \cup n) = {}
      /\ All(Shared) = q0 \cup hung \cup d0 \cup n
  BY PlacesApart, SharedPlaces
<1>2. NetJob' = n
  BY DEF NetJob
<1>3. /\ All(Shared') = q \cup h \cup d \cup NetJob'
      /\ (/\ q \cap h = {} /\ q \cap d = {} /\ q \cap NetJob' = {}
          /\ h \cap d = {} /\ h \cap NetJob' = {} /\ d \cap NetJob' = {}) => Apart(Shared')
  BY SharedPlacesNext
<1>4. /\ new \cup q \cup h \cup d = old \cup q0 \cup hung \cup d0
      /\ new \cap (q \cup h \cup d) = {}
  OBVIOUS
<1> HIDE DEF old, new, n, q0, d0
<1>5. q \cap n = {} /\ h \cap n = {} /\ d \cap n = {} /\ new \cap n = {}
  BY ONLY <1>1, <1>4
<1>6. Apart(Shared')
  BY <1>2, <1>3, <1>5
<1>7. new \cap All(Shared') = {} /\ new \cup All(Shared') = old \cup All(Shared)
  BY ONLY <1>1, <1>2, <1>3, <1>4, <1>5
<1>8. thread \in [Threads -> Hands]
  BY DEF JobTypes
<1>9. /\ {} \subseteq All(InHand(thread[t])) /\ {} \cap in_progress = {}
      /\ in_progress' = (in_progress \ {}) \cup {}
      /\ All(InHand(r)) \cap All(Shared') = {}
      /\ All(InHand(r)) \cup All(Shared') = ((All(InHand(thread[t])) \cup All(Shared)) \ {}) \cup {}
  BY <1>7 DEF old, new
<1>10. JobsAccounted /\ Goes(t, r)
  OBVIOUS
<1>11. /\ IsInjective(m_queued_jobs') /\ IsInjective(read_jobs')
       /\ Apart(InHand(r)) /\ IsInjective(r.list) /\ IsInjective(r.other)
  OBVIOUS
<1> QED
  BY ONLY t \in Threads, <1>6, <1>8, <1>9, <1>10, <1>11, ThreadMoves

(* Between two jobs a thread has nothing. *)
LEMMA IdleIsHand ==
    /\ ThreadIdle \in Hands
    /\ ThreadIdle.end = {} /\ ThreadIdle.done = {} /\ ThreadIdle.acked = {} /\ ThreadIdle.next = {}
    /\ ThreadIdle.list = <<>> /\ ThreadIdle.other = <<>> /\ ThreadIdle.job = None
    /\ ThreadIdle.pc = "idle"
BY DEF ThreadIdle, Hands

(* thread_fun takes a job from the queue. *)
LEMMA PopKeeps ==
    ASSUME JobsInv, NEW t \in Threads, PopJob(t)
    PROVE  JobsInv'
<1> DEFINE rec == thread[t]
           x == Head(m_queued_jobs)
<1>1. JobTypes /\ JobsAccounted /\ ReadsServed /\ DoneAreCalled
  BY DEF JobsInv
<1>2. PICK pc \in {"flush", "perform"}, took \in SUBSET Jobs :
          Goes(t, [ThreadIdle EXCEPT !.pc = pc, !.job = x, !.took = took])
  <2>1. Dirty \in SUBSET Jobs /\ {} \in SUBSET Jobs
    BY <1>1 DEF Dirty, JobTypes
  <2>2. PICK expired \in BOOLEAN :
          Goes(t, [ThreadIdle EXCEPT
                     !.pc = IF expired THEN "flush" ELSE "perform",
                     !.job = x,
                     !.took = IF expired THEN Dirty ELSE {}])
    BY DEF PopJob
  <2>3. CASE expired
    BY <2>1, <2>2, <2>3
  <2>4. CASE ~ expired
    BY <2>1, <2>2, <2>4
  <2> QED
    BY <2>3, <2>4
<1>3. /\ m_queued_jobs # <<>> /\ m_queued_jobs' = Tail(m_queued_jobs) /\ At(t, "idle")
      /\ UNCHANGED <<fenceVars, cacheVars, net, completionVars>>
  BY DEF PopJob
<1>4. /\ x \in Jobs /\ x # None /\ x \in ToSet(m_queued_jobs)
      /\ m_queued_jobs' \in Seq(Jobs) /\ IsInjective(m_queued_jobs')
      /\ ToSet(m_queued_jobs') = ToSet(m_queued_jobs) \ {x}
  BY <1>1, <1>3, TailList, KnownJobs DEF JobTypes, JobsAccounted
<1> HIDE DEF x
<1>r. PICK r : r = [ThreadIdle EXCEPT !.pc = pc, !.job = x, !.took = took]
  OBVIOUS
<1>g. Goes(t, r)
  BY <1>2, <1>r
<1>5. /\ r.pc = pc /\ r.job = x /\ r.end = {} /\ r.done = {} /\ r.acked = {}
      /\ r.list = <<>> /\ r.next = {} /\ r.other = <<>> /\ r \in Hands
  BY <1>4, <1>r, IdleIsHand DEF Hands
<1>6. Shape(r)
  BY <1>4, <1>5 DEF Shape
<1>7. /\ All(InHand(r)) = {x} /\ Apart(InHand(r)) /\ IsInjective(r.list) /\ IsInjective(r.other)
  BY <1>4, <1>5, HandPlaces, EmptyList
<1>8. All(InHand(rec)) = {} /\ rec.job = None /\ rec.acked = {} /\ rec.other = <<>>
  BY <1>1, <1>3, HandPlaces, EmptyList DEF JobTypes, Shape, At
<1>9. JobTypes'
  BY <1>1, <1>g, <1>3, <1>4, <1>5, <1>6, ThreadTyped DEF JobTypes, cacheVars
<1>10. JobsAccounted'
  <2> DEFINE q0 == ToSet(m_queued_jobs)
             d0 == ToSet(read_jobs)
             q == ToSet(m_queued_jobs')
             d == ToSet(read_jobs')
  <2>1. /\ q0 \cap hung = {} /\ q0 \cap d0 = {} /\ hung \cap d0 = {} /\ IsInjective(read_jobs)
    BY <1>1, PlacesApart
  <2>2. /\ q = q0 \ {x} /\ hung' = hung /\ d = d0 /\ read_jobs' = read_jobs /\ x \in q0
    BY <1>3, <1>4 DEF cacheVars
  <2> HIDE DEF q0, d0, q, d
  <2>3. /\ q \cap hung' = {} /\ q \cap d = {} /\ hung' \cap d = {}
        /\ All(InHand(r)) \cap (q \cup hung' \cup d) = {}
        /\ All(InHand(r)) \cup q \cup hung' \cup d = All(InHand(thread[t])) \cup q0 \cup hung \cup d0
    BY ONLY <1>7, <1>8, <2>1, <2>2
  <2>4. net' = net /\ in_progress' = in_progress
    BY <1>3 DEF fenceVars
  <2> QED
    <3>1. /\ q = ToSet(m_queued_jobs') /\ d = ToSet(read_jobs') /\ IsInjective(m_queued_jobs')
          /\ q0 = ToSet(m_queued_jobs) /\ d0 = ToSet(read_jobs) /\ IsInjective(read_jobs')
      BY <1>4, <2>1, <2>2 DEF q0, d0, q, d
    <3>2. All(InHand(r)) \cup q \cup hung' \cup d =
             All(InHand(thread[t])) \cup ToSet(m_queued_jobs) \cup hung \cup ToSet(read_jobs)
      BY <2>3, <3>1
    <3> QED
      BY ONLY t \in Threads, <1>1, <1>g, <1>7, <2>3, <2>4, <3>1, <3>2, ThreadPasses
<1>11. ReadsServed'
  <2>1. \A j \in Reads :
           j \in ToSet(m_queued_jobs) \/ thread[t].job = j \/ j \in ToSet(thread[t].other) =>
              j \in ToSet(m_queued_jobs') \/ r.job = j \/ j \in ToSet(r.other)
    BY <1>4, <1>5, <1>8, EmptyList, KnownJobs
  <2> QED
    BY <1>1, <1>g, <1>3, <2>1, ServedStays DEF cacheVars
<1>12. DoneAreCalled'
  BY <1>1, <1>g, <1>3, <1>5, <1>8, CalledStays DEF completionVars, fenceVars, DoneAreCalled
<1> QED
  BY <1>9, <1>10, <1>11, <1>12 DEF JobsInv

(* A thread that performs a job has just this one in hand. *)
LEMMA PerformHand ==
    ASSUME JobTypes, JobsAccounted, NEW t \in Threads, At(t, "perform")
    PROVE  LET rec == thread[t]
           IN  /\ rec \in Hands /\ rec.job \in Jobs /\ All(InHand(rec)) = {rec.job}
               /\ rec.end = {} /\ rec.done = {} /\ rec.list = <<>> /\ rec.next = {}
               /\ rec.other = <<>> /\ rec.acked = {}
               /\ rec.job \notin ToSet(m_queued_jobs) \cup hung \cup ToSet(read_jobs)
<1> DEFINE rec == thread[t]
<1>1. /\ rec \in Hands /\ rec.job \in Jobs /\ rec.job # None
      /\ rec.end = {} /\ rec.done = {} /\ rec.list = <<>> /\ rec.next = {}
      /\ rec.other = <<>> /\ rec.acked = {}
  BY DEF JobTypes, Shape, At, Hands
<1>2. All(InHand(rec)) = {rec.job}
  BY <1>1, HandPlaces, EmptyList
<1>3. All(InHand(rec)) \cap (ToSet(m_queued_jobs) \cup hung \cup ToSet(read_jobs) \cup NetJob) = {}
  BY PlacesApart
<1> QED
  BY <1>1, <1>2, <1>3

(* The job goes from the hand to where it ends, waits or is tried again. *)
LEMMA Performs ==
    ASSUME JobsInv, NEW t \in Threads, At(t, "perform"), NEW r \in Hands, Goes(t, r),
           UNCHANGED <<fenceVars, net, completionVars>>,
           m_queued_jobs' \in Seq(Jobs), read_jobs' \in Seq(Reads), hung' \subseteq Jobs,
           outstanding_read' \in BOOLEAN,
           IsInjective(m_queued_jobs'), IsInjective(read_jobs'), IsInjective(r.other),
           r.pc = "flush", r.job = None, r.list = <<>>, r.next = {}, r.acked = {},
           NEW q, NEW h, NEW d, NEW o,
           q = ToSet(m_queued_jobs'), h = hung', d = ToSet(read_jobs'), o = ToSet(r.other),
           r.end \cap r.done = {}, (r.end \cup r.done) \cap o = {},
           q \cap h = {}, q \cap d = {}, h \cap d = {},
           (r.end \cup r.done \cup o) \cap (q \cup h \cup d) = {},
           r.end \cup r.done \cup o \cup q \cup h \cup d =
              {thread[t].job} \cup ToSet(m_queued_jobs) \cup hung \cup ToSet(read_jobs)
    PROVE  JobTypes' /\ JobsAccounted' /\ DoneAreCalled'
<1> DEFINE rec == thread[t]
<1>1. JobTypes /\ JobsAccounted /\ ReadsServed /\ DoneAreCalled
  BY DEF JobsInv
<1>2. All(InHand(rec)) = {rec.job} /\ rec.acked = {}
  BY <1>1, PerformHand
<1>3. net' = net /\ in_progress' = in_progress
  BY DEF fenceVars
<1>4. /\ All(InHand(r)) = r.end \cup r.done \cup o /\ Apart(InHand(r))
      /\ IsInjective(r.list)
  <2>1. ToSet(r.list) = {} /\ {r.job} \ {None} = {} /\ IsInjective(r.list)
    BY EmptyList
  <2> QED
    BY <2>1, HandPlaces
<1>5. Shape(r)
  BY DEF Shape
<1>6. JobTypes'
  BY <1>1, <1>3, <1>5, ThreadTyped DEF JobTypes
<1>7. JobsAccounted'
  <2>1. /\ All(InHand(r)) \cap (q \cup h \cup d) = {}
        /\ All(InHand(r)) \cup q \cup h \cup d =
              All(InHand(thread[t])) \cup ToSet(m_queued_jobs) \cup hung \cup ToSet(read_jobs)
    BY <1>2, <1>4
  <2>2. /\ IsInjective(m_queued_jobs') /\ IsInjective(read_jobs') /\ IsInjective(r.other)
        /\ q = ToSet(m_queued_jobs') /\ h = hung' /\ d = ToSet(read_jobs')
        /\ q \cap h = {} /\ q \cap d = {} /\ h \cap d = {} /\ t \in Threads /\ Goes(t, r)
    OBVIOUS
  <2> QED
    BY ONLY <1>1, <1>3, <1>4, <2>1, <2>2, ThreadPasses
<1>8. DoneAreCalled'
  BY <1>1, <1>2, CalledStays DEF completionVars, fenceVars, DoneAreCalled
<1> QED
  BY <1>6, <1>7, <1>8

Begun(t, r, done, end) ==
    /\ Goes(t, r) /\ r.pc = "flush" /\ r.job = None /\ r.list = <<>> /\ r.next = {}
    /\ r.acked = {} /\ r.end = end /\ r.done = done /\ r.other = <<>>

LEMMA BeginRecord ==
    ASSUME JobTypes, NEW t \in Threads, At(t, "perform"),
           NEW flush, NEW done \in SUBSET Jobs, NEW end \in SUBSET Jobs, BeginFlush(t, flush, done, end)
    PROVE  \E r \in Hands : Begun(t, r, done, end)
<1> DEFINE rec == thread[t]
<1>1. /\ rec \in Hands /\ rec.list = <<>> /\ rec.next = {} /\ rec.other = <<>> /\ rec.acked = {}
  BY DEF JobTypes, Shape, At
<1>2. Dirty \in SUBSET Jobs
  BY DEF Dirty, JobTypes
<1>3. PICK took \in SUBSET Jobs :
         Goes(t, [rec EXCEPT !.pc = "flush", !.job = None, !.done = done, !.end = end, !.took = took])
  BY <1>2 DEF BeginFlush
<1>4. PICK r :
         r = [rec EXCEPT !.pc = "flush", !.job = None, !.done = done, !.end = end, !.took = took]
  OBVIOUS
<1> HIDE DEF rec
<1>5. /\ r \in Hands /\ r.pc = "flush" /\ r.job = None /\ r.end = end /\ r.done = done
      /\ r.list = rec.list /\ r.next = rec.next /\ r.acked = rec.acked /\ r.other = rec.other
  BY <1>1, <1>4 DEF Hands
<1> QED
  BY <1>1, <1>3, <1>4, <1>5 DEF Begun

(* A read ends: the reads that waited for it are done, or the first that   *)
(* is not goes to the queue and the others wait for that one.              *)
LEMMA ReadKeeps ==
    ASSUME JobsInv, NEW t \in Threads, At(t, "perform"), DoRead(t, thread[t].job),
           UNCHANGED <<fenceVars, net, completionVars>>
    PROVE  JobsInv'
<1> DEFINE rec == thread[t]
           j == rec.job
           Q == ToSet(m_queued_jobs)
           D == ToSet(read_jobs)
<1>1. JobTypes /\ JobsAccounted /\ ReadsServed /\ DoneAreCalled
  BY DEF JobsInv
<1>2. j \in Jobs /\ j \notin Q \cup hung \cup D
  BY <1>1, PerformHand
<1>3. PICK hits \in SUBSET D, flush \in BOOLEAN :
        LET missed == Only(read_jobs, D \ hits)
        IN  /\ outstanding_read' = (missed # <<>>)
            /\ read_jobs' = IF missed = <<>> THEN <<>> ELSE Tail(missed)
            /\ m_queued_jobs' = IF missed = <<>> THEN m_queued_jobs
                                ELSE Append(m_queued_jobs, Head(missed))
            /\ BeginFlush(t, flush, hits, {j})
            /\ hung' = hung
  BY DEF DoRead
<1> DEFINE missed == Only(read_jobs, D \ hits)
<1>4. /\ outstanding_read' = (missed # <<>>)
      /\ read_jobs' = IF missed = <<>> THEN <<>> ELSE Tail(missed)
      /\ m_queued_jobs' = IF missed = <<>> THEN m_queued_jobs ELSE Append(m_queued_jobs, Head(missed))
      /\ BeginFlush(t, flush, hits, {j}) /\ hung' = hung
  BY <1>3
<1>5. /\ read_jobs \in Seq(Reads) /\ m_queued_jobs \in Seq(Jobs) /\ hung \subseteq Jobs
      /\ IsInjective(read_jobs) /\ IsInjective(m_queued_jobs)
      /\ Q \cap hung = {} /\ Q \cap D = {} /\ hung \cap D = {}
  BY <1>1, PlacesApart DEF JobTypes
<1>6. D \subseteq Reads /\ D \subseteq Jobs
  <2>1. D \subseteq Reads
    BY <1>5 DEF ToSet
  <2> QED
    BY <2>1, KnownJobs
<1>7. missed \in Seq(Reads) /\ ToSet(missed) = D \ hits /\ IsInjective(missed)
  <2>1. ToSet(missed) = D \cap (D \ hits) /\ missed \in Seq(Reads) /\ IsInjective(missed)
    BY <1>5, OnlyList
  <2> HIDE DEF missed
  <2> QED
    BY <2>1
<1> HIDE DEF missed, D, Q, j
<1>8. PICK r \in Hands :
         /\ Goes(t, r) /\ r.pc = "flush" /\ r.job = None /\ r.list = <<>> /\ r.next = {}
         /\ r.acked = {} /\ r.end = {j} /\ r.done = hits /\ r.other = <<>>
  <2> DEFINE end == {j}
  <2>1. hits \in SUBSET Jobs /\ end \in SUBSET Jobs
    BY <1>2, <1>6
  <2>2. JobTypes /\ t \in Threads /\ At(t, "perform") /\ BeginFlush(t, flush, hits, end)
    BY <1>1, <1>4
  <2> HIDE DEF end
  <2>3. PICK r \in Hands : Begun(t, r, hits, end)
    BY ONLY <2>1, <2>2, BeginRecord
  <2> QED
    BY <2>3 DEF end, Begun
<1> DEFINE q == ToSet(m_queued_jobs')
           d == ToSet(read_jobs')
<1>9. /\ m_queued_jobs' \in Seq(Jobs) /\ read_jobs' \in Seq(Reads)
      /\ IsInjective(m_queued_jobs') /\ IsInjective(read_jobs')
      /\ q \cup d = Q \cup (D \ hits) /\ q \cap d = {}
      /\ outstanding_read' => \E x \in Reads : x \in q
      /\ ~ outstanding_read' => read_jobs' = <<>>
  <2>1. CASE missed = <<>>
    <3>1. read_jobs' = <<>> /\ m_queued_jobs' = m_queued_jobs /\ ~ outstanding_read'
      BY <1>4, <2>1
    <3>2. D \ hits = {} /\ d = {} /\ q = Q /\ IsInjective(read_jobs') /\ read_jobs' \in Seq(Reads)
      BY <1>7, <2>1, <3>1, EmptyList DEF Q
    <3> QED
      BY <1>5, <3>1, <3>2
  <2>2. CASE missed # <<>>
    <3> DEFINE m == Head(missed)
    <3>1. read_jobs' = Tail(missed) /\ m_queued_jobs' = Append(m_queued_jobs, m)
      BY <1>4, <2>2
    <3>2. /\ m \in Reads /\ m \in D \ hits /\ read_jobs' \in Seq(Reads) /\ IsInjective(read_jobs')
          /\ d = (D \ hits) \ {m}
      BY <1>7, <2>2, <3>1, TailList
    <3> HIDE DEF m
    <3>3. m \notin Q /\ m \in Jobs
      BY <1>5, <1>6, <3>2
    <3>4. /\ m_queued_jobs' \in Seq(Jobs) /\ q = Q \cup {m} /\ IsInjective(m_queued_jobs')
      BY <1>5, <3>1, <3>3, AppendedList DEF Q
    <3>5. outstanding_read' = TRUE
      BY <1>4, <2>2
    <3> HIDE DEF d, q
    <3>6. q \cup d = Q \cup (D \ hits) /\ q \cap d = {}
      BY <1>5, <3>2, <3>4
    <3> QED
      BY <3>2, <3>4, <3>5, <3>6
  <2> QED
    BY <2>1, <2>2
<1> HIDE DEF q, d
<1>10. ReadsServed'
  BY <1>4, <1>9 DEF ReadsServed, q
<1>11. /\ {j} \cap hits = {} /\ q \cap hung = {} /\ hung \cap d = {}
       /\ ({j} \cup hits) \cap (q \cup hung \cup d) = {}
       /\ {j} \cup hits \cup q \cup hung \cup d = {j} \cup Q \cup hung \cup D
  BY ONLY <1>2, <1>5, <1>9, hits \in SUBSET D
<1>12. JobTypes' /\ JobsAccounted' /\ DoneAreCalled'
  <2> DEFINE o == ToSet(r.other)
  <2>1. o = {} /\ IsInjective(r.other)
    BY <1>8, EmptyList
  <2>2. outstanding_read' \in BOOLEAN /\ hung' \subseteq Jobs
    BY <1>4, <1>5
  <2> HIDE DEF o
  <2>3. /\ r.end \cap r.done = {} /\ (r.end \cup r.done) \cap o = {}
        /\ q \cap hung' = {} /\ q \cap d = {} /\ hung' \cap d = {}
        /\ (r.end \cup r.done \cup o) \cap (q \cup hung' \cup d) = {}
        /\ r.end \cup r.done \cup o \cup q \cup hung' \cup d =
              {thread[t].job} \cup ToSet(m_queued_jobs) \cup hung \cup ToSet(read_jobs)
    BY <1>4, <1>8, <1>9, <1>11, <2>1 DEF j, Q, D
  <2> QED
    BY <1>8, <1>9, <2>1, <2>2, <2>3, Performs DEF q, d, o
<1> QED
  BY <1>10, <1>12 DEF JobsInv

(* Jobs of one kind are not of another. *)
LEMMA KindsApart ==
    ASSUME NEW j
    PROVE  /\ j \in Writes \cup Hashes \cup Fences => j \notin Reads
           /\ IsFlushHashed(j) \/ IsFlushStorage(j) => j \notin Reads /\ j \notin Issued
BY DiskAssumption DEF DiskAssumption, IsFlushHashed, IsFlushStorage, Issued

(* No other job serves a read, or has one waiting for it. *)
LEMMA NoReadKeeps ==
    ASSUME JobsInv, NEW t \in Threads, At(t, "perform"), thread[t].job \notin Reads,
           UNCHANGED <<fenceVars, net, completionVars, m_queued_jobs, read_jobs, outstanding_read>>,
           NEW r \in Hands, Goes(t, r),
           r.pc = "flush", r.job = None, r.list = <<>>, r.next = {}, r.acked = {}, r.done = {},
           NEW h, h = hung',
           \/ h = hung /\ r.end = {thread[t].job} /\ r.other = <<>>
           \/ h = hung \cup {thread[t].job} /\ r.end = {} /\ r.other = <<>>
           \/ h = hung /\ r.end = {} /\ r.other = <<thread[t].job>>
    PROVE  JobsInv'
<1> DEFINE rec == thread[t]
           j == rec.job
           Q == ToSet(m_queued_jobs)
           D == ToSet(read_jobs)
           o == ToSet(r.other)
<1>1. JobTypes /\ JobsAccounted /\ ReadsServed /\ DoneAreCalled
  BY DEF JobsInv
<1>2. j \in Jobs /\ j \notin Q \cup hung \cup D /\ rec.other = <<>>
  BY <1>1, PerformHand
<1>3. /\ read_jobs \in Seq(Reads) /\ m_queued_jobs \in Seq(Jobs) /\ hung \subseteq Jobs
      /\ outstanding_read \in BOOLEAN
      /\ IsInjective(read_jobs) /\ IsInjective(m_queued_jobs)
      /\ Q \cap hung = {} /\ Q \cap D = {} /\ hung \cap D = {}
  BY <1>1, PlacesApart DEF JobTypes
<1>4. /\ r.other = <<>> => o = {} /\ IsInjective(r.other)
      /\ r.other = <<j>> => o = {j} /\ IsInjective(r.other)
  BY <1>2, EmptyList, SingleList
<1>5. ToSet(m_queued_jobs') = Q /\ ToSet(read_jobs') = D
  OBVIOUS
<1>6. ReadsServed'
  <2>1. \A x \in Reads :
           x \in ToSet(m_queued_jobs) \/ thread[t].job = x \/ x \in ToSet(thread[t].other) =>
              x \in ToSet(m_queued_jobs') \/ r.job = x \/ x \in ToSet(r.other)
    BY <1>2, EmptyList
  <2> QED
    BY <1>1, <2>1, ServedStays
<1>7. /\ \/ h = hung /\ r.end = {j} /\ o = {}
         \/ h = hung \cup {j} /\ r.end = {} /\ o = {}
         \/ h = hung /\ r.end = {} /\ o = {j}
      /\ IsInjective(r.other)
  BY <1>4
<1> HIDE DEF j, Q, D, o
<1>8. /\ Q \cap h = {} /\ h \cap D = {} /\ r.end \cap o = {} /\ h \subseteq Jobs
      /\ (r.end \cup o) \cap (Q \cup h \cup D) = {}
      /\ r.end \cup o \cup Q \cup h \cup D = {j} \cup Q \cup hung \cup D
  BY ONLY <1>2, <1>3, <1>7
<1>9. /\ r.end \cap r.done = {} /\ (r.end \cup r.done) \cap o = {}
      /\ (r.end \cup r.done \cup o) \cap (Q \cup h \cup D) = {}
      /\ r.end \cup r.done \cup o \cup Q \cup h \cup D =
            {thread[t].job} \cup ToSet(m_queued_jobs) \cup hung \cup ToSet(read_jobs)
  BY <1>8 DEF j, Q, D
<1>10. JobTypes' /\ JobsAccounted' /\ DoneAreCalled'
  BY <1>3, <1>5, <1>7, <1>8, <1>9, Performs DEF o
<1> QED
  BY <1>6, <1>10 DEF JobsInv

LEMMA PerformKeeps ==
    ASSUME JobsInv, NEW t \in Threads, PerformJob(t)
    PROVE  JobsInv'
<1> DEFINE rec == thread[t]
           j == rec.job
<1>1. JobTypes /\ JobsAccounted
  BY DEF JobsInv
<1>2. At(t, "perform") /\ UNCHANGED <<fenceVars, net, completionVars>>
  BY DEF PerformJob
<1>3. /\ rec \in Hands /\ j \in Jobs /\ rec.list = <<>> /\ rec.next = {} /\ rec.acked = {}
      /\ rec.end = {} /\ rec.done = {} /\ rec.other = <<>>
  BY <1>1, <1>2, PerformHand
<1>d. Dirty \in SUBSET Jobs /\ hung \in SUBSET Jobs
  BY <1>1 DEF Dirty, JobTypes
<1>4. CASE DoRead(t, j)
  BY <1>2, <1>4, ReadKeeps
<1>5. ASSUME NEW flush, BeginFlush(t, flush, {}, {j}), j \notin Reads,
             UNCHANGED <<m_queued_jobs, hung, read_jobs, outstanding_read>>
      PROVE  JobsInv'
  <2> DEFINE end == {j}
             none == {}
  <2>1. none \in SUBSET Jobs /\ end \in SUBSET Jobs /\ BeginFlush(t, flush, none, end)
    BY <1>3, <1>5
  <2> HIDE DEF end, none
  <2>2. PICK r \in Hands : Begun(t, r, none, end)
    BY ONLY t \in Threads, <1>1, <1>2, <2>1, BeginRecord
  <2>3. /\ Goes(t, r) /\ r.pc = "flush" /\ r.job = None /\ r.list = <<>> /\ r.next = {}
        /\ r.acked = {} /\ r.end = {thread[t].job} /\ r.done = {} /\ r.other = <<>>
    BY <2>2 DEF Begun, end, none
  <2> QED
    BY <1>2, <1>5, <2>3, NoReadKeeps
<1>6. CASE j \in Writes /\ DoWrite(t, j)
  <2>1. PICK cached \in CacheOutcomes, flush \in BOOLEAN :
          /\ hung' = IF cached THEN hung \cup {j} ELSE hung
          /\ Goes(t, [rec EXCEPT !.pc = "flush", !.job = None,
                        !.end = IF cached THEN {} ELSE {j},
                        !.took = IF ~ flush THEN {} ELSE IF cached THEN Dirty \cup {j} ELSE Dirty])
    BY <1>6 DEF DoWrite
  <2> DEFINE end == IF cached THEN {} ELSE {j}
             took == IF ~ flush THEN {} ELSE IF cached THEN Dirty \cup {j} ELSE Dirty
  <2>2. end \in SUBSET Jobs /\ took \in SUBSET Jobs
    BY <1>3, <1>d
  <2>3. \/ hung' = hung /\ end = {j}
        \/ hung' = hung \cup {j} /\ end = {}
    BY <2>1
  <2>4. Goes(t, [rec EXCEPT !.pc = "flush", !.job = None, !.end = end, !.took = took])
    BY <2>1
  <2> HIDE DEF end, took, rec
  <2>5. PICK r : r = [rec EXCEPT !.pc = "flush", !.job = None, !.end = end, !.took = took]
    OBVIOUS
  <2>6. /\ r \in Hands /\ r.pc = "flush" /\ r.job = None /\ r.end = end /\ r.done = rec.done
        /\ r.list = rec.list /\ r.next = rec.next /\ r.acked = rec.acked /\ r.other = rec.other
    BY <1>3, <2>2, <2>5 DEF Hands
  <2>7. /\ Goes(t, r) /\ r.list = <<>> /\ r.next = {} /\ r.acked = {} /\ r.done = {} /\ r.other = <<>>
    BY <1>3, <2>4, <2>5, <2>6
  <2>8. UNCHANGED <<m_queued_jobs, read_jobs, outstanding_read>>
    BY <1>6 DEF DoWrite
  <2>9. thread[t].job \notin Reads
    BY <1>6, KindsApart DEF rec
  <2>10. \/ hung' = hung /\ r.end = {thread[t].job} /\ r.other = <<>>
         \/ hung' = hung \cup {thread[t].job} /\ r.end = {} /\ r.other = <<>>
    BY <2>3, <2>6, <2>7 DEF rec
  <2> QED
    BY <1>2, <2>6, <2>7, <2>8, <2>9, <2>10, NoReadKeeps
<1>7. CASE IsFlushHashed(j) /\ DoFlushHashed(t, j)
  BY <1>5, <1>7, KindsApart DEF DoFlushHashed
<1>8. CASE IsFlushStorage(j) /\ DoFlushStorage(t, j)
  BY <1>5, <1>8, KindsApart DEF DoFlushStorage, cacheVars
<1>9. CASE j \in Hashes \cup Fences /\ DoOther(t, j)
  <2>1. j \notin Reads
    BY <1>9, KindsApart
  <2>2. UNCHANGED <<m_queued_jobs, hung, read_jobs, outstanding_read>>
    BY <1>9 DEF DoOther, cacheVars
  <2>3. CASE \E flush \in BOOLEAN : BeginFlush(t, flush, {}, {j})
    BY <1>5, <2>1, <2>2, <2>3
  <2>4. CASE \E flush \in BOOLEAN :
                Goes(t, [rec EXCEPT !.pc = "flush", !.job = None, !.other = <<j>>,
                                    !.took = IF flush THEN Dirty ELSE {}])
    <3>1. PICK took \in SUBSET Jobs :
             Goes(t, [rec EXCEPT !.pc = "flush", !.job = None, !.other = <<j>>, !.took = took])
      BY <1>d, <2>4
    <3> DEFINE other == <<j>>
    <3>2. other \in Seq(Jobs)
      BY <1>3
    <3>3. Goes(t, [rec EXCEPT !.pc = "flush", !.job = None, !.other = other, !.took = took])
      BY <3>1
    <3> HIDE DEF other, rec
    <3>4. PICK r : r = [rec EXCEPT !.pc = "flush", !.job = None, !.other = other, !.took = took]
      OBVIOUS
    <3>5. /\ r \in Hands /\ r.pc = "flush" /\ r.job = None /\ r.end = rec.end /\ r.done = rec.done
          /\ r.list = rec.list /\ r.next = rec.next /\ r.acked = rec.acked /\ r.other = other
      BY <1>3, <3>2, <3>4 DEF Hands
    <3>6. /\ Goes(t, r) /\ r.list = <<>> /\ r.next = {} /\ r.acked = {} /\ r.done = {}
          /\ r.end = {} /\ r.other = <<thread[t].job>>
      BY <1>3, <3>3, <3>4, <3>5 DEF other, rec
    <3>7. thread[t].job \notin Reads
      BY <2>1 DEF rec
    <3> QED
      BY <1>2, <2>2, <3>5, <3>6, <3>7, NoReadKeeps
  <2> QED
    BY <1>9, <2>3, <2>4 DEF DoOther
<1> QED
  BY <1>4, <1>6, <1>7, <1>8, <1>9 DEF PerformJob

(* A thread with completed jobs, or with none. *)
LEMMA CompletingRecord ==
    ASSUME NEW rec \in Hands, NEW jobs \in SUBSET Jobs, NEW r, r = Completing(rec, jobs)
    PROVE  /\ r \in Hands /\ r.done = jobs /\ r.job = rec.job /\ r.end = rec.end /\ r.list = rec.list
           /\ r.next = rec.next /\ r.other = rec.other /\ r.acked = rec.acked
           /\ jobs # {} => r.pc = "complete"
           /\ jobs = {} /\ rec.job # None => r.pc = "perform"
           /\ jobs = {} /\ rec.job = None => r.pc = "idle"
<1> DEFINE pc == IF jobs # {} THEN "complete" ELSE IF rec.job # None THEN "perform" ELSE "idle"
<1>1. r = [rec EXCEPT !.done = jobs, !.pc = pc]
  BY DEF Completing
<1>2. /\ pc \in {"complete", "perform", "idle"}
      /\ jobs # {} => pc = "complete"
      /\ jobs = {} /\ rec.job # None => pc = "perform"
      /\ jobs = {} /\ rec.job = None => pc = "idle"
  OBVIOUS
<1> HIDE DEF pc
<1>3. /\ r.done = jobs /\ r.job = rec.job /\ r.end = rec.end /\ r.list = rec.list
      /\ r.next = rec.next /\ r.other = rec.other /\ r.acked = rec.acked /\ r.pc = pc
  BY <1>1 DEF Hands
<1>4. r \in Hands
  BY <1>1, <1>2 DEF Hands
<1> QED
  BY <1>2, <1>3, <1>4

(* A step that leaves the fence, the reads of the piece and the network    *)
(* thread alone.                                                           *)
LEMMA ThreadKeeps ==
    ASSUME JobsInv, NEW t \in Threads, NEW r \in Hands, Shape(r), Goes(t, r),
           UNCHANGED <<fenceVars, net, read_jobs, outstanding_read, called>>,
           m_queued_jobs' \in Seq(Jobs), hung' \subseteq Jobs,
           IsInjective(m_queued_jobs'), Apart(InHand(r)), IsInjective(r.list), IsInjective(r.other),
           NEW q, NEW h, NEW d, q = ToSet(m_queued_jobs'), h = hung', d = ToSet(read_jobs),
           q \cap h = {}, q \cap d = {}, h \cap d = {}, All(InHand(r)) \cap (q \cup h \cup d) = {},
           All(InHand(r)) \cup q \cup h \cup d =
              All(InHand(thread[t])) \cup ToSet(m_queued_jobs) \cup hung \cup d,
           r.job = thread[t].job, ToSet(thread[t].other) \subseteq q \cup ToSet(r.other),
           ToSet(m_queued_jobs) \subseteq q,
           m_completed_jobs \subseteq m_completed_jobs',
           thread[t].acked \subseteq r.acked \cup m_completed_jobs',
           m_completed_jobs' # {} => m_job_completions_in_flight'
    PROVE  JobsInv'
<1>1. JobTypes /\ JobsAccounted /\ ReadsServed /\ DoneAreCalled
  BY DEF JobsInv
<1>2. net' = net /\ in_progress' = in_progress /\ finished' = finished
  BY DEF fenceVars
<1>3. JobTypes'
  BY <1>1, <1>2, ThreadTyped DEF JobTypes
<1>4. JobsAccounted'
  <2>1. /\ IsInjective(m_queued_jobs') /\ IsInjective(read_jobs')
        /\ Apart(InHand(r)) /\ IsInjective(r.list) /\ IsInjective(r.other)
        /\ q = ToSet(m_queued_jobs') /\ h = hung' /\ d = ToSet(read_jobs')
        /\ q \cap h = {} /\ q \cap d = {} /\ h \cap d = {}
        /\ All(InHand(r)) \cap (q \cup h \cup d) = {} /\ t \in Threads /\ Goes(t, r)
        /\ All(InHand(r)) \cup q \cup h \cup d =
              All(InHand(thread[t])) \cup ToSet(m_queued_jobs) \cup hung \cup ToSet(read_jobs)
    BY <1>1 DEF JobsAccounted
  <2> QED
    BY ONLY <1>1, <1>2, <2>1, ThreadPasses
<1>5. ReadsServed'
  <2>1. \A x \in Reads :
           x \in ToSet(m_queued_jobs) \/ thread[t].job = x \/ x \in ToSet(thread[t].other) =>
              x \in ToSet(m_queued_jobs') \/ r.job = x \/ x \in ToSet(r.other)
    OBVIOUS
  <2> QED
    BY <1>1, <1>2, <2>1, ServedStays
<1>6. DoneAreCalled'
  BY <1>1, <1>2, CalledStays
<1> QED
  BY <1>3, <1>4, <1>5, <1>6 DEF JobsInv

(* iovec_flushed *)
LEMMA FlushedKeeps ==
    ASSUME JobsInv, NEW t \in Threads, Flushed(t)
    PROVE  JobsInv'
<1> DEFINE rec == thread[t]
           Q == ToSet(m_queued_jobs)
           D == ToSet(read_jobs)
           O == ToSet(rec.other)
           J == {rec.job} \ {None}
<1>1. JobTypes /\ JobsAccounted /\ DoneAreCalled
  BY DEF JobsInv
<1>2. /\ At(t, "flush") /\ m_queued_jobs' = m_queued_jobs \o rec.other
      /\ UNCHANGED <<fenceVars, read_jobs, outstanding_read, net, completionVars>>
  BY DEF Flushed
<1>3. PICK over \in SUBSET hung :
        /\ hung' = hung \ over
        /\ Goes(t, Completing([rec EXCEPT !.took = {}, !.end = {}, !.other = <<>>],
                              rec.done \cup over \cup rec.end))
  BY DEF Flushed
<1>4. /\ rec \in Hands /\ rec.list = <<>> /\ rec.next = {} /\ rec.acked = {}
      /\ rec.done \subseteq Jobs /\ rec.end \subseteq Jobs /\ rec.other \in Seq(Jobs)
  BY <1>1, <1>2 DEF JobTypes, Shape, At, Hands
<1>5. /\ m_queued_jobs \in Seq(Jobs) /\ hung \subseteq Jobs
      /\ IsInjective(m_queued_jobs) /\ IsInjective(rec.other)
      /\ Q \cap hung = {} /\ Q \cap D = {} /\ hung \cap D = {}
      /\ All(InHand(rec)) \cap (Q \cup hung \cup D) = {}
      /\ All(InHand(rec)) = J \cup rec.end \cup rec.done \cup O
      /\ J \cap (rec.end \cup rec.done \cup O) = {} /\ rec.end \cap (rec.done \cup O) = {}
      /\ rec.done \cap O = {}
  BY <1>1, <1>4, PlacesApart, HandPlaces, EmptyList DEF JobTypes
<1>6. PICK base : base = [rec EXCEPT !.took = {}, !.end = {}, !.other = <<>>]
  OBVIOUS
<1> DEFINE jobs == rec.done \cup over \cup rec.end
<1>7. PICK r : r = Completing(base, jobs)
  OBVIOUS
<1>8. Goes(t, r)
  BY <1>3, <1>6, <1>7
<1>9. jobs \in SUBSET Jobs
  BY <1>4, <1>5
<1>j. jobs = rec.done \cup over \cup rec.end
  OBVIOUS
<1> HIDE DEF rec, jobs
<1>10. /\ base \in Hands /\ base.end = {} /\ base.other = <<>> /\ base.job = rec.job
       /\ base.list = rec.list /\ base.next = rec.next /\ base.acked = rec.acked
  BY <1>4, <1>6 DEF Hands
<1>11. /\ r \in Hands /\ r.done = jobs /\ r.job = rec.job /\ r.end = {} /\ r.list = <<>>
       /\ r.next = {} /\ r.other = <<>> /\ r.acked = {}
       /\ jobs # {} => r.pc = "complete"
       /\ jobs = {} /\ rec.job # None => r.pc = "perform"
       /\ jobs = {} /\ rec.job = None => r.pc = "idle"
  BY <1>4, <1>7, <1>9, <1>10, CompletingRecord
<1>12. Shape(r)
  BY <1>11 DEF Shape
<1> DEFINE q == ToSet(m_queued_jobs')
<1> HIDE DEF Q, D, O, J
<1>13. q = Q \cup O /\ m_queued_jobs' \in Seq(Jobs) /\ IsInjective(m_queued_jobs')
  <2>1. Q \cap O = {}
    BY ONLY <1>5
  <2> QED
    BY <1>2, <1>4, <1>5, <2>1, JoinedList DEF Q, O
<1>14. J \cap jobs = {}
  <2>1. J \cap over = {}
    BY ONLY <1>5, over \in SUBSET hung
  <2> QED
    BY ONLY <1>5, <1>j, <2>1
<1>15. /\ All(InHand(r)) = J \cup jobs /\ Apart(InHand(r)) /\ IsInjective(r.list)
       /\ IsInjective(r.other) /\ ToSet(r.other) = {}
  <2>1. ToSet(r.list) = {} /\ ToSet(r.other) = {} /\ IsInjective(r.list) /\ IsInjective(r.other)
    BY <1>11, EmptyList
  <2> QED
    BY <1>11, <1>14, <2>1, HandPlaces DEF J
<1> HIDE DEF q
<1>16. /\ q \cap hung' = {} /\ q \cap D = {} /\ hung' \cap D = {} /\ hung' \subseteq Jobs
       /\ (J \cup jobs) \cap (q \cup hung' \cup D) = {}
       /\ J \cup jobs \cup q \cup hung' \cup D = All(InHand(rec)) \cup Q \cup hung \cup D
       /\ O \subseteq q /\ Q \subseteq q
  BY ONLY <1>3, <1>5, <1>13, <1>j, over \in SUBSET hung
<1>17. /\ m_completed_jobs' = m_completed_jobs /\ called' = called
       /\ m_completed_jobs' # {} => m_job_completions_in_flight'
  BY <1>1, <1>2 DEF completionVars, DoneAreCalled
<1>18. /\ q = ToSet(m_queued_jobs') /\ D = ToSet(read_jobs) /\ Q = ToSet(m_queued_jobs)
       /\ O = ToSet(thread[t].other) /\ rec = thread[t]
  BY DEF q, Q, D, O, rec
<1>19. /\ q \cap hung' = {} /\ q \cap D = {} /\ hung' \cap D = {} /\ hung' \subseteq Jobs
       /\ All(InHand(r)) \cap (q \cup hung' \cup D) = {}
       /\ All(InHand(r)) \cup q \cup hung' \cup D =
             All(InHand(thread[t])) \cup ToSet(m_queued_jobs) \cup hung \cup D
       /\ ToSet(thread[t].other) \subseteq q \cup ToSet(r.other) /\ ToSet(m_queued_jobs) \subseteq q
  BY ONLY <1>15, <1>16, <1>18
<1>20. /\ r \in Hands /\ r.job = thread[t].job
       /\ UNCHANGED <<fenceVars, net, read_jobs, outstanding_read, called>>
       /\ m_completed_jobs \subseteq m_completed_jobs'
       /\ thread[t].acked \subseteq r.acked \cup m_completed_jobs'
  BY <1>2, <1>4, <1>11, <1>17, <1>18
<1> QED
  BY ONLY JobsInv, t \in Threads, <1>8, <1>12, <1>13, <1>15, <1>17, <1>18, <1>19, <1>20, ThreadKeeps

(* The rest of the list goes to the queue. *)
LEMMA AppendKeeps ==
    ASSUME JobsInv, NEW t \in Threads, AppendJobs(t)
    PROVE  JobsInv'
<1> DEFINE rec == thread[t]
           Q == ToSet(m_queued_jobs)
           D == ToSet(read_jobs)
           O == ToSet(rec.other)
           J == {rec.job} \ {None}
           pc == IF rec.flush = None THEN "post" ELSE "fence"
<1>1. JobTypes /\ JobsAccounted /\ DoneAreCalled
  BY DEF JobsInv
<1>2. /\ At(t, "append") /\ m_queued_jobs' = m_queued_jobs \o rec.other
      /\ UNCHANGED <<fenceVars, hung, read_jobs, outstanding_read, net, completionVars>>
      /\ Goes(t, [rec EXCEPT !.other = <<>>, !.pc = pc])
  BY DEF AppendJobs, cacheVars
<1>3. pc \in {"post", "fence"}
  OBVIOUS
<1>4. /\ rec \in Hands /\ rec.list = <<>> /\ rec.end = {} /\ rec.done = {}
      /\ rec.next \subseteq Jobs /\ rec.other \in Seq(Jobs)
  BY <1>1, <1>2 DEF JobTypes, Shape, At, Hands
<1>5. /\ m_queued_jobs \in Seq(Jobs) /\ hung \subseteq Jobs
      /\ IsInjective(m_queued_jobs) /\ IsInjective(rec.other)
      /\ Q \cap hung = {} /\ Q \cap D = {} /\ hung \cap D = {}
      /\ All(InHand(rec)) \cap (Q \cup hung \cup D) = {}
      /\ All(InHand(rec)) = J \cup rec.next \cup O
      /\ J \cap (rec.next \cup O) = {} /\ rec.next \cap O = {}
  BY <1>1, <1>4, PlacesApart, HandPlaces, EmptyList DEF JobTypes
<1> HIDE DEF rec, pc
<1>6. PICK r : r = [rec EXCEPT !.other = <<>>, !.pc = pc]
  OBVIOUS
<1>7. Goes(t, r)
  BY <1>2, <1>6
<1>8. /\ r \in Hands /\ r.other = <<>> /\ r.pc = pc /\ r.job = rec.job /\ r.end = {} /\ r.done = {}
      /\ r.list = <<>> /\ r.next = rec.next /\ r.acked = rec.acked
  <2>1. /\ r.other = <<>> /\ r.pc = pc /\ r.job = rec.job /\ r.end = rec.end /\ r.done = rec.done
        /\ r.list = rec.list /\ r.next = rec.next /\ r.acked = rec.acked
    BY <1>4, <1>6 DEF Hands
  <2>2. r \in Hands
    BY <1>3, <1>4, <1>6 DEF Hands
  <2> QED
    BY <1>4, <2>1, <2>2
<1>9. Shape(r)
  BY <1>3, <1>8 DEF Shape
<1> DEFINE q == ToSet(m_queued_jobs')
<1> HIDE DEF Q, D, O, J
<1>10. q = Q \cup O /\ m_queued_jobs' \in Seq(Jobs) /\ IsInjective(m_queued_jobs')
  <2>1. Q \cap O = {}
    BY ONLY <1>5
  <2> QED
    BY <1>2, <1>4, <1>5, <2>1, JoinedList DEF Q, O
<1>11. /\ All(InHand(r)) = J \cup rec.next /\ Apart(InHand(r)) /\ IsInjective(r.list)
       /\ IsInjective(r.other) /\ ToSet(r.other) = {}
  <2>1. ToSet(r.list) = {} /\ ToSet(r.other) = {} /\ IsInjective(r.list) /\ IsInjective(r.other)
    BY <1>8, EmptyList
  <2>2. J \cap rec.next = {}
    BY ONLY <1>5
  <2> QED
    BY <1>8, <2>1, <2>2, HandPlaces DEF J
<1> HIDE DEF q
<1>12. hung' = hung /\ m_completed_jobs' = m_completed_jobs /\ called' = called
       /\ (m_completed_jobs' # {} => m_job_completions_in_flight')
  BY <1>1, <1>2 DEF completionVars, DoneAreCalled
<1>13. /\ q \cap hung' = {} /\ q \cap D = {} /\ hung' \cap D = {} /\ hung' \subseteq Jobs
       /\ (J \cup rec.next) \cap (q \cup hung' \cup D) = {}
       /\ J \cup rec.next \cup q \cup hung' \cup D = All(InHand(rec)) \cup Q \cup hung \cup D
       /\ O \subseteq q /\ Q \subseteq q
  BY ONLY <1>5, <1>10, <1>12
<1>14. /\ q = ToSet(m_queued_jobs') /\ D = ToSet(read_jobs) /\ Q = ToSet(m_queued_jobs)
       /\ O = ToSet(thread[t].other) /\ rec = thread[t]
  BY DEF q, Q, D, O, rec
<1>15. /\ q \cap hung' = {} /\ q \cap D = {} /\ hung' \cap D = {} /\ hung' \subseteq Jobs
       /\ All(InHand(r)) \cap (q \cup hung' \cup D) = {}
       /\ All(InHand(r)) \cup q \cup hung' \cup D =
             All(InHand(thread[t])) \cup ToSet(m_queued_jobs) \cup hung \cup D
       /\ ToSet(thread[t].other) \subseteq q \cup ToSet(r.other) /\ ToSet(m_queued_jobs) \subseteq q
  BY ONLY <1>11, <1>13, <1>14
<1>16. /\ r \in Hands /\ r.job = thread[t].job
       /\ UNCHANGED <<fenceVars, net, read_jobs, outstanding_read, called>>
       /\ m_completed_jobs \subseteq m_completed_jobs'
       /\ thread[t].acked \subseteq r.acked \cup m_completed_jobs'
  BY <1>2, <1>8, <1>12, <1>14
<1> QED
  BY ONLY JobsInv, t \in Threads, <1>7, <1>9, <1>10, <1>11, <1>12, <1>14, <1>15, <1>16, ThreadKeeps

(* The completed jobs are handed over, and the hits are the next ones. *)
LEMMA PostKeeps ==
    ASSUME JobsInv, NEW t \in Threads, PostCompleted(t)
    PROVE  JobsInv'
<1> DEFINE rec == thread[t]
           Q == ToSet(m_queued_jobs)
           D == ToSet(read_jobs)
           J == {rec.job} \ {None}
<1>1. JobTypes /\ JobsAccounted
  BY DEF JobsInv
<1>2. /\ At(t, "post") /\ m_completed_jobs' = m_completed_jobs \cup rec.acked
      /\ m_job_completions_in_flight' = TRUE
      /\ UNCHANGED <<fenceVars, m_queued_jobs, hung, read_jobs, outstanding_read, net, called>>
      /\ Goes(t, Completing([rec EXCEPT !.acked = {}, !.next = {}], rec.next))
  BY DEF PostCompleted, cacheVars
<1>3. /\ rec \in Hands /\ rec.list = <<>> /\ rec.end = {} /\ rec.done = {} /\ rec.other = <<>>
      /\ rec.next \in SUBSET Jobs
  BY <1>1, <1>2 DEF JobTypes, Shape, At, Hands
<1>4. /\ m_queued_jobs \in Seq(Jobs) /\ hung \subseteq Jobs
      /\ IsInjective(m_queued_jobs)
      /\ Q \cap hung = {} /\ Q \cap D = {} /\ hung \cap D = {}
      /\ All(InHand(rec)) \cap (Q \cup hung \cup D) = {}
      /\ All(InHand(rec)) = J \cup rec.next /\ J \cap rec.next = {}
  BY <1>1, <1>3, PlacesApart, HandPlaces, EmptyList DEF JobTypes
<1>5. PICK base : base = [rec EXCEPT !.acked = {}, !.next = {}]
  OBVIOUS
<1>6. PICK r : r = Completing(base, rec.next)
  OBVIOUS
<1>7. Goes(t, r)
  BY <1>2, <1>5, <1>6
<1> HIDE DEF rec
<1>8. /\ base \in Hands /\ base.end = {} /\ base.other = <<>> /\ base.job = rec.job
      /\ base.list = <<>> /\ base.next = {} /\ base.acked = {}
  <2>1. /\ base.end = rec.end /\ base.other = rec.other /\ base.job = rec.job
        /\ base.list = rec.list /\ base.next = {} /\ base.acked = {}
    BY <1>3, <1>5 DEF Hands
  <2>2. base \in Hands
    BY <1>3, <1>5 DEF Hands
  <2> QED
    BY <1>3, <2>1, <2>2
<1>9. /\ r \in Hands /\ r.done = rec.next /\ r.job = rec.job /\ r.end = {} /\ r.list = <<>>
      /\ r.next = {} /\ r.other = <<>> /\ r.acked = {}
      /\ rec.next # {} => r.pc = "complete"
      /\ rec.next = {} /\ rec.job # None => r.pc = "perform"
      /\ rec.next = {} /\ rec.job = None => r.pc = "idle"
  BY <1>3, <1>6, <1>8, CompletingRecord
<1>10. Shape(r)
  BY <1>9 DEF Shape
<1>11. /\ All(InHand(r)) = J \cup rec.next /\ Apart(InHand(r)) /\ IsInjective(r.list)
       /\ IsInjective(r.other) /\ ToSet(r.other) = {}
  <2>1. ToSet(r.list) = {} /\ ToSet(r.other) = {} /\ IsInjective(r.list) /\ IsInjective(r.other)
    BY <1>9, EmptyList
  <2> QED
    BY <1>4, <1>9, <2>1, HandPlaces
<1>12. ToSet(thread[t].other) = {}
  BY <1>3, EmptyList DEF rec
<1>13. /\ m_queued_jobs' \in Seq(Jobs) /\ hung' \subseteq Jobs /\ IsInjective(m_queued_jobs')
       /\ Q = ToSet(m_queued_jobs') /\ hung = hung' /\ D = ToSet(read_jobs)
       /\ Q = ToSet(m_queued_jobs) /\ rec = thread[t]
  BY <1>2, <1>4 DEF rec
<1> HIDE DEF Q, D
<1>14. /\ Q \cap hung = {} /\ Q \cap D = {} /\ hung \cap D = {}
       /\ All(InHand(r)) \cap (Q \cup hung \cup D) = {}
       /\ All(InHand(r)) \cup Q \cup hung \cup D =
             All(InHand(thread[t])) \cup ToSet(m_queued_jobs) \cup hung \cup D
       /\ ToSet(thread[t].other) \subseteq Q \cup ToSet(r.other) /\ ToSet(m_queued_jobs) \subseteq Q
  BY ONLY <1>4, <1>11, <1>12, <1>13
<1>15. /\ r \in Hands /\ r.job = thread[t].job
       /\ UNCHANGED <<fenceVars, net, read_jobs, outstanding_read, called>>
       /\ m_completed_jobs \subseteq m_completed_jobs'
       /\ thread[t].acked \subseteq r.acked \cup m_completed_jobs'
       /\ m_completed_jobs' # {} => m_job_completions_in_flight'
  BY <1>2, <1>9, <1>13
<1> QED
  BY ONLY JobsInv, t \in Threads, <1>7, <1>10, <1>11, <1>13, <1>14, <1>15, ThreadKeeps

(* A step in which a thread asks the fence. *)
LEMMA ThreadAsks ==
    ASSUME JobsInv, NEW t \in Threads, NEW r \in Hands, Shape(r), Goes(t, r),
           UNCHANGED <<m_queued_jobs, cacheVars, net, completionVars>>,
           NEW gone, NEW came, gone \subseteq All(InHand(thread[t])), came \cap in_progress = {},
           in_progress' = (in_progress \ gone) \cup came,
           Apart(InHand(r)), IsInjective(r.list), IsInjective(r.other),
           All(InHand(r)) = (All(InHand(thread[t])) \ gone) \cup came,
           r.job = thread[t].job, ToSet(thread[t].other) \subseteq ToSet(r.other),
           finished' \subseteq finished \cup r.acked, thread[t].acked \subseteq r.acked
    PROVE  JobsInv'
<1>1. JobTypes /\ JobsAccounted /\ ReadsServed /\ DoneAreCalled
  BY DEF JobsInv
<1>2. /\ m_queued_jobs' = m_queued_jobs /\ hung' = hung /\ read_jobs' = read_jobs
      /\ outstanding_read' = outstanding_read /\ net' = net
      /\ called' = called /\ m_completed_jobs' = m_completed_jobs
      /\ m_job_completions_in_flight' = m_job_completions_in_flight
  BY DEF cacheVars, completionVars
<1>3. JobTypes'
  BY <1>1, <1>2, ThreadTyped DEF JobTypes
<1>4. JobsAccounted'
  <2> DEFINE s == All(Shared)
             old == All(InHand(thread[t]))
             new == All(InHand(r))
  <2>1. Shared' = Shared
    BY <1>2 DEF Shared, NetJob
  <2>2. /\ thread \in [Threads -> Hands]
        /\ Apart(Shared) /\ IsInjective(m_queued_jobs) /\ IsInjective(read_jobs)
        /\ old \cap s = {} /\ s \subseteq in_progress
    BY <1>1 DEF JobTypes, JobsAccounted
  <2>3. new = (old \ gone) \cup came /\ came \cap in_progress = {} /\ gone \subseteq old
    OBVIOUS
  <2> HIDE DEF s, old, new
  <2>4. new \cap s = {} /\ new \cup s = ((old \cup s) \ gone) \cup came
    BY ONLY <2>2, <2>3
  <2>5. /\ Apart(Shared') /\ IsInjective(m_queued_jobs') /\ IsInjective(read_jobs')
        /\ All(InHand(r)) \cap All(Shared') = {}
        /\ All(InHand(r)) \cup All(Shared') =
              ((All(InHand(thread[t])) \cup All(Shared)) \ gone) \cup came
    BY <1>2, <2>1, <2>2, <2>4 DEF s, old, new
  <2>6. /\ t \in Threads /\ Goes(t, r) /\ gone \subseteq All(InHand(thread[t]))
        /\ came \cap in_progress = {} /\ in_progress' = (in_progress \ gone) \cup came
        /\ Apart(InHand(r)) /\ IsInjective(r.list) /\ IsInjective(r.other)
    OBVIOUS
  <2> QED
    BY ONLY <1>1, <2>2, <2>5, <2>6, ThreadMoves
<1>5. ReadsServed'
  <2>1. \A x \in Reads :
           x \in ToSet(m_queued_jobs) \/ thread[t].job = x \/ x \in ToSet(thread[t].other) =>
              x \in ToSet(m_queued_jobs') \/ r.job = x \/ x \in ToSet(r.other)
    BY <1>2
  <2> QED
    BY <1>1, <1>2, <2>1, ServedStays
<1>6. DoneAreCalled'
  <2>1. m_completed_jobs' # {} => m_job_completions_in_flight'
    BY <1>1, <1>2 DEF DoneAreCalled
  <2> QED
    BY <1>1, <1>2, <2>1, CalledStays
<1> QED
  BY <1>3, <1>4, <1>5, <1>6 DEF JobsInv

(* add_completed_jobs_impl tells the fence of a job. *)
LEMMA CompleteKeeps ==
    ASSUME JobsInv, FenceInv, NEW t \in Threads, Complete(t)
    PROVE  JobsInv'
<1> DEFINE rec == thread[t]
           J == {rec.job} \ {None}
           L == ToSet(rec.list)
<1>1. JobTypes /\ JobsAccounted
  BY DEF JobsInv
<1>2. At(t, "complete") /\ UNCHANGED <<m_queued_jobs, cacheVars, net, completionVars>>
  BY DEF Complete
<1>3. PICK j \in rec.done, n \in 0 .. Len(m_blocked_jobs) :
          /\ \E empty \in BOOLEAN : JobComplete(j, empty, n)
          /\ Goes(t, [rec EXCEPT
                        !.done = rec.done \ {j}, !.acked = rec.acked \cup {j},
                        !.list = IF j \in fence THEN rec.list \o SubSeq(m_blocked_jobs, 1, n)
                                 ELSE SubSeq(m_blocked_jobs, 1, n) \o rec.list])
  BY DEF Complete
<1> DEFINE released == SubSeq(m_blocked_jobs, 1, n)
           P == {m_blocked_jobs[i] : i \in 1 .. n}
           list == IF j \in fence THEN rec.list \o released ELSE released \o rec.list
           done == rec.done \ {j}
           acked == rec.acked \cup {j}
<1>4. Goes(t, [rec EXCEPT !.done = done, !.acked = acked, !.list = list])
  BY <1>3
<1>5. in_progress' = (in_progress \ {j}) \cup P /\ finished' = finished \cup {j}
  BY <1>3 DEF JobComplete
<1>6. /\ rec \in Hands /\ rec.end = {} /\ rec.next = {} /\ rec.other = <<>> /\ rec.pc = "complete"
      /\ rec.done \subseteq Jobs /\ rec.acked \subseteq Jobs /\ rec.list \in Seq(Jobs)
  BY <1>1, <1>2 DEF JobTypes, Shape, At, Hands
<1>7. /\ IsInjective(rec.list) /\ All(InHand(rec)) \subseteq in_progress
      /\ All(InHand(rec)) = J \cup rec.done \cup L
      /\ J \cap (rec.done \cup L) = {} /\ rec.done \cap L = {}
  BY <1>1, <1>6, PlacesApart, HandPlaces, EmptyList
<1>8. /\ released \in Seq(Jobs) /\ ToSet(released) = P /\ IsInjective(released)
      /\ P \cap in_progress = {}
  <2>1. m_blocked_jobs \in Seq(Jobs) /\ IsInjective(m_blocked_jobs)
    BY DEF FenceInv, FenceTypeOK, OnePlace, IsInjective
  <2>2. P \subseteq Blocked
    BY <2>1 DEF Blocked
  <2>3. P \cap in_progress = {}
    BY <2>2 DEF FenceInv, OnePlace
  <2> QED
    BY <2>1, <2>3, FirstOfList
<1> HIDE DEF released, P, L, J
<1>9. L \cap P = {}
  BY ONLY <1>7, <1>8
<1>10. list \in Seq(Jobs) /\ ToSet(list) = L \cup P /\ IsInjective(list)
  <2>1. /\ rec.list \o released \in Seq(Jobs) /\ ToSet(rec.list \o released) = L \cup P
        /\ IsInjective(rec.list \o released)
    BY <1>6, <1>7, <1>8, <1>9, JoinedList DEF L
  <2>2. /\ released \o rec.list \in Seq(Jobs) /\ ToSet(released \o rec.list) = L \cup P
        /\ IsInjective(released \o rec.list)
    BY <1>6, <1>7, <1>8, <1>9, JoinedList DEF L
  <2> QED
    BY <2>1, <2>2
<1>11. done \in SUBSET Jobs /\ acked \in SUBSET Jobs /\ done = rec.done \ {j}
       /\ acked = rec.acked \cup {j}
  BY <1>6
<1> HIDE DEF rec, list, done, acked
<1>12. PICK r : r = [rec EXCEPT !.done = done, !.acked = acked, !.list = list]
  OBVIOUS
<1>13. /\ r.done = done /\ r.acked = acked /\ r.list = list /\ r.pc = rec.pc /\ r.job = rec.job
       /\ r.end = rec.end /\ r.next = rec.next /\ r.other = rec.other
  BY <1>6, <1>12 DEF Hands
<1>14. r \in Hands
  BY <1>6, <1>10, <1>11, <1>12 DEF Hands
<1>15. Shape(r)
  BY <1>6, <1>13 DEF Shape
<1>16. J \cap (done \cup (L \cup P)) = {} /\ done \cap (L \cup P) = {}
  BY ONLY <1>7, <1>8, <1>11
<1>17. /\ All(InHand(r)) = J \cup done \cup L \cup P /\ Apart(InHand(r))
       /\ IsInjective(r.list) /\ IsInjective(r.other)
  <2>1. /\ {r.job} \ {None} = J /\ r.end = {} /\ r.done = done /\ ToSet(r.list) = L \cup P
        /\ r.next = {} /\ ToSet(r.other) = {} /\ IsInjective(r.other)
    BY <1>6, <1>10, <1>13, EmptyList DEF J
  <2> QED
    BY <1>10, <1>13, <1>16, <2>1, HandPlaces
<1>18. {j} \subseteq All(InHand(rec)) /\ All(InHand(r)) = (All(InHand(rec)) \ {j}) \cup P
  <2>1. j \in rec.done
    OBVIOUS
  <2> QED
    BY ONLY <1>7, <1>11, <1>17, <2>1
<1>19. /\ r.job = rec.job /\ ToSet(rec.other) \subseteq ToSet(r.other)
       /\ finished' \subseteq finished \cup r.acked /\ rec.acked \subseteq r.acked
  BY <1>5, <1>11, <1>13
<1>20. rec = thread[t] /\ Goes(t, r)
  BY <1>4, <1>12 DEF rec
<1>21. /\ {j} \subseteq All(InHand(thread[t]))
       /\ All(InHand(r)) = (All(InHand(thread[t])) \ {j}) \cup P
       /\ r.job = thread[t].job /\ ToSet(thread[t].other) \subseteq ToSet(r.other)
       /\ thread[t].acked \subseteq r.acked /\ finished' \subseteq finished \cup r.acked
  BY <1>18, <1>19, <1>20
<1> DEFINE gone == {j}
<1>22. /\ gone \subseteq All(InHand(thread[t])) /\ P \cap in_progress = {}
       /\ in_progress' = (in_progress \ gone) \cup P
       /\ All(InHand(r)) = (All(InHand(thread[t])) \ gone) \cup P
       /\ Apart(InHand(r)) /\ IsInjective(r.list) /\ IsInjective(r.other) /\ Goes(t, r)
       /\ r.job = thread[t].job /\ ToSet(thread[t].other) \subseteq ToSet(r.other)
       /\ thread[t].acked \subseteq r.acked /\ finished' \subseteq finished \cup r.acked
  BY <1>5, <1>8, <1>17, <1>20, <1>21
<1> HIDE DEF gone
<1> QED
  BY ONLY JobsInv, t \in Threads, <1>2, <1>14, <1>15, <1>22, ThreadAsks

(* add_job for the flush job: it goes through, or waits. *)
LEMMA FenceFlushKeeps ==
    ASSUME JobsInv, FenceInv, HandsOK, NEW t \in Threads, FenceFlush(t)
    PROVE  JobsInv'
<1> DEFINE rec == thread[t]
           J == {rec.job} \ {None}
           f == rec.flush
           other == IF Passed(f) THEN <<f>> ELSE <<>>
           came == IF Passed(f) THEN {f} ELSE {}
<1>1. JobTypes /\ JobsAccounted
  BY DEF JobsInv
<1>2. /\ At(t, "fence") /\ UNCHANGED <<m_queued_jobs, cacheVars, net, completionVars>>
      /\ IsBlocked(f) /\ Goes(t, [rec EXCEPT !.other = other, !.flush = None, !.pc = "append"])
  BY DEF FenceFlush
<1>3. f \in Jobs
  BY <1>2 DEF HandsOK, At
<1>4. f \notin in_progress /\ finished' = finished /\ in_progress' = in_progress \cup came
  BY <1>2 DEF IsBlocked, Fresh, LetThrough, Passed
<1>5. other \in Seq(Jobs) /\ ToSet(other) = came /\ IsInjective(other) /\ came \subseteq {f}
  <2>1. CASE Passed(f)
    BY <1>3, <2>1, SingleList
  <2>2. CASE ~ Passed(f)
    BY <2>2, EmptyList
  <2> QED
    BY <2>1, <2>2
<1>6. /\ rec \in Hands /\ rec.end = {} /\ rec.done = {} /\ rec.list = <<>> /\ rec.other = <<>>
      /\ rec.next \subseteq Jobs
  BY <1>1, <1>2 DEF JobTypes, Shape, At, Hands
<1>7. /\ All(InHand(rec)) \subseteq in_progress
      /\ All(InHand(rec)) = J \cup rec.next /\ J \cap rec.next = {}
  BY <1>1, <1>6, PlacesApart, HandPlaces, EmptyList
<1> HIDE DEF rec, other, came, J
<1>8. PICK r : r = [rec EXCEPT !.other = other, !.flush = None, !.pc = "append"]
  OBVIOUS
<1>9. /\ r.other = other /\ r.pc = "append" /\ r.job = rec.job /\ r.end = rec.end
      /\ r.done = rec.done /\ r.list = rec.list /\ r.next = rec.next /\ r.acked = rec.acked
  BY <1>6, <1>8 DEF Hands
<1>10. r \in Hands
  BY <1>5, <1>6, <1>8 DEF Hands
<1>11. Shape(r)
  BY <1>6, <1>9 DEF Shape
<1>12. J \cap (rec.next \cup came) = {} /\ rec.next \cap came = {} /\ came \cap in_progress = {}
  BY ONLY <1>4, <1>5, <1>7
<1>13. /\ All(InHand(r)) = J \cup rec.next \cup came /\ Apart(InHand(r))
       /\ IsInjective(r.list) /\ IsInjective(r.other)
  <2>1. /\ {r.job} \ {None} = J /\ r.end = {} /\ r.done = {} /\ ToSet(r.list) = {}
        /\ IsInjective(r.list) /\ r.next = rec.next /\ ToSet(r.other) = came
        /\ IsInjective(r.other)
    BY <1>5, <1>6, <1>9, EmptyList DEF J
  <2> QED
    BY <1>12, <2>1, HandPlaces
<1>14. rec = thread[t] /\ Goes(t, r) /\ ToSet(rec.other) = {}
  BY <1>2, <1>6, <1>8, EmptyList DEF rec
<1> DEFINE gone == {}
<1>15. /\ gone \subseteq All(InHand(thread[t])) /\ came \cap in_progress = {}
       /\ in_progress' = (in_progress \ gone) \cup came
       /\ All(InHand(r)) = (All(InHand(thread[t])) \ gone) \cup came
       /\ r.job = thread[t].job /\ ToSet(thread[t].other) \subseteq ToSet(r.other)
       /\ thread[t].acked \subseteq r.acked /\ finished' \subseteq finished \cup r.acked
  BY <1>4, <1>7, <1>9, <1>12, <1>13, <1>14
<1> HIDE DEF gone
<1> QED
  BY ONLY JobsInv, t \in Threads, <1>2, <1>10, <1>11, <1>13, <1>14, <1>15, ThreadAsks

(* Reads that were let through and missed wait, or the first one goes. *)
LEMMA MissedReads ==
    ASSUME read_jobs \in Seq(Reads), IsInjective(read_jobs), outstanding_read \in BOOLEAN,
           NEW missed \in Seq(Reads), IsInjective(missed),
           ToSet(read_jobs) \cap ToSet(missed) = {}, ReadMissed(missed)
    PROVE  LET started == StartedReads(missed)
           IN  /\ read_jobs' \in Seq(Reads) /\ IsInjective(read_jobs')
               /\ ToSet(read_jobs') = ToSet(read_jobs) \cup (ToSet(missed) \ started)
               /\ started \subseteq ToSet(missed) /\ started \subseteq Reads
               /\ outstanding_read' \in BOOLEAN /\ (outstanding_read => outstanding_read')
               /\ outstanding_read' /\ ~ outstanding_read => started # {}
               /\ ~ outstanding_read' => read_jobs' = read_jobs
<1> DEFINE started == StartedReads(missed)
           waits == IF outstanding_read \/ missed = <<>> THEN missed ELSE Tail(missed)
<1>1. /\ read_jobs' = read_jobs \o waits
      /\ outstanding_read' = (outstanding_read \/ missed # <<>>)
  BY DEF ReadMissed
<1>2. /\ waits \in Seq(Reads) /\ IsInjective(waits) /\ ToSet(waits) = ToSet(missed) \ started
      /\ started \subseteq ToSet(missed) /\ started \subseteq Reads
      /\ ~ outstanding_read /\ missed # <<>> => started # {}
  <2>1. CASE outstanding_read \/ missed = <<>>
    <3>1. started = {} /\ waits = missed
      BY <2>1 DEF StartedReads
    <3> HIDE DEF started, waits
    <3> QED
      BY <2>1, <3>1
  <2>2. CASE ~ (outstanding_read \/ missed = <<>>)
    <3>1. started = {Head(missed)} /\ waits = Tail(missed)
      BY <2>2 DEF StartedReads
    <3>2. /\ Head(missed) \in Reads /\ Head(missed) \in ToSet(missed)
          /\ Tail(missed) \in Seq(Reads) /\ IsInjective(Tail(missed))
          /\ ToSet(Tail(missed)) = ToSet(missed) \ {Head(missed)}
      BY <2>2, TailList
    <3> HIDE DEF started, waits
    <3> QED
      BY <3>1, <3>2
  <2> QED
    BY <2>1, <2>2
<1> HIDE DEF started, waits
<1>3. /\ read_jobs \o waits \in Seq(Reads) /\ IsInjective(read_jobs \o waits)
      /\ ToSet(read_jobs \o waits) = ToSet(read_jobs) \cup ToSet(waits)
  BY <1>2, JoinedList
<1>4. ~ outstanding_read' => read_jobs' = read_jobs
  <2>1. SUFFICES ASSUME ~ outstanding_read' PROVE read_jobs \o waits = read_jobs
    BY <1>1
  <2>2. waits = <<>>
    BY <1>1, <2>1 DEF waits
  <2> QED
    BY <2>2
<1> QED
  BY <1>1, <1>2, <1>3, <1>4 DEF started

(* The list is dealt out between the cache, the reads that wait, the next  *)
(* completed jobs and the queue.                                           *)
LEMMA RedistributeKeeps ==
    ASSUME JobsInv, NEW t \in Threads, Redistribute(t)
    PROVE  JobsInv'
<1> DEFINE rec == thread[t]
           list == rec.list
           L == ToSet(list)
           J == {rec.job} \ {None}
           Q == ToSet(m_queued_jobs)
           D == ToSet(read_jobs)
           reads == {j \in L : j \in Reads}
           writes == {j \in L : j \in Writes}
<1>1. JobTypes /\ JobsAccounted /\ ReadsServed /\ DoneAreCalled
  BY DEF JobsInv
<1>2. /\ At(t, "complete") /\ rec.done = {}
      /\ UNCHANGED <<fenceVars, m_queued_jobs, net, completionVars>>
  BY DEF Redistribute
<1> DEFINE M(hits, before) == Only(list, reads \ (hits \cup (reads \cap before)))
           Rest(hits, cached, before) ==
              Only(list, (L \ (reads \cup cached)) \cup (reads \cap before)
                            \cup StartedReads(M(hits, before)))
           Dealt(hits, cached, before, j) ==
              /\ hung' = hung \cup cached /\ ReadMissed(M(hits, before))
              /\ Goes(t, [rec EXCEPT !.pc = "append", !.list = <<>>, !.next = hits,
                                     !.other = Rest(hits, cached, before), !.flush = j])
<1>3. \E hits \in SUBSET reads, cached \in SUBSET writes : \E before : \E j \in Jobs \cup {None} :
         before \cap (hits \cup cached) = {} /\ Dealt(hits, cached, before, j)
  <2> DEFINE flush(cached) == IF outstanding_flush \/ cached = {} THEN {None}
                              ELSE {FlushHashed(w) : w \in cached}
  <2>1. PICK hits \in Some(reads, "hit" \in ReadOutcomes, "miss" \in ReadOutcomes),
             cached \in Some(writes, TRUE \in CacheOutcomes, FALSE \in CacheOutcomes) :
          \E before \in Unknown(list, hits \cup cached), j \in flush(cached) :
             Dealt(hits, cached, before, j)
    BY DEF Redistribute
  <2>2. hits \in SUBSET reads /\ cached \in SUBSET writes
    BY DEF Some
  <2>3. ASSUME NEW j \in flush(cached) PROVE j \in Jobs \cup {None}
    <3>1. cached \subseteq Writes
      BY <2>2
    <3> HIDE DEF writes
    <3> QED
      BY <3>1, KnownJobs
  <2>4. ASSUME NEW before \in Unknown(list, hits \cup cached)
        PROVE  before \cap (hits \cup cached) = {}
    <3> HIDE DEF reads, writes
    <3> QED
      BY DEF Unknown
  <2> HIDE DEF Dealt
  <2>5. PICK before \in Unknown(list, hits \cup cached) : \E j \in flush(cached) :
           Dealt(hits, cached, before, j)
    BY <2>1
  <2>6. PICK j \in flush(cached) : Dealt(hits, cached, before, j)
    BY <2>5
  <2> HIDE DEF flush, reads, writes
  <2> QED
    BY <2>2, <2>3, <2>4, <2>6
<1>p. PICK hits \in SUBSET reads, cached \in SUBSET writes :
         \E before : \E j \in Jobs \cup {None} :
            before \cap (hits \cup cached) = {} /\ Dealt(hits, cached, before, j)
  <2> HIDE DEF Dealt, reads, writes
  <2> QED
    BY <1>3
<1>q. PICK before : \E j \in Jobs \cup {None} :
         before \cap (hits \cup cached) = {} /\ Dealt(hits, cached, before, j)
  BY <1>p
<1>r. PICK j \in Jobs \cup {None} :
         before \cap (hits \cup cached) = {} /\ Dealt(hits, cached, before, j)
  BY <1>q
<1> DEFINE direct == reads \cap before
           missed == Only(list, reads \ (hits \cup direct))
           started == StartedReads(missed)
           other == Only(list, (L \ (reads \cup cached)) \cup direct \cup started)
<1>4. /\ hung' = hung \cup cached /\ ReadMissed(missed) /\ direct \cap hits = {}
      /\ Goes(t, [rec EXCEPT !.pc = "append", !.list = <<>>, !.next = hits,
                             !.other = other, !.flush = j])
  BY <1>r
<1>5. /\ rec \in Hands /\ rec.end = {} /\ rec.next = {} /\ rec.other = <<>> /\ list \in Seq(Jobs)
  BY <1>1, <1>2 DEF JobTypes, Shape, At, Hands
<1>6. /\ m_queued_jobs \in Seq(Jobs) /\ hung \subseteq Jobs /\ read_jobs \in Seq(Reads)
      /\ outstanding_read \in BOOLEAN
      /\ IsInjective(m_queued_jobs) /\ IsInjective(read_jobs) /\ IsInjective(list)
      /\ Q \cap hung = {} /\ Q \cap D = {} /\ hung \cap D = {}
      /\ All(InHand(rec)) \cap (Q \cup hung \cup D) = {}
      /\ All(InHand(rec)) = J \cup L /\ J \cap L = {}
  BY <1>1, <1>2, <1>5, PlacesApart, HandPlaces, EmptyList DEF JobTypes
<1>7. /\ reads \subseteq L /\ reads \subseteq Reads /\ L \subseteq Jobs
      /\ hits \subseteq reads /\ cached \subseteq L /\ cached \cap reads = {} /\ direct \subseteq reads
  <2>1. L \subseteq Jobs
    BY <1>5 DEF ToSet
  <2>2. Reads \cap Writes = {}
    BY DiskAssumption DEF DiskAssumption
  <2> HIDE DEF L
  <2> QED
    BY <2>1, <2>2
<1>8. /\ missed \in Seq(Reads) /\ IsInjective(missed) /\ ToSet(missed) = reads \ (hits \cup direct)
  <2> DEFINE m == reads \ (hits \cup direct)
  <2>1. /\ Only(list, m) \in Seq(Jobs) /\ ToSet(Only(list, m)) = L \cap m /\ IsInjective(Only(list, m))
    BY <1>5, <1>6, OnlyList
  <2>2. missed = Only(list, m)
    OBVIOUS
  <2>3. L \cap m = m /\ m \subseteq Reads
    BY <1>7
  <2> HIDE DEF m, missed, L
  <2>4. ToSet(missed) = m /\ IsInjective(missed) /\ missed \in Seq(Jobs)
    BY <2>1, <2>2, <2>3
  <2>5. \A i \in 1 .. Len(missed) : missed[i] \in Reads
    BY <2>3, <2>4 DEF ToSet
  <2>6. missed \in Seq(Reads)
    BY <2>4, <2>5
  <2> QED
    BY <2>4, <2>6 DEF m
<1> HIDE DEF missed, reads, direct, L, J, Q, D
<1>9. D \cap ToSet(missed) = {}
  BY ONLY <1>6, <1>7, <1>8
<1>10. /\ read_jobs' \in Seq(Reads) /\ IsInjective(read_jobs')
       /\ ToSet(read_jobs') = D \cup (ToSet(missed) \ started)
       /\ started \subseteq ToSet(missed) /\ started \subseteq Reads
       /\ outstanding_read' \in BOOLEAN /\ (outstanding_read => outstanding_read')
       /\ outstanding_read' /\ ~ outstanding_read => started # {}
       /\ ~ outstanding_read' => read_jobs' = read_jobs
  BY <1>4, <1>6, <1>8, <1>9, MissedReads DEF D
<1> HIDE DEF started
<1>11. /\ other \in Seq(Jobs) /\ IsInjective(other)
       /\ ToSet(other) = (L \ (reads \cup cached)) \cup direct \cup started
  <2> DEFINE m == (L \ (reads \cup cached)) \cup direct \cup started
  <2>1. /\ Only(list, m) \in Seq(Jobs) /\ ToSet(Only(list, m)) = L \cap m /\ IsInjective(Only(list, m))
    BY <1>5, <1>6, OnlyList DEF L
  <2>2. L \cap m = m
    BY <1>7, <1>8, <1>10
  <2> QED
    BY <2>1, <2>2
<1> HIDE DEF other, rec
<1>12. PICK r : r = [rec EXCEPT !.pc = "append", !.list = <<>>, !.next = hits,
                                !.other = other, !.flush = j]
  OBVIOUS
<1>13. /\ r.pc = "append" /\ r.list = <<>> /\ r.next = hits /\ r.other = other /\ r.job = rec.job
       /\ r.end = rec.end /\ r.done = rec.done /\ r.acked = rec.acked
  BY <1>5, <1>12 DEF Hands
<1>14. r \in Hands
  <2>1. hits \in SUBSET Jobs
    BY <1>7
  <2> QED
    BY <1>5, <1>11, <1>12, <2>1 DEF Hands
<1>15. Shape(r) /\ Goes(t, r)
  BY <1>2, <1>4, <1>5, <1>12, <1>13 DEF Shape
<1>16. JobTypes'
  <2>1. hung' \subseteq Jobs
    BY <1>4, <1>6, <1>7
  <2> QED
    BY <1>1, <1>2, <1>6, <1>10, <1>14, <1>15, <2>1, ThreadTyped DEF JobTypes
<1> DEFINE O == ToSet(other)
           d == ToSet(read_jobs')
<1> HIDE DEF O, d
<1>17. O = (L \ (reads \cup cached)) \cup direct \cup started
       /\ d = D \cup ((reads \ (hits \cup direct)) \ started)
       /\ started \subseteq reads \ (hits \cup direct)
  BY <1>8, <1>10, <1>11 DEF O, d
<1>18. J \cap (hits \cup O) = {} /\ hits \cap O = {}
  BY ONLY <1>4, <1>6, <1>7, <1>17
<1>19. /\ All(InHand(r)) = J \cup hits \cup O /\ Apart(InHand(r))
       /\ IsInjective(r.list) /\ IsInjective(r.other)
  <2>1. /\ {r.job} \ {None} = J /\ r.end = {} /\ r.done = {} /\ ToSet(r.list) = {}
        /\ IsInjective(r.list) /\ r.next = hits /\ ToSet(r.other) = O /\ IsInjective(r.other)
    BY <1>2, <1>5, <1>11, <1>13, EmptyList DEF J, O, rec
  <2> QED
    BY <1>18, <2>1, HandPlaces
<1>20. /\ Q \cap hung' = {} /\ Q \cap d = {} /\ hung' \cap d = {}
       /\ (J \cup hits \cup O) \cap (Q \cup hung' \cup d) = {}
       /\ J \cup hits \cup O \cup Q \cup hung' \cup d = J \cup L \cup Q \cup hung \cup D
  <2>1. /\ Q \cap hung' = {} /\ Q \cap d = {} /\ hung' \cap d = {}
    BY ONLY <1>4, <1>6, <1>7, <1>17
  <2>2. (J \cup hits \cup O) \cap (Q \cup hung' \cup d) = {}
    BY ONLY <1>4, <1>6, <1>7, <1>17
  <2>3. J \cup hits \cup O \cup Q \cup hung' \cup d = J \cup L \cup Q \cup hung \cup D
    BY ONLY <1>4, <1>6, <1>7, <1>17
  <2> QED
    BY <2>1, <2>2, <2>3
<1>21. JobsAccounted'
  <2>1. /\ All(InHand(r)) \cap (Q \cup hung' \cup d) = {}
        /\ All(InHand(r)) \cup Q \cup hung' \cup d =
              All(InHand(thread[t])) \cup ToSet(m_queued_jobs) \cup hung \cup ToSet(read_jobs)
    BY <1>6, <1>19, <1>20 DEF rec, Q, D
  <2>2. /\ net' = net /\ in_progress' = in_progress /\ Q = ToSet(m_queued_jobs')
        /\ d = ToSet(read_jobs') /\ IsInjective(m_queued_jobs')
    BY <1>2, <1>6 DEF fenceVars, Q, d
  <2>3. /\ IsInjective(read_jobs') /\ JobTypes /\ JobsAccounted
        /\ Q \cap hung' = {} /\ Q \cap d = {} /\ hung' \cap d = {}
    BY <1>1, <1>10, <1>20
  <2> QED
    BY ONLY t \in Threads, <1>15, <1>19, <2>1, <2>2, <2>3, ThreadPasses
<1>22. ReadsServed'
  <2>1. /\ thread'[t] = r /\ \A u \in Threads \ {t} : thread'[u] = thread[u]
    BY <1>1, <1>14, <1>15, ThreadTyped
  <2>2. CASE outstanding_read
    <3>1. PICK x \in Reads :
            \/ x \in ToSet(m_queued_jobs)
            \/ net.pc = "push" /\ net.job = x
            \/ \E u \in Threads : thread[u].job = x \/ x \in ToSet(thread[u].other)
      BY <1>1, <2>2 DEF ReadsServed
    <3>2. r.job = thread[t].job /\ ToSet(thread[t].other) = {}
      BY <1>5, <1>13, EmptyList DEF rec
    <3>3. \/ x \in ToSet(m_queued_jobs')
          \/ net'.pc = "push" /\ net'.job = x
          \/ \E u \in Threads : thread'[u].job = x \/ x \in ToSet(thread'[u].other)
      BY <1>2, <2>1, <3>1, <3>2
    <3> QED
      BY <1>10, <2>2, <3>3 DEF ReadsServed
  <2>3. CASE outstanding_read' /\ ~ outstanding_read
    <3>1. PICK x \in Reads : x \in started
      BY <1>10, <2>3
    <3>2. x \in ToSet(thread'[t].other)
      BY <1>11, <1>13, <2>1, <3>1
    <3> QED
      BY <2>3, <3>2 DEF ReadsServed
  <2>4. CASE ~ outstanding_read' /\ ~ outstanding_read
    BY <1>1, <1>10, <2>4 DEF ReadsServed
  <2> QED
    BY <1>6, <1>10, <2>2, <2>3, <2>4
<1>23. DoneAreCalled'
  <2>1. /\ called' = called /\ m_completed_jobs' = m_completed_jobs /\ finished' = finished
        /\ m_job_completions_in_flight' = m_job_completions_in_flight
        /\ thread[t].acked = r.acked
    BY <1>2, <1>13 DEF fenceVars, completionVars, rec
  <2>2. m_completed_jobs' # {} => m_job_completions_in_flight'
    BY <1>1, <2>1 DEF DoneAreCalled
  <2> QED
    BY <1>1, <1>15, <2>1, <2>2, CalledStays
<1> QED
  BY <1>16, <1>21, <1>22, <1>23 DEF JobsInv

-----------------------------------------------------------------------------
(* The network thread *)

LEMMA NetTakes ==
    ASSUME NEW pc \in {"push", "push_front", "cache", "flush"}, NEW j \in Jobs, NetDoes(pc, j)
    PROVE  /\ Carried(net') /\ net'.pc = pc /\ net'.job = j
           /\ NetJob' = IF pc = "flush" THEN {} ELSE {j}
BY DEF NetDoes, Carried, NetJob

LEMMA NetEnds ==
    ASSUME NetDone
    PROVE  Carried(net') /\ net'.pc = "idle" /\ NetJob' = {}
BY DEF NetDone, NetIdle, Carried, NetJob

LEMMA NetFree ==
    ASSUME net = NetIdle
    PROVE  net.pc = "idle" /\ NetJob = {}
BY DEF NetIdle, NetJob

(* The shared places have the jobs they had, in some other way, and those  *)
(* that the fence let through.                                             *)
SharedWith(came) ==
    LET q == ToSet(m_queued_jobs')
        d == ToSet(read_jobs')
        n == NetJob'
    IN  /\ q \cap hung' = {} /\ q \cap d = {} /\ q \cap n = {}
        /\ hung' \cap d = {} /\ hung' \cap n = {} /\ d \cap n = {}
        /\ q \cup hung' \cup d \cup n =
              (ToSet(m_queued_jobs) \cup hung \cup ToSet(read_jobs) \cup NetJob) \cup came

(* A step of the network thread moves jobs between the shared places. *)
LEMMA NetPasses ==
    ASSUME JobTypes, JobsAccounted, thread' = thread, Carried(net'),
           m_queued_jobs' \in Seq(Jobs), hung' \subseteq Jobs, read_jobs' \in Seq(Reads),
           outstanding_read' \in BOOLEAN, IsInjective(m_queued_jobs'), IsInjective(read_jobs'),
           NEW came, came \cap in_progress = {}, in_progress' = in_progress \cup came,
           SharedWith(came)
    PROVE  JobTypes' /\ JobsAccounted'
<1>1. JobTypes'
  BY DEF JobTypes
<1>2. /\ Apart(Shared')
      /\ All(Shared') = (ToSet(m_queued_jobs) \cup hung \cup ToSet(read_jobs) \cup NetJob) \cup came
  BY SharedPlacesNext DEF SharedWith
<1>3. All(Shared) = ToSet(m_queued_jobs) \cup hung \cup ToSet(read_jobs) \cup NetJob
  BY SharedPlaces
<1>4. All(Shared') = All(Shared) \cup came
  BY <1>2, <1>3
<1>5. /\ thread' = thread /\ came \cap in_progress = {} /\ in_progress' = in_progress \cup came
      /\ IsInjective(m_queued_jobs') /\ IsInjective(read_jobs') /\ JobsAccounted
  OBVIOUS
<1>6. JobsAccounted'
  BY ONLY <1>2, <1>4, <1>5, NetMoves
<1> QED
  BY <1>1, <1>6

(* What it does not touch keeps its share. *)
LEMMA NetServed ==
    ASSUME ReadsServed, thread' = thread, read_jobs' = read_jobs, outstanding_read' = outstanding_read,
           \A x \in Reads :
              x \in ToSet(m_queued_jobs) \/ (net.pc = "push" /\ net.job = x) =>
                 x \in ToSet(m_queued_jobs') \/ (net'.pc = "push" /\ net'.job = x)
    PROVE  ReadsServed'
<1>1. CASE outstanding_read
  <2>1. PICK x \in Reads :
            \/ x \in ToSet(m_queued_jobs)
            \/ net.pc = "push" /\ net.job = x
            \/ \E t \in Threads : thread[t].job = x \/ x \in ToSet(thread[t].other)
    BY <1>1 DEF ReadsServed
  <2>2. \/ x \in ToSet(m_queued_jobs')
        \/ net'.pc = "push" /\ net'.job = x
        \/ \E t \in Threads : thread'[t].job = x \/ x \in ToSet(thread'[t].other)
    BY <2>1
  <2> QED
    BY <1>1, <2>2 DEF ReadsServed
<1>2. CASE ~ outstanding_read
  BY <1>2 DEF ReadsServed
<1> QED
  BY <1>1, <1>2

LEMMA NetCalled ==
    ASSUME DoneAreCalled, thread' = thread, finished' \cap Issued \subseteq finished,
           called \cup m_completed_jobs \subseteq called' \cup m_completed_jobs',
           m_completed_jobs' # {} => m_job_completions_in_flight'
    PROVE  DoneAreCalled'
BY DEF DoneAreCalled

(* The places of the shared jobs, before a step of the network thread. *)
LEMMA SharedApart ==
    ASSUME JobTypes, JobsAccounted
    PROVE  LET q == ToSet(m_queued_jobs)
               d == ToSet(read_jobs)
           IN  /\ m_queued_jobs \in Seq(Jobs) /\ hung \subseteq Jobs /\ read_jobs \in Seq(Reads)
               /\ outstanding_read \in BOOLEAN /\ Carried(net)
               /\ IsInjective(m_queued_jobs) /\ IsInjective(read_jobs)
               /\ q \cap hung = {} /\ q \cap d = {} /\ q \cap NetJob = {}
               /\ hung \cap d = {} /\ hung \cap NetJob = {} /\ d \cap NetJob = {}
               /\ q \cup hung \cup d \cup NetJob \subseteq in_progress
<1>1. /\ m_queued_jobs \in Seq(Jobs) /\ hung \subseteq Jobs /\ read_jobs \in Seq(Reads)
      /\ outstanding_read \in BOOLEAN /\ Carried(net)
  BY DEF JobTypes
<1>2. /\ IsInjective(m_queued_jobs) /\ IsInjective(read_jobs) /\ Apart(Shared)
      /\ All(Shared) \subseteq in_progress
  BY DEF JobsAccounted
<1> QED
  BY <1>1, <1>2, SharedPlaces

(* The fence lets a job through, which the network thread then has, or     *)
(* keeps it.                                                               *)
LEMMA NetAsks ==
    ASSUME JobsInv, thread' = thread, NetJob = {}, net.pc # "push",
           UNCHANGED <<m_queued_jobs, hung, read_jobs, outstanding_read>>, Carried(net'),
           NEW came, came \cap in_progress = {}, in_progress' = in_progress \cup came, NetJob' = came,
           finished' \cap Issued \subseteq finished,
           called \cup m_completed_jobs \subseteq called' \cup m_completed_jobs',
           m_completed_jobs' # {} => m_job_completions_in_flight'
    PROVE  JobsInv'
<1> DEFINE q == ToSet(m_queued_jobs)
           d == ToSet(read_jobs)
           n == NetJob'
<1>1. JobTypes /\ JobsAccounted /\ ReadsServed /\ DoneAreCalled
  BY DEF JobsInv
<1>2. /\ m_queued_jobs \in Seq(Jobs) /\ hung \subseteq Jobs /\ read_jobs \in Seq(Reads)
      /\ outstanding_read \in BOOLEAN
      /\ IsInjective(m_queued_jobs) /\ IsInjective(read_jobs)
      /\ q \cap hung = {} /\ q \cap d = {} /\ hung \cap d = {}
      /\ q \cup hung \cup d \subseteq in_progress
  BY <1>1, SharedApart
<1>3. JobTypes' /\ JobsAccounted'
  <2>1. /\ q = ToSet(m_queued_jobs') /\ hung = hung' /\ d = ToSet(read_jobs') /\ n = NetJob'
        /\ m_queued_jobs' \in Seq(Jobs) /\ hung' \subseteq Jobs /\ read_jobs' \in Seq(Reads)
        /\ outstanding_read' \in BOOLEAN /\ IsInjective(m_queued_jobs') /\ IsInjective(read_jobs')
    BY <1>2
  <2>2. /\ q \cap n = {} /\ hung \cap n = {} /\ d \cap n = {}
        /\ q \cup hung \cup d \cup n = (q \cup hung \cup d \cup NetJob) \cup came
    BY <1>2
  <2>3. /\ thread' = thread /\ Carried(net') /\ came \cap in_progress = {}
        /\ in_progress' = in_progress \cup came
        /\ q = ToSet(m_queued_jobs) /\ d = ToSet(read_jobs)
    OBVIOUS
  <2> HIDE DEF q, d, n
  <2>4. q \cup hung \cup d \cup n =
           (ToSet(m_queued_jobs) \cup hung \cup ToSet(read_jobs) \cup NetJob) \cup came
    BY <2>2, <2>3
  <2>5. q \cap hung = {} /\ q \cap d = {} /\ hung \cap d = {}
    BY <1>2
  <2>6. SharedWith(came)
    BY ONLY <2>1, <2>2, <2>4, <2>5 DEF SharedWith
  <2> QED
    BY ONLY <1>1, <2>1, <2>3, <2>6, NetPasses
<1>4. ReadsServed'
  BY <1>1, NetServed
<1>5. DoneAreCalled'
  BY <1>1, NetCalled
<1> QED
  BY <1>3, <1>4, <1>5 DEF JobsInv

(* What is_blocked does: the job goes through, or waits. *)
LEMMA AskedFor ==
    ASSUME NEW j, IsBlocked(j), NEW came, came = (IF Passed(j) THEN {j} ELSE {})
    PROVE  /\ came \cap in_progress = {} /\ in_progress' = in_progress \cup came
           /\ finished' = finished /\ j \notin in_progress
BY DEF IsBlocked, Fresh, LetThrough, Passed

LEMMA HashKeeps ==
    ASSUME JobsInv, NEW j, AsyncHash(j)
    PROVE  JobsInv'
<1>1. /\ net = NetIdle /\ j \in Jobs /\ thread' = thread /\ m_completed_jobs' = m_completed_jobs
      /\ UNCHANGED <<m_queued_jobs, hung, read_jobs, outstanding_read, m_job_completions_in_flight>>
  BY KnownJobs DEF AsyncHash, cacheVars
<1>2. net.pc = "idle" /\ NetJob = {}
  BY <1>1, NetFree
<1>3. m_completed_jobs' # {} => m_job_completions_in_flight'
  BY <1>1 DEF JobsInv, DoneAreCalled
<1>4. CASE called' = called \cup {j} /\ UNCHANGED <<fenceVars, net>>
  <2> DEFINE came == {}
  <2>1. /\ came \cap in_progress = {} /\ in_progress' = in_progress \cup came /\ NetJob' = came
        /\ finished' = finished
    BY <1>2, <1>4 DEF fenceVars, NetJob
  <2>2. Carried(net')
    BY <1>4 DEF JobsInv, JobTypes
  <2> HIDE DEF came
  <2> QED
    BY <1>1, <1>2, <1>3, <1>4, <2>1, <2>2, NetAsks
<1>5. CASE /\ IsBlocked(j) /\ called' = called
           /\ IF Passed(j) THEN NetDoes("push", j) ELSE NetDone
  <2> DEFINE came == IF Passed(j) THEN {j} ELSE {}
  <2>1. /\ came \cap in_progress = {} /\ in_progress' = in_progress \cup came /\ finished' = finished
    BY <1>5, AskedFor
  <2>2. Carried(net') /\ NetJob' = came
    BY <1>1, <1>5, NetTakes, NetEnds
  <2> HIDE DEF came
  <2> QED
    BY <1>1, <1>2, <1>3, <1>5, <2>1, <2>2, NetAsks
<1> QED
  BY <1>4, <1>5 DEF AsyncHash

LEMMA WriteKeeps ==
    ASSUME JobsInv, NEW j, AsyncWrite(j)
    PROVE  JobsInv'
<1> DEFINE came == IF Passed(j) THEN {j} ELSE {}
<1>1. /\ net = NetIdle /\ j \in Jobs /\ thread' = thread
      /\ UNCHANGED <<m_queued_jobs, hung, read_jobs, outstanding_read, completionVars>>
      /\ IsBlocked(j) /\ IF Passed(j) THEN NetDoes("cache", j) ELSE NetDone
  BY KnownJobs DEF AsyncWrite, cacheVars
<1>2. net.pc = "idle" /\ NetJob = {}
  BY <1>1, NetFree
<1>3. /\ m_completed_jobs' # {} => m_job_completions_in_flight'
      /\ called' = called /\ m_completed_jobs' = m_completed_jobs
  BY <1>1 DEF JobsInv, DoneAreCalled, completionVars
<1>4. /\ came \cap in_progress = {} /\ in_progress' = in_progress \cup came /\ finished' = finished
  BY <1>1, AskedFor
<1>5. Carried(net') /\ NetJob' = came
  BY <1>1, NetTakes, NetEnds
<1> HIDE DEF came
<1> QED
  BY <1>1, <1>2, <1>3, <1>4, <1>5, NetAsks

LEMMA NetFlushKeeps ==
    ASSUME JobsInv, NetFlush
    PROVE  JobsInv'
<1> DEFINE j == net.job
           came == IF Passed(j) THEN {j} ELSE {}
<1>1. /\ net.pc = "flush" /\ thread' = thread
      /\ UNCHANGED <<m_queued_jobs, hung, read_jobs, outstanding_read, completionVars>>
      /\ IsBlocked(j) /\ IF Passed(j) THEN NetDoes("push", j) ELSE NetDone
  BY DEF NetFlush, cacheVars
<1>2. NetJob = {} /\ j \in Jobs
  BY <1>1 DEF NetJob, JobsInv, JobTypes, Carried
<1>3. /\ m_completed_jobs' # {} => m_job_completions_in_flight'
      /\ called' = called /\ m_completed_jobs' = m_completed_jobs
  BY <1>1 DEF JobsInv, DoneAreCalled, completionVars
<1>4. /\ came \cap in_progress = {} /\ in_progress' = in_progress \cup came /\ finished' = finished
  BY <1>1, AskedFor
<1>5. Carried(net') /\ NetJob' = came
  BY <1>1, <1>2, NetTakes, NetEnds
<1> HIDE DEF came
<1> QED
  BY <1>1, <1>2, <1>3, <1>4, <1>5, NetAsks

(* add_fence_job: the fence job goes through, or its flush job, or neither. *)
LEMMA AddFenceKeeps ==
    ASSUME JobsInv, FenceInv, NEW j, AddFenceJob(j)
    PROVE  JobsInv'
<1> DEFINE fj == FlushStorage(j)
<1>1. /\ net = NetIdle /\ j \in Fences /\ thread' = thread
      /\ UNCHANGED <<m_queued_jobs, hung, read_jobs, outstanding_read, completionVars>>
      /\ RaiseFence(j, fj)
      /\ IF Passed(j) THEN NetDoes("push", j)
         ELSE IF Passed(fj) THEN NetDoes("push_front", fj) ELSE NetDone
  BY DEF AddFenceJob, cacheVars
<1>2. net.pc = "idle" /\ NetJob = {}
  BY <1>1, NetFree
<1>3. /\ m_completed_jobs' # {} => m_job_completions_in_flight'
      /\ called' = called /\ m_completed_jobs' = m_completed_jobs
  BY <1>1 DEF JobsInv, DoneAreCalled, completionVars
<1>4. j \in Jobs /\ fj \in Jobs /\ fj \notin Issued
  BY <1>1, KnownJobs, KindsApart DEF IsFlushStorage
<1> HIDE DEF fj
<1>5. j # fj /\ j \notin in_progress /\ fj \notin in_progress
  BY <1>1, <1>4, FenceRaised
<1>6. finished' \cap Issued \subseteq finished
  <2>1. finished' = finished \/ finished' = finished \cup {fj}
    BY <1>1 DEF RaiseFence, PostFence, PostFlush, PostNone
  <2> QED
    BY <1>4, <2>1
<1>7. \/ in_progress' = in_progress \cup {j}
      \/ in_progress' = in_progress \cup {fj}
      \/ in_progress' = in_progress
  BY <1>1 DEF RaiseFence, PostFence, PostFlush, PostNone, LetThrough
<1>8. PICK came : /\ came \cap in_progress = {} /\ in_progress' = in_progress \cup came
                  /\ Carried(net') /\ NetJob' = came
  <2>1. CASE in_progress' = in_progress \cup {j}
    <3>1. NetDoes("push", j)
      BY <1>1, <2>1 DEF Passed
    <3>2. Carried(net') /\ NetJob' = {j}
      BY <1>4, <3>1, NetTakes
    <3> QED
      BY <1>5, <2>1, <3>2
  <2>2. CASE in_progress' = in_progress \cup {fj}
    <3>1. NetDoes("push_front", fj)
      BY <1>1, <1>5, <2>2 DEF Passed
    <3>2. Carried(net') /\ NetJob' = {fj}
      BY <1>4, <3>1, NetTakes
    <3> QED
      BY <1>5, <2>2, <3>2
  <2>3. CASE in_progress' = in_progress
    <3>1. NetDone
      BY <1>1, <1>5, <2>3 DEF Passed
    <3>2. Carried(net') /\ NetJob' = {}
      BY <3>1, NetEnds
    <3> QED
      BY <2>3, <3>2
  <2> QED
    BY <1>7, <2>1, <2>2, <2>3
<1> QED
  BY <1>1, <1>2, <1>3, <1>6, <1>8, NetAsks

LEMMA CallKeeps ==
    ASSUME JobsInv, CallJobHandlers
    PROVE  JobsInv'
<1> DEFINE came == {}
<1>1. /\ net = NetIdle /\ UNCHANGED <<fenceVars, m_queued_jobs, cacheVars, net, thread>>
      /\ called' = called \cup m_completed_jobs /\ m_completed_jobs' = {}
  BY DEF CallJobHandlers
<1>2. net.pc = "idle" /\ NetJob = {}
  BY <1>1, NetFree
<1>3. /\ came \cap in_progress = {} /\ in_progress' = in_progress \cup came /\ NetJob' = came
      /\ finished' = finished /\ Carried(net')
      /\ UNCHANGED <<m_queued_jobs, hung, read_jobs, outstanding_read, thread>>
  BY <1>1, <1>2 DEF fenceVars, cacheVars, NetJob, JobsInv, JobTypes
<1> HIDE DEF came
<1> QED
  BY <1>1, <1>2, <1>3, NetAsks

(* The job that the network thread has goes into the cache, or it is to be *)
(* put on the queue.                                                       *)
LEMMA CacheKeeps ==
    ASSUME JobsInv, NetCacheWrite, HandsOK
    PROVE  JobsInv'
<1> DEFINE w == net.job
           q == ToSet(m_queued_jobs)
           d == ToSet(read_jobs)
           n == NetJob'
           none == {}
<1>1. JobTypes /\ JobsAccounted /\ ReadsServed /\ DoneAreCalled
  BY DEF JobsInv
<1>2. /\ net.pc = "cache" /\ thread' = thread /\ in_progress' = in_progress /\ finished' = finished
      /\ UNCHANGED <<m_queued_jobs, read_jobs, outstanding_read, completionVars>>
  BY DEF NetCacheWrite, fenceVars
<1>3. w \in Writes /\ w \in Jobs /\ NetJob = {w} /\ FlushHashed(w) \in Jobs
  BY <1>2, KnownJobs DEF HandsOK, NetJob
<1>4. PICK cached \in CacheOutcomes :
          /\ hung' = IF cached THEN hung \cup {w} ELSE hung
          /\ IF ~ cached THEN NetDoes("push", w)
             ELSE IF outstanding_flush THEN NetDone ELSE NetDoes("flush", FlushHashed(w))
  BY DEF NetCacheWrite
<1>5. /\ Carried(net')
      /\ \/ hung' = hung \cup {w} /\ n = {}
         \/ hung' = hung /\ n = {w}
  <2>1. CASE ~ cached
    <3>1. Carried(net') /\ NetJob' = {w}
      BY <1>3, <1>4, <2>1, NetTakes
    <3> QED
      BY <1>4, <2>1, <3>1
  <2>2. CASE cached /\ outstanding_flush
    BY <1>4, <2>2, NetEnds
  <2>3. CASE cached /\ ~ outstanding_flush
    <3>1. NetDoes("flush", FlushHashed(w))
      BY <1>4, <2>3
    <3>2. Carried(net') /\ NetJob' = {}
      BY <1>3, <3>1, NetTakes
    <3> QED
      BY <1>4, <2>3, <3>2
  <2> QED
    BY <2>1, <2>2, <2>3
<1>6. /\ m_queued_jobs \in Seq(Jobs) /\ hung \subseteq Jobs /\ read_jobs \in Seq(Reads)
      /\ outstanding_read \in BOOLEAN
      /\ IsInjective(m_queued_jobs) /\ IsInjective(read_jobs)
      /\ q \cap hung = {} /\ q \cap d = {} /\ hung \cap d = {}
      /\ w \notin q /\ w \notin hung /\ w \notin d
  BY <1>1, <1>3, SharedApart
<1>7. JobTypes' /\ JobsAccounted'
  <2>1. /\ q = ToSet(m_queued_jobs') /\ d = ToSet(read_jobs') /\ n = NetJob'
        /\ m_queued_jobs' \in Seq(Jobs) /\ read_jobs' \in Seq(Reads)
        /\ outstanding_read' \in BOOLEAN /\ IsInjective(m_queued_jobs') /\ IsInjective(read_jobs')
        /\ thread' = thread
        /\ none \cap in_progress = {} /\ in_progress' = in_progress \cup none
        /\ q = ToSet(m_queued_jobs) /\ d = ToSet(read_jobs) /\ none = {}
    BY <1>2, <1>6
  <2> HIDE DEF q, d, n, none, w
  <2>2. hung' \subseteq Jobs
    BY <1>3, <1>5, <1>6
  <2>3. /\ q \cap hung' = {} /\ q \cap n = {} /\ hung' \cap d = {} /\ hung' \cap n = {} /\ d \cap n = {}
        /\ q \cap d = {}
        /\ q \cup hung' \cup d \cup n = (q \cup hung \cup d \cup {w}) \cup none
    BY ONLY <1>5, <1>6, <2>1
  <2>4. q \cup hung' \cup d \cup n =
           (ToSet(m_queued_jobs) \cup hung \cup ToSet(read_jobs) \cup NetJob) \cup none
    BY <1>3, <2>1, <2>3
  <2>5. SharedWith(none)
    BY ONLY <2>1, <2>3, <2>4 DEF SharedWith
  <2> QED
    BY ONLY <1>1, <1>5, <2>1, <2>2, <2>5, NetPasses
<1>8. ReadsServed'
  BY <1>1, <1>2, NetServed
<1>9. DoneAreCalled'
  <2>1. /\ called' = called /\ m_completed_jobs' = m_completed_jobs
        /\ m_completed_jobs' # {} => m_job_completions_in_flight'
    BY <1>1, <1>2 DEF completionVars, DoneAreCalled
  <2> QED
    BY <1>1, <1>2, <2>1, NetCalled
<1> QED
  BY <1>7, <1>8, <1>9 DEF JobsInv

(* The job goes on the queue, at its end or at its head. *)
LEMMA PushKeeps ==
    ASSUME JobsInv, NetPush
    PROVE  JobsInv'
<1> DEFINE w == net.job
           q0 == ToSet(m_queued_jobs)
           q == ToSet(m_queued_jobs')
           d == ToSet(read_jobs)
           n == NetJob'
           none == {}
<1>1. JobTypes /\ JobsAccounted /\ ReadsServed /\ DoneAreCalled
  BY DEF JobsInv
<1>2. /\ net.pc \in {"push", "push_front"} /\ thread' = thread /\ in_progress' = in_progress
      /\ finished' = finished /\ NetDone
      /\ UNCHANGED <<hung, read_jobs, outstanding_read, completionVars>>
      /\ m_queued_jobs' = IF net.pc = "push" THEN Append(m_queued_jobs, w) ELSE <<w>> \o m_queued_jobs
  BY DEF NetPush, fenceVars, cacheVars
<1>3. w \in Jobs /\ NetJob = {w}
  BY <1>1, <1>2 DEF JobTypes, Carried, NetJob
<1>4. Carried(net') /\ n = {}
  BY <1>2, NetEnds
<1>5. /\ m_queued_jobs \in Seq(Jobs) /\ hung \subseteq Jobs /\ read_jobs \in Seq(Reads)
      /\ outstanding_read \in BOOLEAN
      /\ IsInjective(m_queued_jobs) /\ IsInjective(read_jobs)
      /\ q0 \cap hung = {} /\ q0 \cap d = {} /\ hung \cap d = {}
      /\ w \notin q0 /\ w \notin hung /\ w \notin d
  BY <1>1, <1>3, SharedApart
<1>6. m_queued_jobs' \in Seq(Jobs) /\ q = q0 \cup {w} /\ IsInjective(m_queued_jobs')
  <2>1. CASE net.pc = "push"
    BY <1>2, <1>3, <1>5, <2>1, AppendedList
  <2>2. CASE net.pc # "push"
    <3> DEFINE front == <<w>>
    <3>1. front \in Seq(Jobs) /\ ToSet(front) = {w} /\ IsInjective(front)
      BY <1>3, SingleList
    <3>2. m_queued_jobs' = front \o m_queued_jobs
      BY <1>2, <2>2
    <3> HIDE DEF front
    <3>3. ToSet(front) \cap ToSet(m_queued_jobs) = {}
      BY <1>5, <3>1
    <3>4. /\ front \o m_queued_jobs \in Seq(Jobs)
          /\ ToSet(front \o m_queued_jobs) = ToSet(front) \cup ToSet(m_queued_jobs)
          /\ IsInjective(front \o m_queued_jobs)
      BY <1>5, <3>1, <3>3, JoinedList
    <3> QED
      BY <3>1, <3>2, <3>4
  <2> QED
    BY <2>1, <2>2
<1>7. JobTypes' /\ JobsAccounted'
  <2>1. /\ q = ToSet(m_queued_jobs') /\ d = ToSet(read_jobs') /\ n = NetJob' /\ hung = hung'
        /\ read_jobs' \in Seq(Reads) /\ hung' \subseteq Jobs
        /\ outstanding_read' \in BOOLEAN /\ IsInjective(read_jobs') /\ thread' = thread
        /\ none \cap in_progress = {} /\ in_progress' = in_progress \cup none
        /\ q0 = ToSet(m_queued_jobs) /\ d = ToSet(read_jobs) /\ none = {}
    BY <1>2, <1>5
  <2> HIDE DEF q, q0, d, n, none, w
  <2>3. /\ q \cap hung = {} /\ q \cap n = {} /\ hung \cap d = {} /\ hung \cap n = {} /\ d \cap n = {}
        /\ q \cap d = {}
        /\ q \cup hung \cup d \cup n = (q0 \cup hung \cup d \cup {w}) \cup none
    BY ONLY <1>4, <1>5, <1>6, <2>1
  <2>4. q \cup hung \cup d \cup n =
           (ToSet(m_queued_jobs) \cup hung \cup ToSet(read_jobs) \cup NetJob) \cup none
    BY <1>3, <2>1, <2>3
  <2>5. SharedWith(none)
    BY ONLY <2>1, <2>3, <2>4 DEF SharedWith
  <2> QED
    BY ONLY <1>1, <1>4, <1>6, <2>1, <2>5, NetPasses
<1>8. ReadsServed'
  <2>1. \A x \in Reads :
           x \in ToSet(m_queued_jobs) \/ (net.pc = "push" /\ net.job = x) =>
              x \in ToSet(m_queued_jobs') \/ (net'.pc = "push" /\ net'.job = x)
    BY <1>6
  <2> QED
    BY <1>1, <1>2, <2>1, NetServed
<1>9. DoneAreCalled'
  <2>1. /\ called' = called /\ m_completed_jobs' = m_completed_jobs
        /\ m_completed_jobs' # {} => m_job_completions_in_flight'
    BY <1>1, <1>2 DEF completionVars, DoneAreCalled
  <2> QED
    BY <1>1, <1>2, <2>1, NetCalled
<1> QED
  BY <1>7, <1>8, <1>9 DEF JobsInv

(* A read that is let through and for whose piece there is no memory is    *)
(* answered and forgotten by all but the fence: nothing below holds of a   *)
(* storage where this happens (disk_io_thread.cpp:1701).                   *)
ReadsHaveMemory == "nomem" \notin ReadOutcomes

LEMMA AsyncReadKeeps ==
    ASSUME JobsInv, ReadsHaveMemory, NEW j, AsyncRead(j)
    PROVE  JobsInv'
<1> DEFINE q == ToSet(m_queued_jobs)
           d0 == ToSet(read_jobs)
           d == ToSet(read_jobs')
           n == NetJob'
           came == IF Passed(j) THEN {j} ELSE {}
<1>1. JobTypes /\ JobsAccounted /\ ReadsServed /\ DoneAreCalled
  BY DEF JobsInv
<1>2. /\ net = NetIdle /\ j \in Reads /\ j \in Jobs /\ thread' = thread
      /\ UNCHANGED <<m_queued_jobs, hung, m_completed_jobs, m_job_completions_in_flight>>
  BY KnownJobs DEF AsyncRead
<1>3. PICK out \in ReadOutcomes :
          /\ IF out = "hit" THEN Fresh(j) /\ UNCHANGED fenceVars ELSE IsBlocked(j)
          /\ called' = IF out = "hit" \/ (Passed(j) /\ out = "nomem") THEN called \cup {j} ELSE called
          /\ ReadMissed(IF Passed(j) /\ out = "miss" THEN <<j>> ELSE <<>>)
          /\ IF Passed(j) /\ (out = "direct" \/ (out = "miss" /\ ~ outstanding_read))
             THEN NetDoes("push", j) ELSE NetDone
  BY DEF AsyncRead
<1>4. out = "hit" \/ out = "miss" \/ out = "direct"
  BY DiskAssumption DEF DiskAssumption, ReadsHaveMemory
<1>5. /\ came \cap in_progress = {} /\ in_progress' = in_progress \cup came /\ finished' = finished
      /\ j \notin in_progress /\ (out = "hit" => ~ Passed(j))
  <2>1. CASE out = "hit"
    BY <1>3, <2>1 DEF Fresh, fenceVars, Passed
  <2>2. CASE out # "hit"
    BY <1>3, <2>2, AskedFor
  <2> QED
    BY <2>1, <2>2
<1>6. net.pc = "idle" /\ NetJob = {}
  BY <1>2, NetFree
<1>7. /\ m_queued_jobs \in Seq(Jobs) /\ hung \subseteq Jobs /\ read_jobs \in Seq(Reads)
      /\ outstanding_read \in BOOLEAN
      /\ IsInjective(m_queued_jobs) /\ IsInjective(read_jobs)
      /\ q \cap hung = {} /\ q \cap d0 = {} /\ hung \cap d0 = {}
      /\ q \cup hung \cup d0 \subseteq in_progress
  BY <1>1, SharedApart
<1> DEFINE missed == IF Passed(j) /\ out = "miss" THEN <<j>> ELSE <<>>
           started == StartedReads(missed)
<1>8. /\ missed \in Seq(Reads) /\ IsInjective(missed) /\ ToSet(missed) \subseteq {j}
      /\ Passed(j) /\ out = "miss" => ToSet(missed) = {j} /\ missed # <<>>
      /\ ~ (Passed(j) /\ out = "miss") => ToSet(missed) = {} /\ missed = <<>>
  <2>1. CASE Passed(j) /\ out = "miss"
    BY <1>2, <2>1, SingleList
  <2>2. CASE ~ (Passed(j) /\ out = "miss")
    BY <2>2, EmptyList
  <2> QED
    BY <2>1, <2>2
<1>m. ReadMissed(missed)
  BY <1>3
<1> HIDE DEF missed
<1>9. /\ read_jobs' \in Seq(Reads) /\ IsInjective(read_jobs')
      /\ d = d0 \cup (ToSet(missed) \ started)
      /\ started \subseteq ToSet(missed) /\ started \subseteq Reads
      /\ outstanding_read' \in BOOLEAN /\ (outstanding_read => outstanding_read')
      /\ outstanding_read' /\ ~ outstanding_read => started # {}
      /\ ~ outstanding_read' => read_jobs' = read_jobs
  <2>1. ToSet(read_jobs) \cap ToSet(missed) = {}
    BY <1>5, <1>7, <1>8
  <2> QED
    BY <1>7, <1>8, <1>m, <2>1, MissedReads
<1>10. started = IF outstanding_read THEN {} ELSE ToSet(missed)
  <2>1. CASE outstanding_read \/ missed = <<>>
    BY <1>8, <2>1, EmptyList DEF StartedReads
  <2>2. CASE ~ outstanding_read /\ missed # <<>>
    <3>1. missed = <<j>> /\ Head(<<j>>) = j
      BY <2>2 DEF missed
    <3> QED
      BY <1>8, <2>2, <3>1 DEF StartedReads
  <2> QED
    BY <2>1, <2>2
<1>11. /\ Carried(net') /\ n \cup (ToSet(missed) \ started) = came /\ n \cap (ToSet(missed) \ started) = {}
       /\ started # {} => net'.pc = "push" /\ net'.job = j /\ started = {j}
  <2>1. CASE Passed(j) /\ (out = "direct" \/ (out = "miss" /\ ~ outstanding_read))
    <3>1. NetDoes("push", j)
      BY <1>3, <2>1
    <3>2. Carried(net') /\ n = {j} /\ net'.pc = "push" /\ net'.job = j
      BY <1>2, <3>1, NetTakes
    <3>3. ToSet(missed) \ started = {} /\ started \subseteq {j}
      BY <1>8, <1>10, <2>1
    <3> QED
      BY <2>1, <3>2, <3>3
  <2>2. CASE ~ (Passed(j) /\ (out = "direct" \/ (out = "miss" /\ ~ outstanding_read)))
    <3>1. NetDone
      BY <1>3, <2>2
    <3>2. Carried(net') /\ n = {}
      BY <3>1, NetEnds
    <3>3. started = {} /\ ToSet(missed) = came
      BY <1>4, <1>5, <1>8, <1>10, <2>2
    <3> QED
      BY <3>2, <3>3
  <2> QED
    BY <2>1, <2>2
<1>12. JobTypes' /\ JobsAccounted'
  <2>1. /\ q = ToSet(m_queued_jobs') /\ d = ToSet(read_jobs') /\ n = NetJob' /\ hung = hung'
        /\ m_queued_jobs' \in Seq(Jobs) /\ hung' \subseteq Jobs /\ IsInjective(m_queued_jobs')
        /\ thread' = thread /\ q = ToSet(m_queued_jobs) /\ d0 = ToSet(read_jobs)
    BY <1>2, <1>7
  <2>2. /\ read_jobs' \in Seq(Reads) /\ IsInjective(read_jobs') /\ outstanding_read' \in BOOLEAN
        /\ Carried(net') /\ came \cap in_progress = {} /\ in_progress' = in_progress \cup came
    BY <1>5, <1>9, <1>11
  <2> HIDE DEF q, d, d0, n, came, started
  <2>3. /\ q \cap hung = {} /\ q \cap n = {} /\ hung \cap d = {} /\ hung \cap n = {} /\ d \cap n = {}
        /\ q \cap d = {}
        /\ q \cup hung \cup d \cup n = (q \cup hung \cup d0) \cup came
    BY ONLY <1>5, <1>7, <1>9, <1>11
  <2>4. q \cup hung \cup d \cup n =
           (ToSet(m_queued_jobs) \cup hung \cup ToSet(read_jobs) \cup NetJob) \cup came
    BY <1>6, <2>1, <2>3
  <2>5. SharedWith(came)
    BY ONLY <2>1, <2>3, <2>4 DEF SharedWith
  <2> QED
    BY ONLY <1>1, <2>1, <2>2, <2>5, NetPasses
<1>13. ReadsServed'
  <2>1. CASE outstanding_read
    <3>1. PICK x \in Reads :
            \/ x \in ToSet(m_queued_jobs)
            \/ \E t \in Threads : thread[t].job = x \/ x \in ToSet(thread[t].other)
      BY <1>1, <1>6, <2>1 DEF ReadsServed
    <3>2. \/ x \in ToSet(m_queued_jobs')
          \/ \E t \in Threads : thread'[t].job = x \/ x \in ToSet(thread'[t].other)
      BY <1>2, <3>1
    <3> QED
      BY <1>9, <2>1, <3>2 DEF ReadsServed
  <2>2. CASE outstanding_read' /\ ~ outstanding_read
    <3>1. net'.pc = "push" /\ net'.job = j
      BY <1>9, <1>11, <2>2
    <3> QED
      BY <1>2, <2>2, <3>1 DEF ReadsServed
  <2>3. CASE ~ outstanding_read' /\ ~ outstanding_read
    BY <1>1, <1>9, <2>3 DEF ReadsServed
  <2> QED
    BY <1>7, <1>9, <2>1, <2>2, <2>3
<1>14. DoneAreCalled'
  <2>1. called \subseteq called'
    BY <1>3
  <2>2. m_completed_jobs' # {} => m_job_completions_in_flight'
    BY <1>1, <1>2 DEF DoneAreCalled
  <2> QED
    BY <1>1, <1>2, <1>5, <2>1, <2>2, NetCalled
<1> QED
  BY <1>12, <1>13, <1>14 DEF JobsInv

-----------------------------------------------------------------------------
(* Every step keeps the invariant. *)

LEMMA JobsInvInit == Init => JobsInv
<1> SUFFICES ASSUME Init PROVE JobsInv
  OBVIOUS
<1>1. /\ in_progress = {} /\ finished = {} /\ m_queued_jobs = <<>> /\ hung = {} /\ read_jobs = <<>>
      /\ outstanding_read = FALSE /\ net = NetIdle /\ thread = [t \in Threads |-> ThreadIdle]
      /\ m_completed_jobs = {} /\ called = {}
  BY DEF Init, FenceInit
<1>2. net.pc = "idle" /\ NetJob = {} /\ Carried(net)
  BY <1>1, NetFree DEF NetIdle, Carried
<1>3. \A t \in Threads : thread[t] = ThreadIdle
  BY <1>1
<1>4. Shape(ThreadIdle) /\ ThreadIdle \in Hands
  BY IdleIsHand DEF Shape
<1>5. JobTypes
  <2>1. m_queued_jobs \in Seq(Jobs) /\ hung \subseteq Jobs /\ read_jobs \in Seq(Reads)
    BY <1>1
  <2>2. thread \in [Threads -> Hands] /\ \A t \in Threads : Shape(thread[t])
    <3> HIDE DEF Hands, Shape
    <3> QED
      BY <1>1, <1>3, <1>4
  <2>3. outstanding_read \in BOOLEAN
    BY <1>1
  <2> QED
    BY <1>2, <2>1, <2>2, <2>3 DEF JobTypes
<1>6. All(InHand(ThreadIdle)) = {} /\ Apart(InHand(ThreadIdle))
  BY IdleIsHand, HandPlaces, EmptyList
<1>7. All(Shared) = {} /\ Apart(Shared)
  BY <1>1, <1>2, SharedPlaces, EmptyList
<1>8. JobsAccounted
  BY <1>1, <1>3, <1>6, <1>7, EmptyList, IdleIsHand DEF JobsAccounted
<1>9. ReadsServed /\ DoneAreCalled
  BY <1>1 DEF ReadsServed, DoneAreCalled
<1> QED
  BY <1>5, <1>8, <1>9 DEF JobsInv

LEMMA JobsInvNext ==
    ASSUME ReadsHaveMemory, JobsInv, FenceInv, HandsOK, [Next]_vars
    PROVE  JobsInv'
<1>1. CASE UNCHANGED vars
  <2>1. /\ UNCHANGED <<in_progress, finished, m_queued_jobs, hung, read_jobs, outstanding_read>>
        /\ UNCHANGED <<net, thread, m_completed_jobs, m_job_completions_in_flight, called>>
    BY <1>1 DEF vars, fenceVars, cacheVars, completionVars
  <2>2. JobTypes'
    BY <2>1 DEF JobsInv, JobTypes
  <2>3. JobsAccounted'
    <3>1. Shared' = Shared
      BY <2>1 DEF Shared, NetJob
    <3> QED
      BY <2>1, <3>1 DEF JobsInv, JobsAccounted
  <2>4. ReadsServed' /\ DoneAreCalled'
    BY <2>1 DEF JobsInv, ReadsServed, DoneAreCalled
  <2> QED
    BY <2>2, <2>3, <2>4 DEF JobsInv
<1>2. CASE Issue
  BY <1>2, HashKeeps, AsyncReadKeeps, WriteKeeps, AddFenceKeeps DEF Issue
<1>3. CASE NetStep
  BY <1>3, CacheKeeps, NetFlushKeeps, PushKeeps, CallKeeps DEF NetStep
<1>4. CASE \E t \in Threads : ThreadStep(t)
  BY <1>4, PopKeeps, PerformKeeps, FlushedKeeps, CompleteKeeps, RedistributeKeeps, AppendKeeps,
     FenceFlushKeeps, PostKeeps DEF ThreadStep
<1> QED
  BY <1>1, <1>2, <1>3, <1>4 DEF Next

LEMMA JobsInvariant == ReadsHaveMemory /\ Spec => [](JobsInv /\ FenceInv)
<1>1. ASSUME ReadsHaveMemory PROVE Spec => [](JobsInv /\ FenceInv)
  <2>1. JobsInv /\ FenceInv /\ HandsOK /\ [Next]_vars => JobsInv'
    BY <1>1, JobsInvNext
  <2> QED
    BY <2>1, JobsInvInit, DiskInvariant, PTL DEF Spec
<1> QED
  BY <1>1

(* A job that passed the fence is on the queue, on the piece in the cache  *)
(* or in the hands of one thread, once, until job_complete, for any number *)
(* of threads and jobs and any interleaving of the three mutexes.          *)
THEOREM JobsAccountedTheorem == ReadsHaveMemory /\ Spec => []JobsAccounted
<1>1. JobsInv => JobsAccounted
  BY DEF JobsInv
<1> QED
  BY <1>1, JobsInvariant, PTL

(* When the queue is empty and all threads are idle, every job was         *)
(* answered, unless write blocks are left in the cache: no read waits for  *)
(* a read that nobody makes, and no job for a fence that nobody lowers.    *)
THEOREM QuietTheorem == ReadsHaveMemory /\ Spec => []QuietMeansAnswered
<1>1. JobsInv /\ FenceInv => QuietMeansAnswered
  <2> SUFFICES ASSUME JobsInv, FenceInv, Quiet, hung = {}
               PROVE  in_progress \cup Blocked \cup (finished \cap Issued) \subseteq called
    BY DEF QuietMeansAnswered
  <2>1. JobTypes /\ JobsAccounted /\ ReadsServed /\ DoneAreCalled
    BY DEF JobsInv
  <2>2. /\ m_queued_jobs = <<>> /\ net.pc = "idle" /\ NetJob = {}
        /\ ~ m_job_completions_in_flight /\ \A t \in Threads : thread[t] = ThreadIdle
    BY NetFree DEF Quiet
  <2>3. read_jobs = <<>>
    <3>1. ASSUME NEW j \in Reads, NEW t \in Threads,
                 thread[t].job = j \/ j \in ToSet(thread[t].other)
          PROVE  FALSE
      BY <2>2, <3>1, IdleIsHand, EmptyList, KnownJobs
    <3>2. ~ outstanding_read
      BY <2>1, <2>2, <3>1, EmptyList DEF ReadsServed
    <3> QED
      BY <2>1, <3>2 DEF ReadsServed
  <2>4. All(InHand(ThreadIdle)) = {}
    BY IdleIsHand, HandPlaces, EmptyList
  <2>5. All(Shared) = {}
    BY <2>2, <2>3, SharedPlaces, EmptyList
  <2>6. in_progress = {}
    BY <2>1, <2>2, <2>4, <2>5 DEF JobsAccounted
  <2>7. Blocked = {}
    <3>1. m_outstanding_jobs = 0
      BY <2>6, Outstanding DEF FenceInv
    <3>2. m_has_fence = 0
      BY <3>1 DEF FenceInv, FenceIsHeld, FenceTypeOK
    <3> QED
      BY <3>2, NoFence
  <2>8. finished \cap Issued \subseteq called
    <3>1. m_completed_jobs = {}
      BY <2>1, <2>2 DEF DoneAreCalled
    <3>2. UNION {thread[t].acked : t \in Threads} = {}
      BY <2>2, IdleIsHand
    <3> QED
      BY <2>1, <3>1, <3>2 DEF DoneAreCalled
  <2> QED
    BY <2>6, <2>7, <2>8
<1> QED
  BY <1>1, JobsInvariant, PTL
=============================================================================

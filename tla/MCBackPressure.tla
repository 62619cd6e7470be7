-------------------------- MODULE MCBackPressure --------------------------
(* Small instances of DiskBackPressure. *)
EXTENDS DiskBackPressure, TLC

(* The cache is made smaller. *)
MCChanges == {<<4, 3>>}

(* Bound: a read, a lost connection or a smaller cache, not two of them.   *)
OneEvent == m_max_use = MaxUse \/ extras = 0

(* Peers are alike, and so are threads. *)
Symmetry == Permutations(Peers) \cup Permutations(Threads)
=============================================================================

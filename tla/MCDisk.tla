------------------------------ MODULE MCDisk ------------------------------
(* Small instances of DiskIoThread. *)
EXTENDS DiskIoThread

MCJobs == Issued \cup {FlushHashed(w) : w \in Writes} \cup {FlushStorage(f) : f \in Fences}

(* Jobs of one kind are alike, and so are the threads. *)
Symmetry == Permutations(Reads) \cup Permutations(Writes) \cup Permutations(Fences)
            \cup Permutations(Threads)
=============================================================================

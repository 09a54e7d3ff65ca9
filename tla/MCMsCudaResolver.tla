------------------------ MODULE MCMsCudaResolver ------------------------
(* Instances of the CUDA resolver for TLC: sequences, and the workers, are    *)
(* interchangeable, and a run names the calls its clients make.               *)
EXTENDS MsCudaResolver, TLC

CONSTANTS s1, s2, w1, w2

TwoSeqs == {s1, s2}
OneWorker == {w1}
TwoWorkers == {w1, w2}
SeqSymmetry == Permutations(Seqs)
BothSymmetry == Permutations(Seqs) \cup Permutations(Workers)

OneLayer == {0}
TwoLayers == {0, 1}

\* The calls of the clients of a run.
Serving == {"create", "publish", "copy", "cancel", "remove", "execute", "reclaim"}
Faulting == Serving \cup {"overwrite"}
Resetting == {"create", "publish", "stage", "cancel", "remove", "execute"}
Shifting == {"create", "publish", "stage", "copy", "remove", "shift", "reclaim"}
=============================================================================

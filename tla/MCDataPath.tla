----------------------------- MODULE MCDataPath -----------------------------
(* Small instances of DataPath for TLC. *)
EXTENDS DataPath, TLC

MCRequest == [cam : Camera, callid : CallId, seq : 1..2]

MCThread == 1..2

Symmetry == Permutations(Camera) \cup Permutations(CallId)
=============================================================================

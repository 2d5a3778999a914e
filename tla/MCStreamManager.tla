-------------------------- MODULE MCStreamManager --------------------------
(* Small instances of StreamManager for TLC. *)
EXTENDS StreamManager, TLC

\* Every call may be opened on every camera, and opened again after that.
MCRequest == [cam : Camera, callid : CallId, seq : 1..2]

MCThread == 1..2

Symmetry == Permutations(Camera) \cup Permutations(CallId) \cup Permutations(Handle)
=============================================================================

---------------------------- MODULE MCEventStream ----------------------------
(***************************************************************************)
(* EventStream with two event streams and two pushers.                     *)
(***************************************************************************)
EXTENDS EventStream, TLC

Symmetric == Permutations(Stream) \cup Permutations(Pusher) \cup Permutations(Build)
=============================================================================

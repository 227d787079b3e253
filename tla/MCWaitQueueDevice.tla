-------------------------- MODULE MCWaitQueueDevice --------------------------
(* WaitQueueDevice for TLC, up to the identity of readers and of writers. *)
EXTENDS WaitQueueDevice, TLC

ProcessSymmetry == Permutations(Readers) \cup Permutations(Writers)

=============================================================================

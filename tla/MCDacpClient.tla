---------------------------- MODULE MCDacpClient ----------------------------
(* DacpClient for TLC: senders, and host threads, are interchangeable. *)
EXTENDS DacpClient, TLC

Symmetry == Permutations(Clients) \cup Permutations(Callers)
=============================================================================

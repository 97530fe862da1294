------------------------------ MODULE MCReceiver ------------------------------
(* Receiver for TLC: senders are interchangeable. *)
EXTENDS Receiver, TLC

Symmetry == Permutations(Clients)
=============================================================================

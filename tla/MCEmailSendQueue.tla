-------------------------- MODULE MCEmailSendQueue --------------------------
(* Small instances of EmailSendQueue for TLC. *)
EXTENDS EmailSendQueueInv, TLC

RunSymmetry == Permutations(Runs)
=============================================================================

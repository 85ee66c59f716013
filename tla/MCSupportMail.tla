--------------------------- MODULE MCSupportMail ---------------------------
(* Runs of the script that are interchangeable. *)
EXTENDS SupportMail, TLC

Runs == Permutations(Script)
=============================================================================

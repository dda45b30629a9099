----------------------------- MODULE MCCommands -----------------------------
(***************************************************************************)
(* Every command of the grammar with every set of its flags, run twice.    *)
(***************************************************************************)
EXTENDS Commands

(* Each command of the grammar has its script, and each script a command.  *)
ASSUME DOMAIN G!Flags = DOMAIN Scripts({})

=============================================================================

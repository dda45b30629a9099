---------------------------- MODULE CommandState ----------------------------
(***************************************************************************)
(* How far a command has come and what it has done, and what it promises   *)
(* at any time.                                                            *)
(***************************************************************************)
EXTENDS Promises

VARIABLES
    cmd, flags,  \* what was typed
    at,          \* which step of its script is next
    made, gone,  \* what there is, and no more is, through this command or before it
    owed,        \* changes set out on, by this run or the first, and not made
    failed,      \* those this run said so of, and what else a tally counts
    changed,     \* what this run set out to change
    agreed,      \* what the user said yes to in this run; "all" of it
    again,       \* this is the second run
    end          \* how the command ended, or that it runs

-----------------------------------------------------------------------------
Asked == {x \in changed : Concerns(cmd, x)}

(* A command that asks, or is told not to, changes nothing before it has   *)
(* its answer, and nothing after a no; with --dry-run it changes nothing   *)
(* whatever it is told.  Crossed with failures, branches and a second run. *)
NothingUnasked ==
    /\ "all" \in agreed \/ flags \cap {"yes", "force"} # {} \/ Asked \subseteq agreed
    /\ "dry_run" \in flags => changed \subseteq Prepared

(* A command that ends well has done what it and its first run set out to, *)
(* or says what it has not.                                                *)
SuccessIsTold ==
    end = "ok" => \A c \in owed \ failed : c[1] \in Untold(cmd, flags)

(* What is replaced has a copy until its replacement is there, wherever    *)
(* the command is cut short.                                               *)
KeptUntilReplaced ==
    \A x \in gone \cap {"key", "binary"} : "backup" \in made \/ "no_backup" \in flags

=============================================================================

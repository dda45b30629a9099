------------------------------ MODULE MCFleet ------------------------------
(* Instances of Fleet: a group of three VMs.                               *)
EXTENDS Fleet, TLC

Plain == [kind |-> "run", width |-> 2, gate |-> FALSE, smart |-> FALSE, count |-> Size,
          retry |-> FALSE, steps |-> <<>>]

(* One worker and several, every kind, and the options of fleet run that   *)
(* change the targets or repeat the command.                               *)
Commands ==
    {[Plain EXCEPT !.kind = "stop"], [Plain EXCEPT !.kind = "start", !.width = 3],
     [Plain EXCEPT !.kind = "sync"], [Plain EXCEPT !.kind = "command"],
     [Plain EXCEPT !.retry = TRUE], [Plain EXCEPT !.smart = TRUE, !.count = 1],
     [Plain EXCEPT !.gate = TRUE, !.width = 1], [Plain EXCEPT !.count = 0],
     [Plain EXCEPT !.smart = TRUE, !.gate = TRUE, !.retry = TRUE, !.count = 2],
     [Plain EXCEPT !.kind = "workflow", !.steps = <<TRUE, FALSE, TRUE>>]}

Workflows == {[Plain EXCEPT !.kind = "workflow", !.steps = <<TRUE, TRUE>>]}

=============================================================================

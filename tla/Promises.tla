------------------------------ MODULE Promises ------------------------------
(***************************************************************************)
(* What each command of the grammar owes its user: of what it asks him     *)
(* before it is done, and of which of its failures he is told.             *)
(***************************************************************************)
G == INSTANCE Grammar

(* detect_credentials: what azlin new finds on the user's own machine.     *)
Credentials == {"gh", "copilot", "claude", "az"}

(* What is written before the user is asked, and on purpose.               *)
Prepared == {"pool file", "output directory", "plan file"}

(* What a prompt is about: everything, but for enable, which asks what the *)
(* machines need; new, which asks of each credential it would bring to the *)
(* machine (and, in VmNew, of the network); set, which asks of values that *)
(* look like secrets; and connect, which asks whether to try again.        *)
Concerns(c, x) ==
    /\ G!Flags[c] \cap {"yes", "force"} # {}
    /\ CASE c = "runner_enable" -> x \in {"bastion", "nat gateway"}
         [] c = "new" -> x \in Credentials
         [] c \in {"env_set", "connect"} -> FALSE
         [] OTHER -> x \notin Prepared

(* All the failures of which no word is said: of what is cleared away, of  *)
(* processes that are killed, of what a line of shell on the VM swallows,  *)
(* of VMs passed over for want of their list (keys rotate, runner disable);*)
(* of a key that could not be brought to a VM, which no later connect      *)
(* brings there, and of the parts of a desktop, which an install that is   *)
(* run once more, as it advises, takes for done once the container is.     *)
Untold(c, f) ==
    CASE c = "gui" -> {"tunnel", "vnc server", "bridge started"}
      [] c \in {"web_start", "web_stop"} -> {"pid file", "server"}
      [] c = "bastion_sweep" -> {"process"}
      [] c = "completions" -> {"marker"}
      [] c = "storage_unmount" -> {"mount"}
      [] c = "keys_rotate" -> {"key deployed"}
      [] c = "runner_disable" -> {"runner vms"}
      [] c = "connect" -> {"key pushed"}
      [] c = "gui_install" ->
             {"desktop started", "bridge started", "older desktop", "bridge"}
               \cup (IF "uninstall" \in f THEN {"desktop"} ELSE {"desktop password"})
      [] OTHER -> {}

=============================================================================

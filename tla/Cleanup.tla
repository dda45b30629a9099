------------------------------- MODULE Cleanup -------------------------------
(***************************************************************************)
(* azlin cleanup (crate azlin, cmd_cleanup_ops.rs; crate azlin-azure,      *)
(* orphan_detector.rs) in the resource group of Teardown, beside teardowns *)
(* and creations.                                                          *)
(*                                                                         *)
(* It lists disks, NICs, public IPs and NSGs, asks, deletes whatever had   *)
(* no association, and, if a NIC went, lists once more what that set free. *)
(* Only disks carry a date, so only disks are held back by --age-days; the *)
(* disks of VMs created here are young, all others old.                    *)
(***************************************************************************)
EXTENDS Teardown

CONSTANT MaxCommands  \* bound: on teardowns and cleanups, and on commands at work at once

ASSUME MaxCommandsAssumption == MaxCommands \in Nat

VARIABLE sweep  \* the state of the cleanup

groupVars == <<live, tag, uses, building, built, task, sweep>>

Listings == {"disks", "nics", "pips", "nsgs"}
Sweeping == Listings \cup {"confirm", "delete", "rensgs", "repips", "redelete"}

(* todo is all_orphans, then freed; nicGone is deleted_nics.  The history: *)
(* clean says that nobody else has acted and no deletion has failed.       *)
Sweep == [at : Sweeping \cup {"idle", "done"}, aged : BOOLEAN,
          todo : SUBSET Resource, nicGone : BOOLEAN, clean : BOOLEAN]

Unswept == [at |-> "idle", aged |-> TRUE, todo |-> {}, nicGone |-> FALSE, clean |-> TRUE]

(* A cleanup that ended otherwise than by doing its work.                  *)
Over == [Unswept EXCEPT !.at = "done", !.clean = FALSE]

(* Bounds: at first no subnet and no NAT gateway uses anything, and either *)
(* all tags are azlin's or there are none.                                 *)
GroupInit ==
    /\ Init /\ sweep = Unswept
    /\ \A w \in uses : w[1] \notin {Subnet, NatGateway}
    /\ \A r, s \in live : tag[r] = NoTag <=> tag[s] = NoTag

Sweeps(s) == sweep' = s /\ UNCHANGED World

-----------------------------------------------------------------------------
(* handle_cleanup, with --age-days 0 or not. *)
SweepStart ==
    /\ sweep.at = "idle"
    /\ \E b \in BOOLEAN : Sweeps([Unswept EXCEPT !.at = "disks", !.aged = b])

Dated(r) == r[1] \in {"osdisk", "home"}
HeldBack(r) == sweep.aged /\ Dated(r) /\ r[2] \in built

Orphans(K) == {r \in live \cap OfKind(K) : UsersOf(r) = {} /\ ~ HeldBack(r)}

SweepList(at, K, next) ==
    /\ sweep.at = at
    /\ Sweeps([sweep EXCEPT !.at = next, !.todo = @ \cup Orphans(K)])

SweepLists ==
    \/ SweepList("disks", {"osdisk", "home"}, "nics")
    \/ SweepList("nics", {"nic"}, "pips")
    \/ SweepList("pips", {"pip"}, "nsgs")
    \/ SweepList("nsgs", {"nsg"}, "confirm")

(* A list fails, in the first pass or the second: the command fails.       *)
SweepListFails ==
    /\ sweep.at \in Listings \cup {"rensgs", "repips"}
    /\ Sweeps(Over)

(* Nothing found; --dry-run, or the user declines; or he goes ahead.       *)
SweepConfirm ==
    /\ sweep.at = "confirm"
    /\ \/ sweep.todo = {} /\ Sweeps([sweep EXCEPT !.at = "done"])
       \/ sweep.todo # {} /\ (Sweeps(Over) \/ Sweeps([sweep EXCEPT !.at = "delete"]))

(* In the order of the lists: all_orphans, then freed, NSGs before IPs.    *)
Rank(r) == IF sweep.at = "redelete" THEN 4 - Order[r[1]] ELSE Order[r[1]]
Foremost(r) == \A s \in sweep.todo : Rank(r) <= Rank(s)

\* Altered: deleted_nics is never set.
SweepDelete_Forgets(r) ==
    /\ sweep.at \in {"delete", "redelete"} /\ r \in sweep.todo /\ Foremost(r)
    /\ \/ /\ ~ Refused(r)
          /\ IF r \in live THEN AzureDeletes(r) ELSE UNCHANGED <<live, uses>>
          /\ sweep' = [sweep EXCEPT !.todo = @ \ {r}]
       \/ /\ UNCHANGED <<live, uses>>
          /\ sweep' = [sweep EXCEPT !.todo = @ \ {r}, !.clean = FALSE]
    /\ UNCHANGED <<tag, building, built>>

(* One deletion; a failure is printed and the next one tried.  (A disk is  *)
(* deleted with --no-wait: from then on nothing can be attached to it.)    *)
SweepDelete(r) ==
    /\ sweep.at \in {"delete", "redelete"} /\ r \in sweep.todo /\ Foremost(r)
    /\ \/ /\ ~ Refused(r)
          /\ IF r \in live THEN AzureDeletes(r) ELSE UNCHANGED <<live, uses>>
          /\ sweep' = [sweep EXCEPT !.todo = @ \ {r}, !.nicGone = @ \/ r[1] = "nic"]
       \/ /\ UNCHANGED <<live, uses>>
          /\ sweep' = [sweep EXCEPT !.todo = @ \ {r}, !.clean = FALSE]
    /\ UNCHANGED <<tag, building, built>>

Deleted ==
    /\ sweep.todo = {}
    /\ \/ /\ sweep.at = "delete"
          /\ Sweeps([sweep EXCEPT !.at = IF sweep.nicGone THEN "rensgs" ELSE "done"])
       \/ sweep.at = "redelete" /\ Sweeps([sweep EXCEPT !.at = "done"])

(* recheck_freed_resources *)
Refind ==
    \/ SweepList("rensgs", {"nsg"}, "repips")
    \/ SweepList("repips", {"pip"}, "redelete")

SweepKilled == sweep.at \in Sweeping /\ Sweeps(Over)

SweepStep ==
    \/ SweepStart \/ SweepLists \/ SweepListFails \/ SweepConfirm
    \/ \E r \in Resource : SweepDelete(r)
    \/ Deleted \/ Refind \/ SweepKilled

-----------------------------------------------------------------------------
Bit(b) == IF b THEN 1 ELSE 0
Started == Cardinality({u \in Users : task[u].pc # "idle"}) + Bit(sweep.at # "idle")
AtWork ==
    Cardinality({u \in Users : task[u].pc \notin {"idle", "done", "error"}})
      + Cardinality(building) + Bit(sweep.at \in Sweeping)

(* Somebody else acts.  (What a cleanup that has ended did is forgotten.)  *)
Disturbed ==
    CASE sweep.at \in Sweeping -> [sweep EXCEPT !.clean = FALSE]
      [] sweep.at = "idle" -> sweep
      [] OTHER -> Over

GroupNext ==
    /\ \/ Next /\ sweep' = Disturbed
       \/ SweepStep /\ UNCHANGED task
    /\ Started' <= MaxCommands /\ AtWork' <= MaxCommands

GroupSpec == GroupInit /\ [][GroupNext]_groupVars

-----------------------------------------------------------------------------
(* A cleanup that nobody disturbs, and none of whose deletions fails, has  *)
(* to be run once only: it leaves nothing without an association but the   *)
(* young disks it was told to hold back.  (cmd_cleanup_ops.rs, of the time *)
(* before the second pass: "clearing an NSG took two manual invocations".) *)
OnePassIsEnough ==
    sweep.at = "done" /\ sweep.clean =>
        \A r \in live : r[1] # "vm" /\ ~ HeldBack(r) => UsersOf(r) # {}

=============================================================================

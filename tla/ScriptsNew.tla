----------------------------- MODULE ScriptsNew -----------------------------
(***************************************************************************)
(* azlin new before and after the network, the gate, the disks and the VM  *)
(* that VmNew models and that are one step here: what it needs to begin,   *)
(* and how a machine is set up (cmd_vm_ops.rs, auth_forward.rs,            *)
(* create_helpers.rs).                                                     *)
(***************************************************************************)
EXTENDS Helpers

(* check_region_availability: cores left in the region (parse_quota_json), *)
(* a size that is offered there (parse_sku_availability_json).  A query    *)
(* that fails makes a region unusable, and is shown if none is usable; the *)
(* first usable one is taken.                                              *)
Quota == Need("quota")
Sku == Need("sku")
Fits == Passes(Quota \o Sku)
RegionFit ==
    LET last == Item(Fits \o Past(Bail)) \o Bail
    IN  Item(Fits \o Past(last)) \o last

(* A pool is not connected to; what is connected to, given a repository or *)
(* seeded needs its private key before it is made                          *)
(* (requires_post_create_ssh).                                             *)
Connects(f) == "no_auto_connect" \notin f

Questions ==
    Need("private or public") \o Login \o Group \o Need("context") \o When(RegionFit) \o KeyPair

(* The template: its name is checked, one that is not there is passed by.  *)
Template == When(ValidName \o When(Need("template")))

-----------------------------------------------------------------------------
(* resolve_bastion_resource_group_by_name *)
NamedBastion == Need("bastions") \o Need("one of that name")

(* The target, by its public IP or by look-up, and its tunnel.             *)
Reached ==
    Either(Need("public ip"), Target({})) \o When(NamedBastion) \o When(Need("tunnel"))

(* wait_for_ssh, for as long as the size of the machine suggests.          *)
SshReady == Skips(Need("ssh"))

(* wait_for_cloud_init: errors and the time-out end the command, failed    *)
(* sections are listed.                                                    *)
CloudInit == Need("cloud-init") \o Noted(Need("sections"))

(* verify_egress: without an answer it is said that nothing is known.      *)
Egress == Item(Skips(Need("egress known")) \o Noted(Need("egress")))

(* wait_for_post_create_readiness, egress_probe_shortcut: a machine with   *)
(* an IP of its own, or that SSH does not reach, is not asked.             *)
Ready == Item(SshReady \o CloudInit \o When(Egress))

-----------------------------------------------------------------------------
(* ssh_run; scp_file and scp_recursive, which are killed when their time   *)
(* is up and may leave a part.                                             *)
SshRun(x) == Need(x)
ScpFile(x) == Make(x)
ScpDir(x) == Make(x)

RemoteDir == Skips(SshRun("remote directory"))
ForwardGh == Item(RemoteDir \o Noted(ScpDir("gh")))
ForwardCopilot == Item(RemoteDir \o Noted(ScpDir("copilot")))
ForwardClaude == Noted(ScpFile("claude"))

(* forward_az: file by file, of those that are allowed.                    *)
ForwardAz == Item(Skips(Need("token files")) \o RemoteDir \o Skips(ScpFile("az")) \o Noted(ScpFile("az")))

(* forward_auth_credentials: one question for each that there is, of which *)
(* two are enough; what fails is said, and the next one tried.             *)
Offered(f, x, s) == OfferUnless("yes" \in f, x, s)
ForwardAuth(f) ==
    When(Either(Offered(f, "gh", ForwardGh) \o Offered(f, "az", ForwardAz),
                Offered(f, "copilot", ForwardCopilot) \o Offered(f, "claude", ForwardClaude)))

(* seed_remote_home_with_runner: rsync's bad exit is an error.             *)
Seeded == Make("home seeded")

(* build_clone_cmd: an URL that is refused ends the command, and well.     *)
Cloned == Either(OrStops(Noted(Make("clone"))), Quit)

(* A machine whose key is not needed is left as it is without it.          *)
Created == Need("valid name") \o Need("valid image") \o Make("machine")
SetUp(f) ==
    Reached \o Ready \o ForwardAuth(f)
      \o If("bare" \notin f, When(Seeded) \o When(Cloned))
      \o If(Connects(f), OrStops(Noted(Need("session"))))

(* handle_vm_new.  A machine that cannot get out makes an error of the     *)
(* whole, at its end.                                                      *)
WithKey(f) == Need("private key") \o Template \o Created \o SetUp(f)
Bare(f) == Template \o Created \o Item(Skips(Need("private key")) \o SetUp(f \cup {"bare"}))

New(f) ==
    Questions \o (IF Connects(f) THEN WithKey(f) ELSE Either(WithKey(f), Bare(f)))
      \o TallyOf("egress")

NewScripts(f) == [new |-> New(f)]

=============================================================================

----------------------------- MODULE ScriptsTool -----------------------------
(***************************************************************************)
(* The handlers of the commands about pools, templates, costs, plans made  *)
(* by the model, profiles, and azlin itself (crate azlin: cmd_infra_ops*,  *)
(* templates.rs, cmd_autopilot.rs, cmd_cleanup_costs*, cmd_ai_ops*,        *)
(* cmd_auth.rs, cmd_history.rs, cmd_self_update.rs, cmd_completions.rs,    *)
(* cmd_config_diff.rs; azdoit), as scripts; and the scripts of all.        *)
(***************************************************************************)
EXTENDS ScriptsVm

LOCAL INSTANCE TLC

-----------------------------------------------------------------------------
(* confirm_infrastructure_prompt, runner_failure_message                   *)
InfraAsked(f) == AskUnless("yes" \in f)
RunnersTold == Tally

(* The pool file is written before the question, so that a pool whose      *)
(* machines are there always has its region recorded.  To decline is an    *)
(* error here; what the gateway and the bastion cost is what is asked.     *)
RunnerEnable(f) ==
    Group \o ValidName \o SameRegion \o Make("pool file")
      \o When(InfraAsked(f) \o When(Make("bastion")) \o When(Make("nat gateway")))
      \o KeyPair \o Login
      \o Each(Need("valid parameters") \o Noted(Make("runner vm"))) \o RunnersTold

(* The VMs go by their tag, in whatever group; the pool file goes also if  *)
(* they could not be listed or deleted.                                    *)
RunnerDisable(f) ==
    Find("pool file")
      \o If("keep_vms" \notin f,
            Item(OrStops(Passes(Need("list"))) \o When(OrStops(Noted(Drop("runner vms"))))))
      \o Drop("pool file")

RunnerStatus(f) == Find("pool file") \o Need("read") \o OrStops(Noted(Need("list")))
RunnerScale(f) == Find("pool file") \o Need("read") \o Make("pool file")

(* compose up, down and ps: run_on_fleet, whose failures show in its table. *)
Compose(f) ==
    Login \o Group \o Need("list") \o Find("running vms") \o Each(Noted(Make("service")))

-----------------------------------------------------------------------------
TemplateCreate(f) == SaveTemplate
TemplateList(f) == ListTemplates
TemplateShow(f) == LoadTemplate

(* It prints the command to create a VM with; it creates none.             *)
TemplateApply(f) == LoadTemplate

TemplateDelete(f) == LoadTemplate \o AskUnless("force" \in f) \o RemoveTemplate
TemplateExport(f) == Need("template") \o Make("copy")
TemplateImport(f) == Need("read") \o ImportTemplate

-----------------------------------------------------------------------------
AutopilotEnable(f) == Make("autopilot file")
AutopilotDisable(f) ==
    Find("autopilot file")
      \o IF "keep_config" \in f THEN Need("read") \o Make("autopilot file")
         ELSE Drop("autopilot file")
AutopilotStatus(f) == When(Need("read"))
AutopilotConfig(f) == Either(When(Need("read")), When(Need("read")) \o Make("autopilot file"))

(* parse_autopilot_thresholds, of the file if there is one.                *)
Thresholds == When(Need("read"))

(* It asks nothing; whether the file says `enabled` is not looked at.      *)
AutopilotRun(f) ==
    Group \o Login \o Need("list") \o Thresholds \o Each(Passes(Target({})) \o Noted(Need("answer")))
      \o IdleVms \o If("dry_run" \in f, Quit)
      \o Each(Noted(Make("vm stopped")))

-----------------------------------------------------------------------------
Cost(f) == Login \o Group \o Noted(Need("costs"))

CostsDashboard(f) ==
    Login \o Noted(Need("costs") \o Need("usage") \o Need("budget"))
      \o Need("any data") \o Need("terminal")

CostsHistory(f) == Need("usage") \o Need("parsed")

(* Budget create; list; delete; any other word.                            *)
CostsBudget(f) ==
    Either(Make("budget"),
           Either(OrStops(Noted(Need("list"))),
                  Either(OrStops(Noted(Drop("budget"))), Bail)))

(* require_resource_group: a group that is not there has no advice.        *)
RequireGroup == Need("resource group")

(* build_advisor_args, and what is made of the answer.                     *)
Advice == Need("list") \o Need("parsed")
CostsRecommend(f) == ValidPriority \o RequireGroup \o Advice

CostsActions(f) ==
    CostsRecommend(f) \o Find("recommendations") \o If("dry_run" \in f, Quit)
      \o Either(AskUnless("yes" \in f) \o Each(When(Noted(Make("vm stopped")))), <<>>)

-----------------------------------------------------------------------------
Ask(f) ==
    Need("query") \o If("dry_run" \in f, Quit)
      \o When(Need("profile")) \o Need("client") \o Group \o Need("answer")

(* What is not an az command is passed over; a bad exit is only printed.   *)
Planned == Skips(Need("az command")) \o OrStops(Noted(Make("planned change")))

Do(f) ==
    Need("client") \o Group \o Need("plan") \o Find("commands") \o SameGroup
      \o If("dry_run" \in f, Quit) \o AskUnless("yes" \in f) \o Each(Planned)

(* A command that cannot be spawned is in the transcript before it stops.  *)
DoitDeploy(f) ==
    When(Make("output directory")) \o Need("client") \o Need("plan")
      \o When(Make("plan file")) \o If("dry_run" \in f, Quit) \o WithinLimit
      \o AskUnless("yes" \in f) \o Each(Planned \o When(Make("transcript")))

Azdoit(f) ==
    Need("request") \o Need("client") \o Need("plan") \o If("dry_run" \in f, Quit)
      \o Find("commands") \o AskUnless("yes" \in f)
      \o Each(Skips(Allowed) \o Planned)

DoitStatus(f) == Group \o Login \o Need("list")
DoitList(f) == Login \o Group \o Need("list")
DoitShow(f) == OrStops(Noted(Need("resource")))
\* Altered: --dry-run is not looked at.
DoitCleanup_Wet(f) ==
    Login \o Group \o Need("list") \o Find("vms")
      \o AskUnless("force" \in f) \o Each(Drop("vm"))

DoitCleanup(f) ==
    Login \o Group \o Need("list") \o Find("vms") \o If("dry_run" \in f, Quit)
      \o AskUnless("force" \in f) \o Each(Drop("vm"))

-----------------------------------------------------------------------------
AuthSetup(f) ==
    ValidCertificate \o Need("answers") \o ValidName \o Make("profile")
AuthList(f) == When(Need("read"))
AuthShow(f) == LoadProfile
AuthRemove(f) ==
    ValidName \o Need("profile") \o AskUnless("yes" \in f) \o Drop("profile")

History(f) == ReadHistory
HistoryReplay(f) == ReadHistory \o Need("index") \o Need("parsed") \o Make("replayed")
HistoryClear(f) == When(Drop("history"))

CompletionPath == Need("directory")

(* --install writes the file and, best effort, the version beside it.      *)
Completions(f) ==
    If("install" \in f, CompletionPath \o Make("completions") \o Quiet(Make("marker")))

ConfigShow(f) == Need("config")
ConfigDiff(f) == Need("config") \o When(Need("read"))

-----------------------------------------------------------------------------
(* find_binary_in_dir, ensure_ay_alias                                     *)
NewBinary == Need("new binary")
Alias == Noted(Make("alias"))

(* download_and_replace.  The running binary moves aside - the last run's  *)
(* copy of it goes first - and returns to nothing: the copy that follows   *)
(* is all there is under its name.                                         *)
Download == Make("tmp dir") \o Need("download") \o Need("extracted") \o NewBinary

\* Altered: the copy goes before the new binary is in its place.
Replace_Early ==
    Move("binary", "backup") \o Noted(Drop("backup")) \o Make("binary") \o Make("mode")
      \o Alias \o Noted(Drop("tmp dir"))

Replace ==
    IfThere("backup", Noted(Drop("backup")))
      \o Move("binary", "backup") \o Make("binary") \o Make("mode")
      \o Alias \o Noted(Drop("backup") \o Drop("tmp dir"))

Update(f) == Release \o Find("newer") \o Download \o Replace

-----------------------------------------------------------------------------
(* The dispatch of each file.                                              *)
InfraScripts(f) ==
    [runner_enable |-> RunnerEnable(f), runner_disable |-> RunnerDisable(f),
     runner_status |-> RunnerStatus(f), runner_scale |-> RunnerScale(f),
     compose       |-> Compose(f),
     template_create |-> TemplateCreate(f), template_list |-> TemplateList(f),
     template_show   |-> TemplateShow(f),   template_apply |-> TemplateApply(f),
     template_delete |-> TemplateDelete(f), template_export |-> TemplateExport(f),
     template_import |-> TemplateImport(f)]

AutopilotScripts(f) ==
    [autopilot_enable |-> AutopilotEnable(f), autopilot_disable |-> AutopilotDisable(f),
     autopilot_status |-> AutopilotStatus(f), autopilot_config |-> AutopilotConfig(f),
     autopilot_run    |-> AutopilotRun(f)]

CostsScripts(f) ==
    [costs_dashboard |-> CostsDashboard(f), costs_history |-> CostsHistory(f),
     costs_budget    |-> CostsBudget(f),    costs_recommend |-> CostsRecommend(f),
     costs_actions   |-> CostsActions(f)]

AiScripts(f) ==
    [ask       |-> Ask(f),      do |-> Do(f),            doit_deploy |-> DoitDeploy(f),
     doit_list |-> DoitList(f), doit_show |-> DoitShow(f), doit_status |-> DoitStatus(f),
     doit_cleanup |-> DoitCleanup(f), doit_examples |-> <<>>]

AuthScripts(f) ==
    [auth_setup |-> AuthSetup(f), auth_list |-> AuthList(f), auth_show |-> AuthShow(f),
     auth_remove |-> AuthRemove(f)]

HistoryScripts(f) ==
    [history |-> History(f), history_replay |-> HistoryReplay(f),
     history_clear |-> HistoryClear(f)]

ConfigScripts(f) == [config_show |-> ConfigShow(f), config_diff |-> ConfigDiff(f)]

(* dispatch_command, and the second program of the crate.                  *)
Scripts(f) ==
    [version |-> <<>>, help |-> <<>>, cost |-> Cost(f), completions |-> Completions(f),
     self_update |-> Update(f), azdoit |-> Azdoit(f)]
      @@ LifecycleScripts(f) @@ ConnectScripts(f) @@ TagScripts(f) @@ MonitoringScripts(f)
      @@ EnvScripts(f) @@ SnapshotScripts(f) @@ StorageScripts(f) @@ KeysScripts(f)
      @@ AuthScripts(f) @@ AiScripts(f) @@ MachineScripts(f) @@ SessionScripts(f)
      @@ InfraScripts(f) @@ AutopilotScripts(f) @@ NetworkScripts(f) @@ GuiScripts(f)
      @@ CostsScripts(f) @@ SyncScripts(f) @@ HistoryScripts(f) @@ ConfigScripts(f)
      @@ NewScripts(f)

=============================================================================

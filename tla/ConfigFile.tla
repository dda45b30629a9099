----------------------------- MODULE ConfigFile -----------------------------
(***************************************************************************)
(* config.toml: loading, changing and saving it (crate azlin-core:         *)
(* config.rs; crate azlin: cmd_session.rs, cmd_config_init.rs,             *)
(* dispatch_helpers.rs).                                                   *)
(*                                                                         *)
(* A save fills config.toml.tmp, always this name, and renames it.  Files  *)
(* are inodes: a process goes on writing into the one it opened, whatever  *)
(* its name is by then.  An empty config.toml is one of defaults.          *)
(***************************************************************************)
EXTENDS Naturals

CONSTANTS
    Users,      \* processes of azlin
    CfgJobs,    \* the commands they may be given
    Keys, Vals, \* fields of the config and their values
    Defaults,   \* the built-in config
    Own,        \* the user's
    Inodes,     \* files
    None, Blank, Garbled

Config == [Keys -> Vals]

ConfigAssumption ==
    /\ {Defaults, Own} \subseteq Config
    /\ CfgJobs \subseteq [op : {"set", "init", "none"}, key : Keys, val : Vals]
    /\ Inodes # {} /\ None \notin Inodes
    /\ {Blank, Garbled} \cap Config = {} /\ Blank # Garbled

VARIABLES
    conf,   \* the file called config.toml, if there is one
    tmp,    \* the file called config.toml.tmp
    text,   \* text[i]: what is in file i
    saver   \* saver[u]: the progress of u

cfgVars == <<conf, tmp, text, saver>>

Saving == {"load", "answer", "open", "fill", "chmod", "rename", "sweep"}

(* was is the config it loaded or would replace, mine the one it saves, fd *)
(* the file it has open.  The history: crossed says that another touched   *)
(* the files while it was at work.                                         *)
Saver == [at : Saving \cup {"idle", "ok", "failed", "killed"}, job : CfgJobs,
          was : Config \cup {Blank, Garbled}, mine : Config \cup {Blank, Garbled},
          fd : Inodes \cup {None}, crossed : BOOLEAN]

(* The user may have a config of his own, or one that does not parse.      *)
CfgInit ==
    /\ \E t \in {Blank, Own, Garbled} :
         /\ conf = IF t = Blank THEN None ELSE CHOOSE i \in Inodes : TRUE
         /\ text = [i \in Inodes |-> t]
    /\ tmp = None
    /\ \E job \in [Users -> CfgJobs] :
         saver = [u \in Users |-> [at |-> "idle", job |-> job[u], was |-> Blank,
                                   mine |-> Blank, fd |-> None, crossed |-> FALSE]]

-----------------------------------------------------------------------------
Step(u, s) == saver' = [saver EXCEPT ![u] = s]

(* A step of u that the others may notice.                                 *)
Touches(u, s) ==
    saver' = [v \in Users |-> IF v = u THEN s
                              ELSE [saver[v] EXCEPT !.crossed = @ \/ saver[v].at \in Saving]]

InState(u, l) == saver[u].at = l
To(u, l) == [saver[u] EXCEPT !.at = l]

(* The content of config.toml; without one, what load makes of that.       *)
Content == IF conf = None THEN Defaults ELSE text[conf]

(* config init starts from defaults, whatever is there.                    *)
Begin(u) ==
    /\ InState(u, "idle") /\ saver[u].job.op # "none"
    /\ Step(u, To(u, IF saver[u].job.op = "init" THEN "answer" ELSE "load"))
    /\ UNCHANGED <<conf, tmp, text>>

Changed(u, c) == [c EXCEPT ![saver[u].job.key] = saver[u].job.val]

(* load and set_field, or the session name.  A file that does not parse is *)
(* an error; so is a value that does not pass validate_field.              *)
Load(u) ==
    /\ InState(u, "load")
    /\ LET c == IF Content = Blank THEN Defaults ELSE Content IN
         \/ /\ c # Garbled
            /\ Step(u, [To(u, "open") EXCEPT !.was = Content, !.mine = Changed(u, c)])
         \/ Step(u, To(u, "failed"))
    /\ UNCHANGED <<conf, tmp, text>>

(* The wizard asks before it overwrites, and asks some more.               *)
Answer(u) ==
    /\ InState(u, "answer")
    /\ \/ Step(u, [To(u, "open") EXCEPT !.was = Content, !.mine = Changed(u, Defaults)])
       \/ conf # None /\ Step(u, To(u, "ok"))
       \/ Step(u, To(u, "failed"))
    /\ UNCHANGED <<conf, tmp, text>>

-----------------------------------------------------------------------------
(* save: std::fs::write opens and truncates, then writes.                  *)

Free == {i \in Inodes : i # conf /\ i # tmp /\ \A u \in Users : saver[u].fd # i}

(* Bound: there is a file left to create.                                  *)
OpenTmp(u) ==
    /\ InState(u, "open")
    /\ tmp = None => Free # {}
    /\ LET i == IF tmp = None THEN CHOOSE f \in Free : TRUE ELSE tmp IN
         /\ tmp' = i
         /\ text' = [text EXCEPT ![i] = Blank]
         /\ Touches(u, [To(u, "fill") EXCEPT !.fd = i])
    /\ UNCHANGED conf

(* What another has written into the file since stays where it is longer.  *)
FillTmp(u) ==
    /\ InState(u, "fill")
    /\ LET i == saver[u].fd IN
         \E t \in {saver[u].mine} \cup
                  (IF text[i] \in {Blank, saver[u].mine} THEN {} ELSE {Garbled}) :
             text' = [text EXCEPT ![i] = t]
    /\ Touches(u, To(u, "chmod"))
    /\ UNCHANGED <<conf, tmp>>

(* set_permissions goes by the name.                                       *)
Chmod(u) ==
    /\ InState(u, "chmod")
    /\ Step(u, To(u, IF tmp # None THEN "rename" ELSE "sweep"))
    /\ UNCHANGED <<conf, tmp, text>>

RenameTmp(u) ==
    /\ InState(u, "rename")
    /\ IF tmp # None
       THEN /\ conf' = tmp /\ tmp' = None
            /\ Touches(u, [To(u, "ok") EXCEPT !.fd = None])
       ELSE UNCHANGED <<conf, tmp>> /\ Step(u, To(u, "sweep"))
    /\ UNCHANGED text

(* After an error the temporary file is removed, whosever it is.           *)
Sweep(u) ==
    /\ InState(u, "sweep")
    /\ tmp' = None
    /\ Touches(u, [To(u, "failed") EXCEPT !.fd = None])
    /\ UNCHANGED <<conf, text>>

KillSaver(u) ==
    /\ saver[u].at \in Saving
    /\ Step(u, [To(u, "killed") EXCEPT !.fd = None])
    /\ UNCHANGED <<conf, tmp, text>>

CfgStep(u) ==
    \/ Begin(u) \/ Load(u) \/ Answer(u) \/ OpenTmp(u) \/ FillTmp(u) \/ Chmod(u)
    \/ RenameTmp(u) \/ Sweep(u) \/ KillSaver(u)

CfgNext == \E u \in Users : CfgStep(u)

CfgSpec == CfgInit /\ [][CfgNext]_cfgVars

-----------------------------------------------------------------------------
CfgTypeOK ==
    /\ conf \in Inodes \cup {None} /\ tmp \in Inodes \cup {None}
    /\ text \in [Inodes -> Config \cup {Blank, Garbled}]
    /\ saver \in [Users -> Saver]

Uncrossed == \A u \in Users : ~ saver[u].crossed

(* Wherever saves are interrupted, as long as no two cross, config.toml is *)
(* never seen half-written: for a save under way it holds what it did, and *)
(* after one a whole config; what an interrupted one has left of the       *)
(* temporary file does no harm to the next.  (config.rs: "Atomic write".)  *)
AllOrNothing ==
    Uncrossed =>
        /\ Content # Blank
        /\ (\E u \in Users : InState(u, "ok") /\ saver[u].mine # Blank) => Content \in Config
        /\ \A u \in Users :
             saver[u].at \in {"open", "fill", "chmod", "rename"} => Content = saver[u].was

(* What a command has set stays set, whatever others save before it, after *)
(* it or are killed over, but for the same field and the wizard.           *)
SettingsStay ==
    Uncrossed =>
        \A u \in Users :
            /\ saver[u].job.op = "set" /\ InState(u, "ok")
            /\ \A v \in Users \ {u} :
                 saver[v].job.op = "set" => saver[v].job.key # saver[u].job.key
            /\ \A v \in Users : saver[v].job.op # "init"
            => Content[saver[u].job.key] = saver[u].job.val

=============================================================================

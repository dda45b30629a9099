------------------------------ MODULE Commands ------------------------------
(***************************************************************************)
(* One azlin command that runs: its script (ScriptsTool), the answers      *)
(* of its user, the failure of any of its steps, Ctrl-C at any time; and   *)
(* the same command once more, which finds what the first one left.  What  *)
(* must hold of it at any time is in CommandState.                         *)
(***************************************************************************)
EXTENDS ScriptRules, CommandState

vars == <<cmd, flags, at, made, gone, owed, failed, changed, agreed, again, end>>

-----------------------------------------------------------------------------
(* The key of an earlier rotation, a desktop installed before, an          *)
(* executable that an earlier update left under its other name.            *)
Before == {{}, {"key"}, {"desktop"}, {"backup"}}

Todo == Script[cmd][flags]

Init ==
    /\ cmd \in DOMAIN G!Flags
    /\ flags \in SUBSET G!Flags[cmd]
    /\ made \in Before
    /\ \A x \in made : \E i \in DOMAIN Todo :
           Todo[i].do \in {"there", "lacks"} /\ Todo[i].what = x
    /\ gone = {} /\ owed = {} /\ again = FALSE
    /\ at = 1 /\ failed = {} /\ changed = {} /\ agreed = {} /\ end = "runs"

Now == Todo[at]
Doing(d) == end = "runs" /\ at <= Len(Todo) /\ Now.do = d
It == <<Now.what, Now.nth>>
Go(n) == at' = at + n + 1

(* The changes among the next n steps.                                     *)
Passed(n) == {<<Todo[i].what, Todo[i].nth>> :
                  i \in {j \in (at + 1)..(at + n) : Todo[j].do \in {"make", "drop", "move"}}}

(* What is there to be done, or which way a handler turns, is the same as  *)
(* long as it was not done: the first run leaves it as it was.             *)
Free(n) == again => Passed(n) \cap owed = {}

(* The failures a tally counts.                                            *)
Counted == {c \in failed : Now.what \in {"", c[1]}}

Tallied == \E i \in (at + 1)..Len(Todo) :
               Todo[i].do = "tally" /\ Todo[i].what \in {"", Now.what}
Heard == IF Now.do # "need" \/ Tallied THEN failed \cup {It} ELSE failed

(* What a failure does, by what its step says of it.                       *)
Fail ==
    \/ "stop" \in Now.miss /\ end' = "error" /\ UNCHANGED <<at, failed>>
    \/ "note" \in Now.miss /\ Go(0) /\ failed' = Heard /\ UNCHANGED end
    \/ "next" \in Now.miss /\ Go(Now.leap) /\ failed' = Heard \cup Passed(Now.leap) /\ UNCHANGED end
    \/ "quiet" \in Now.miss /\ Go(0) /\ UNCHANGED <<failed, end>>
    \/ "pass" \in Now.miss /\ Go(Now.leap) /\ UNCHANGED <<failed, end>>

-----------------------------------------------------------------------------
Same == UNCHANGED <<cmd, flags, again>>
World == <<made, gone, owed, changed>>

(* What is passed over without a word is owed too.                         *)
Read ==
    /\ Doing("need")
    /\ \/ Go(0) /\ UNCHANGED <<failed, end, owed>>
       \/ /\ Fail
          /\ owed' = IF "pass" \in Now.miss /\ end' = "runs" THEN owed \cup Passed(Now.leap)
                     ELSE owed
    /\ UNCHANGED <<made, gone, changed, agreed>> /\ Same

Search ==
    /\ Doing("find")
    /\ \/ Go(0) /\ UNCHANGED end
       \/ Free(Len(Todo) - at) /\ end' = "ok" /\ UNCHANGED at
    /\ UNCHANGED <<World, failed, agreed>> /\ Same

Done ==
    CASE Now.do = "make" -> made' = made \cup {Now.what} /\ gone' = gone \ {Now.what}
      [] Now.do = "drop" -> made' = made \ {Now.what} /\ gone' = gone \cup {Now.what}
      [] Now.do = "move" -> /\ made' = (made \ {Now.what}) \cup {Now.into}
                            /\ gone' = (gone \ {Now.into}) \cup {Now.what}

Made == Done /\ owed' = owed \ {It}
Unmade == owed' = owed \cup {It} /\ UNCHANGED <<made, gone>>

(* A change that fails may have been made all the same.                    *)
Change ==
    /\ Doing("make") \/ Doing("drop") \/ Doing("move")
    /\ changed' = changed \cup {Now.what}
    /\ \/ Made /\ Go(0) /\ UNCHANGED <<failed, end>>
       \/ Fail /\ (Made \/ Unmade)
    /\ UNCHANGED agreed /\ Same

(* safe_confirm: without a terminal the command ends with an error.        *)
Prompt ==
    /\ Doing("ask")
    /\ \/ agreed' = agreed \cup {"all"} /\ Go(0) /\ UNCHANGED end
       \/ end' \in {"declined", "error"} /\ UNCHANGED <<at, agreed>>
    /\ UNCHANGED <<World, failed>> /\ Same

(* confirm of auth_forward.rs: a no, as no terminal, leaves one thing out, *)
(* which is then nobody's debt.                                            *)
Offer ==
    /\ Doing("offer")
    /\ \/ agreed' = agreed \cup {Now.what} /\ Go(0) /\ UNCHANGED owed
       \/ Go(Now.leap) /\ owed' = owed \ Passed(Now.leap) /\ UNCHANGED agreed
    /\ UNCHANGED <<made, gone, changed, failed, end>> /\ Same

(* Branches, and the steps that end a command.                             *)
Branch ==
    /\ \/ Doing("when") /\ Go(0)
       \/ Doing("when") /\ Free(Now.leap) /\ Go(Now.leap)
       \/ Doing("jump") /\ Free(Now.leap) /\ Go(Now.leap)
       \/ Doing("there") /\ Go(IF Now.what \in made THEN 0 ELSE Now.leap)
       \/ Doing("lacks") /\ Go(IF Now.what \in made THEN Now.leap ELSE 0)
       \/ Doing("tally") /\ Counted = {} /\ Go(0)
    /\ UNCHANGED <<World, failed, agreed, end>> /\ Same

Finish ==
    /\ \/ end = "runs" /\ at > Len(Todo) /\ end' = "ok"
       \/ Doing("quit") /\ end' = "ok"
       \/ Doing("bail") /\ end' = "error"
       \/ Doing("tally") /\ Counted # {} /\ end' = "error"
    /\ UNCHANGED <<at, World, failed, agreed>> /\ Same

(* Ctrl-C; the change it interrupts may be made.                           *)
Kill ==
    /\ end = "runs" /\ at <= Len(Todo) /\ end' = "killed"
    /\ IF Now.do \in {"make", "drop", "move"}
       THEN Made \/ Unmade
       ELSE UNCHANGED <<made, gone, owed>>
    /\ UNCHANGED <<cmd, flags, at, failed, changed, agreed, again>>

(* The command is typed once more, if its executable is still there.       *)
Again ==
    /\ end # "runs" /\ ~again /\ "binary" \notin gone
    /\ again' = TRUE /\ at' = 1
    /\ failed' = {} /\ changed' = {} /\ agreed' = {} /\ end' = "runs"
    /\ UNCHANGED <<cmd, flags, made, gone, owed>>

Next == Read \/ Search \/ Change \/ Prompt \/ Offer \/ Branch \/ Finish \/ Kill \/ Again
Spec == Init /\ [][Next]_vars

=============================================================================

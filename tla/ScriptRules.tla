----------------------------- MODULE ScriptRules -----------------------------
(***************************************************************************)
(* The scripts of all commands, and the rules that each of them keeps for  *)
(* what the command promises, as it stands on the page: which step comes   *)
(* before which, whatever is answered, fails or is cut short.              *)
(***************************************************************************)
EXTENDS ScriptsTool, Promises, TLC

(* All scripts (with @@, which makes TLC keep them as a table).            *)
Script ==
    [c \in DOMAIN G!Flags |-> [f \in SUBSET G!Flags[c] |-> Scripts(f)[c]] @@ <<>>] @@ <<>>

-----------------------------------------------------------------------------
(* A change, the debt it is until it is made, and what it brings about or  *)
(* takes away.                                                             *)
Changing(s) == {i \in DOMAIN s : s[i].do \in {"make", "drop", "move"}}
Debt(s, i) == <<s[i].what, s[i].nth>>
Brings(s, x) ==
    {i \in DOMAIN s : \/ s[i].do = "make" /\ s[i].what = x
                      \/ s[i].do = "move" /\ s[i].into = x}
Loses(s, x) == {i \in DOMAIN s : s[i].do \in {"drop", "move"} /\ s[i].what = x}

(* Who comes to step i has come through p.                                 *)
Guards(s, p, i) == p < i /\ \A j \in 1..(p - 1) : j + s[j].leap \notin p..(i - 1)

(* The steps that p passes over, if it jumps.                              *)
Block(s, p) == (p + 1)..(p + s[p].leap)

Ends(s, q) == s[q].do \in {"quit", "bail"}
Dead(s, i) == \E q \in DOMAIN s : Ends(s, q) /\ Guards(s, q, i)

(* On the way to i, x is made for sure and not taken away again.           *)
Secured(s, x, i) ==
    \E p \in Brings(s, x) :
        /\ s[p].do = "make" /\ s[p].miss \subseteq {"stop"}
        /\ Guards(s, p, i)
        /\ Loses(s, x) \cap (p + 1)..(i - 1) = {}

(* On the way to i, a test has found x, or has not.                        *)
Tested(s, p, x, i) == s[p].what = x /\ Guards(s, p, i)
Found(s, x, i) ==
    \E p \in DOMAIN s :
        /\ s[p].do = "there" /\ Tested(s, p, x, i) /\ i \in Block(s, p)
        /\ Loses(s, x) \cap (p + 1)..(i - 1) = {}
Missed(s, x, i) ==
    \E p \in DOMAIN s :
        /\ Tested(s, p, x, i)
        /\ Brings(s, x) \cap (p + 1)..(i - 1) = {}
        /\ \/ s[p].do = "lacks" /\ i \in Block(s, p)
           \/ LET q == p + s[p].leap IN
              /\ s[p].do = "there" /\ q \in (p + 1)..(i - 1) /\ Ends(s, q)
              /\ \A j \in (p + 1)..(q - 1) : j + s[j].leap < q

(* x is only ever made, and only where there is none.                      *)
MadeOnce(s, x) ==
    /\ Loses(s, x) = {}
    /\ \A i \in Brings(s, x) : s[i].do = "make" /\ s[i].nth = 1 /\ Missed(s, x, i)

-----------------------------------------------------------------------------
(* Whatever the user is asked about comes after a prompt, or in the part   *)
(* that is offered to him; in a dry run, after the step that ends it.      *)
Asks(s, c, f) ==
    \A i \in Changing(s) :
        \/ Dead(s, i)
        \/ /\ "dry_run" \in f => s[i].what \in Prepared
           /\ \/ ~ Concerns(c, s[i].what) \/ f \cap {"yes", "force"} # {}
              \/ \E p \in DOMAIN s :
                     /\ Guards(s, p, i)
                     /\ \/ s[p].do = "ask"
                        \/ s[p].do = "offer" /\ s[p].what = s[i].what /\ i \in Block(s, p)

(* A change that a test may pass over although it is owed.                 *)
Skippable(s, m) ==
    \E j \in DOMAIN s :
        /\ m \in Block(s, j)
        /\ \/ s[j].do = "there"
           \/ s[j].do = "lacks" /\ ~ (s[j].what = s[m].what /\ MadeOnce(s, s[m].what))

Insists(s, m, upto) ==
    \E k \in Changing(s) : k < upto /\ Debt(s, k) = Debt(s, m) /\ ~ Skippable(s, k)

(* A failure is passed over in silence only where that is known; what a    *)
(* test passes over is made elsewhere, and so is, before a step that ends  *)
(* the command well, all that may be owed there.                           *)
Tells(s, silent) ==
    /\ \A i \in DOMAIN s :
           "pass" \in s[i].miss => \A m \in Changing(s) \cap Block(s, i) : s[m].what \in silent
    /\ \A m \in Changing(s) :
           \/ s[m].what \in silent
           \/ /\ s[m].miss \cap {"quiet", "pass"} = {}
              /\ \/ Dead(s, m)
                 \/ /\ Insists(s, m, Len(s) + 1)
                    /\ \A q \in DOMAIN s : s[q].do = "quit" =>
                           \/ Insists(s, m, q)
                           \/ MadeOnce(s, s[m].what) /\ Found(s, s[m].what, q)

(* The key and the running binary go only when there is a copy, and the    *)
(* copy only when they have not gone or there is another.                  *)
Precious == {"key", "binary"}
KeepsCopy(s) ==
    \A x \in Precious :
        /\ \A i \in Loses(s, x) :
               (s[i].do = "move" /\ s[i].into = "backup") \/ Secured(s, "backup", i)
        /\ Loses(s, x) = {}
             \/ \A i \in Loses(s, "backup") :
                    \/ Secured(s, x, i)
                    \/ x = "binary" /\ Loses(s, x) \cap 1..(i - 1) = {}

(* A step passes over steps of its own script.                             *)
IsScript(s) ==
    /\ s \in Seq([do : STRING, what : STRING, nth : Nat, into : STRING, miss : SUBSET STRING,
                  leap : Nat])
    /\ \A i \in DOMAIN s : i + s[i].leap <= Len(s)

Rules(s, c, f) ==
    /\ IsScript(s)
    /\ Asks(s, c, f)
    /\ Tells(s, Untold(c, f))
    /\ "no_backup" \notin f => KeepsCopy(s)

ScriptsKeepRules ==
    \A c \in DOMAIN G!Flags : \A f \in SUBSET G!Flags[c] : Rules(Script[c][f], c, f)

=============================================================================

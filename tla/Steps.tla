-------------------------------- MODULE Steps --------------------------------
(***************************************************************************)
(* What the handlers of azlin's commands are made of.  A handler is a      *)
(* script, a sequence of steps; each asks, reads or changes something,     *)
(* and may fail.  Modules Scripts* write the handlers down in this form,   *)
(* Commands runs them.                                                     *)
(***************************************************************************)
EXTENDS Naturals, Sequences

(* what is what the step is about (nth, of which item of a list), and into *)
(* what a change moves it; miss what may become of the command when the    *)
(* step fails: it ends with an error ("stop"), prints so and goes on       *)
(* ("note"), prints so and turns to its next item ("next"), or does one of *)
(* these without a word ("quiet", "pass").  leap is how many steps a step  *)
(* passes over that jumps.                                                 *)
Step(do, what) ==
    <<[do |-> do, what |-> what, nth |-> 1, into |-> "", miss |-> {"stop"}, leap |-> 0]>>

(* A read or a condition without which the command ends with an error.     *)
Need(x) == Step("need", x)

(* A search; the command ends well if nothing is found.                    *)
Find(x) == Step("find", x)

(* Changes: x is brought about, destroyed, moved to y.                     *)
Make(x) == Step("make", x)
Drop(x) == Step("drop", x)
Move(x, y) == <<[Step("move", x)[1] EXCEPT !.into = y]>>

(* The command ends, well or not; it ends with an error if a step failed,  *)
(* or one about x; it waits for Ctrl-C.                                    *)
Quit       == Step("quit", "")
Bail       == Step("bail", "")
Tally      == Step("tally", "")
TallyOf(x) == Step("tally", x)
Forever    == Step("wait", "")

(* safe_confirm: no prompt with the flag, and an error without a terminal. *)
AskUnless(skip) == IF skip THEN <<>> ELSE Step("ask", "")

(* A question about x alone: after a no, or without a terminal, s is left  *)
(* out and the command goes on.                                            *)
OfferUnless(skip, x, s) ==
    IF skip THEN s ELSE <<[Step("offer", x)[1] EXCEPT !.leap = Len(s)]>> \o s

(* Other outcomes of a failure; one that another step stands for.          *)
Sure(s) == [i \in DOMAIN s |-> [s[i] EXCEPT !.miss = {}]]
Noted(s) == [i \in DOMAIN s |-> [s[i] EXCEPT !.miss = {"note"}]]
Quiet(s) == [i \in DOMAIN s |-> [s[i] EXCEPT !.miss = {"quiet"}]]
Skips(s) == [i \in DOMAIN s |-> [s[i] EXCEPT !.miss = {"next"}]]
Passes(s) == [i \in DOMAIN s |-> [s[i] EXCEPT !.miss = {"pass"}]]

(* A program that is run: not starting it is an error, its bad exit not.   *)
OrStops(s) == [i \in DOMAIN s |-> [s[i] EXCEPT !.miss = @ \cup {"stop"}]]

(* A branch on something the model leaves out, on what is there, a flag.   *)
When(s) == <<[Step("when", "")[1] EXCEPT !.leap = Len(s)]>> \o s
Past(s) == <<[Step("jump", "")[1] EXCEPT !.leap = Len(s)]>>
Either(s, t) == When(s \o Past(t)) \o t
IfThere(x, s) == <<[Step("there", x)[1] EXCEPT !.leap = Len(s)]>> \o s
Unless(x, s) == <<[Step("lacks", x)[1] EXCEPT !.leap = Len(s)]>> \o s
If(b, s) == IF b THEN s ELSE <<>>

(* One item of a list, and two of them: enough for a failure to have one   *)
(* before and one after it.  An item may be part of another one.           *)
Item(s) == [i \in DOMAIN s |->
    IF s[i].miss \cap {"next", "pass"} # {} /\ s[i].leap = 0
    THEN [s[i] EXCEPT !.leap = Len(s) - i] ELSE s[i]]
Each(s) == Item(s) \o [i \in DOMAIN s |-> [Item(s)[i] EXCEPT !.nth = 2]]

=============================================================================

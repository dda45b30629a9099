----------------------------- MODULE MCListing -----------------------------
(* Instances of Listing.                                                   *)
EXTENDS Listing, TLC

CONSTANTS s1, s2, g1, g2, n, m, x, y

Vm(sub_, rg_, name_) == [sub |-> sub_, rg |-> rg_, name |-> name_]

(* n is in two groups of s1 and in s2 as well; m is in one.              *)
Fleet == {Vm(s1, g1, n), Vm(s1, g2, n), Vm(s2, g1, n), Vm(s1, g1, m)}

Pin(sub_, rg_) == [sub |-> sub_, rg |-> rg_]
Command(mode, ctx, rg_, every) ==
    [mode |-> mode, ctx |-> ctx, rg |-> rg_, home |-> g1, every |-> every, find |-> x]

Commands ==
    {Command("group", <<>>, g1, TRUE), Command("all", <<>>, g1, FALSE),
     Command("restore", <<>>, g2, FALSE), Command("connect", <<>>, g1, FALSE),
     Command("contexts", <<Pin(s1, g1), Pin(s1, g2)>>, g1, FALSE),
     Command("contexts", <<Pin(s1, g1), Pin(s2, g1)>>, g1, FALSE),
     Command("contexts", <<Pin(None, g1), Pin(s2, None), Pin(s1, g1)>>, g1, FALSE)}

=============================================================================

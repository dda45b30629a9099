---------------------------- MODULE MCLocalState ----------------------------
(* Instances of LocalState.                                                *)
EXTENDS LocalState, TLC

CONSTANTS a, b, s1, s2, g1, g2, group, region, x, y

Pin(sub, rg) == [sub |-> sub, rg |-> rg]
Context(op, flag, profile, force) ==
    [op |-> op, name |-> a, to |-> b, pins |-> Pin(s1, g1), flag |-> flag,
     profile |-> profile, force |-> force]

CtxCommands ==
    {Context("use", None, None, FALSE), Context("delete", None, None, FALSE),
     Context("rename", None, None, FALSE), Context("migrate", None, None, TRUE),
     Context("run", None, None, FALSE), Context("run", g2, s2, FALSE),
     Context("test", None, s2, FALSE), Context("none", None, None, FALSE),
     [Context("create", None, None, FALSE) EXCEPT !.pins = Pin(s2, None)]}

Setting(op, key, val) == [op |-> op, key |-> key, val |-> val]
CfgCommands ==
    {Setting("set", group, g1), Setting("set", region, g1), Setting("init", group, g1),
     Setting("none", group, g1)}
BuiltIn == [k \in {group, region} |-> None]
Edited == [BuiltIn EXCEPT ![group] = g2]

Forward(op, vm, all, ports) == [op |-> op, vm |-> vm, all |-> all, ports |-> ports]
TunCommands ==
    {Forward("open", x, FALSE, 1), Forward("open", y, FALSE, 2), Forward("list", x, FALSE, 0),
     Forward("close", x, FALSE, 0), Forward("close", y, TRUE, 0), Forward("none", x, FALSE, 0)}

(* Nothing tells the users apart.                                          *)
Symmetry == Permutations(Users)

=============================================================================

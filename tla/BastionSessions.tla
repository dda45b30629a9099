--------------------------- MODULE BastionSessions ---------------------------
(***************************************************************************)
(* What a bastion tunnel promises about tokens and sessions, with nothing  *)
(* said of caches, mutexes, clocks or expiry.  A caller that wants to talk *)
(* to the Bastion asks for a token; az is called for one caller at a time; *)
(* a caller that has been served opens at most one session, and does not   *)
(* leave without giving it back, unless it cannot.                         *)
(***************************************************************************)
CONSTANT Callers

VARIABLES
    state,  \* state[c]: how far caller c has got
    open,   \* the callers whose session is open at the Bastion
    lost    \* those whose session nobody is going to give back

vars == <<state, open, lost>>

Init ==
    /\ state \in [Callers -> {"idle", "waiting"}]
    /\ open = {} /\ lost = {}

Move(c, from, to) ==
    /\ state[c] \in from
    /\ state' = [state EXCEPT ![c] = to]

(* Another connection, in the place of one that has ended.                 *)
Ask(c) ==
    /\ Move(c, {"idle"}, "waiting")
    /\ open' = open \ {c} /\ lost' = lost \ {c}

Call(c) ==
    /\ \A d \in Callers : state[d] # "calling"
    /\ Move(c, {"waiting"}, "calling")
    /\ UNCHANGED <<open, lost>>

Serve(c) ==
    /\ Move(c, {"waiting", "calling"}, "served")
    /\ UNCHANGED <<open, lost>>

(* The caller is told of a failure, or gives up.                           *)
Refuse(c) ==
    /\ Move(c, {"waiting", "calling", "served"}, "idle")
    /\ UNCHANGED <<open, lost>>

Begin(c) ==
    /\ Move(c, {"served"}, "using")
    /\ open' = open \cup {c}
    /\ UNCHANGED lost

(* The session was opened, and its caller never hears of it.               *)
Lose(c) ==
    /\ Move(c, {"served"}, "idle")
    /\ open' = open \cup {c} /\ lost' = lost \cup {c}

GiveBack(c) ==
    /\ Move(c, {"using"}, "idle")
    /\ \/ open' = open \ {c} /\ UNCHANGED lost
       \/ lost' = lost \cup {c} /\ UNCHANGED open

(* The process goes away, and another one takes its place.                 *)
Crash ==
    /\ state' = [c \in Callers |-> "idle"]
    /\ lost' = lost \cup open
    /\ UNCHANGED open

Restart(c) ==
    /\ \A d \in Callers : state[d] = "idle"
    /\ state' = [state EXCEPT ![c] = "waiting"]
    /\ open' = {} /\ lost' = {}

Next ==
    \/ \E c \in Callers :
          \/ Ask(c) \/ Call(c) \/ Serve(c) \/ Refuse(c) \/ Begin(c) \/ Lose(c)
          \/ GiveBack(c) \/ Restart(c)
    \/ Crash

Spec == Init /\ [][Next]_vars

=============================================================================

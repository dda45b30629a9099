---------------------------- MODULE NativeTunnel ----------------------------
(***************************************************************************)
(* The native bastion tunnel of one azlin process (crate azlin-azure,      *)
(* native_tunnel.rs, with the token provider of azlin, bastion_tunnel.rs). *)
(*                                                                         *)
(* The opener verifies the tunnel with one token exchange; then every      *)
(* accepted TCP connection gets an ARM token from the shared TokenCache,   *)
(* exchanges it for a Bastion session, dials the WebSocket, forwards, and  *)
(* gives the session back.  The cache holds its mutex while the provider,  *)
(* an `az` process on a blocking thread, runs; a timeout bounds the wait   *)
(* and leaves the `az` behind.  The async runtime of the process cannot be *)
(* dropped while such a thread runs.                                       *)
(*                                                                         *)
(* Time is what is left of the tokens.  `left` is what the monotonic clock *)
(* of the process says is left, `real` what the Bastion says.  A timer may *)
(* go off at any moment: only what it does is modelled, not its length.    *)
(***************************************************************************)
EXTENDS Integers

CONSTANTS
    Conns,      \* TCP connections (each may come again after it has ended)
    Opener,     \* open_tunnel_with_timeouts, verifying the tunnel
    MaxLife,    \* bound: the longest lifetime of a token
    Fraction,   \* 1 / REFRESH_FRACTION
    MinMargin   \* MIN_REFRESH_MARGIN

ASSUME ConstantsAssumption ==
    /\ Opener \notin Conns
    /\ MaxLife \in Nat \ {0} /\ Fraction \in Nat \ {0} /\ MinMargin \in Nat

VARIABLES
    tunnel,     \* the life of the process
    accepting,  \* the accept loop runs
    pc,         \* pc[c]: where connection c, or the opener, is
    cached,     \* TokenCache.inner
    hand,       \* hand[c]: the token c presents to the Bastion
    session,    \* the callers that have a session at the Bastion
    excused,    \* those whose session azlin cannot know of or cannot end
    stray,      \* an abandoned `az` of this process still runs
    primed      \* history: waiters a comfortable token was stored for

vars == <<tunnel, accepting, pc, cached, hand, session, excused, stray, primed>>

Callers == Conns \cup {Opener}

-----------------------------------------------------------------------------
(* Tokens.  A token of unknown expiry, and no token at all, count as       *)
(* expired: nothing of `left` is known.                                    *)

Span == 0..MaxLife
Token == [life : Span, left : Span, real : Span]
NoToken == [life |-> 0, left |-> 0, real |-> 0]

Minted(r, known) == IF known THEN [life |-> r, left |-> r, real |-> r]
                             ELSE [life |-> 0, left |-> 0, real |-> r]

\* Altered: without the absolute floor.
RefreshMargin_NoFloor(t) == t.life \div Fraction

RefreshMargin(t) ==
    IF t.life \div Fraction > MinMargin THEN t.life \div Fraction ELSE MinMargin

NeedsRefresh(t) == t.left <= RefreshMargin(t)
\* Altered: a failed refresh always falls back on the cache.
HardExpired_Never(t) == FALSE

HardExpired(t) == t.left = 0

(* What a caller holds: the rest of its token, how it came by it, and the  *)
(* ticks since (counted up to one more than MinMargin).                    *)
Hand == [left : Span, real : Span, via : {"none", "cache", "az", "reuse"},
         since : 0..(MinMargin + 1)]
Empty == [left |-> 0, real |-> 0, via |-> "none", since |-> 0]

Less(n) == IF n = 0 THEN 0 ELSE n - 1

-----------------------------------------------------------------------------
Init ==
    /\ tunnel = "opening" /\ accepting = FALSE
    /\ pc = [c \in Callers |-> IF c = Opener THEN "lock" ELSE "idle"]
    /\ cached = NoToken
    /\ hand = [c \in Callers |-> Empty]
    /\ session = {} /\ excused = {} /\ stray = FALSE /\ primed = {}

Waiting == {c \in Callers : pc[c] = "lock"}
Unlocked == \A c \in Callers : pc[c] # "fetch"

Goto(c, l) == pc' = [pc EXCEPT ![c] = l]

(* A caller comes to its end: an opener's failure fails the command.       *)
End(c) ==
    /\ Goto(c, "idle")
    /\ hand' = [hand EXCEPT ![c] = Empty]
    /\ tunnel' = IF c = Opener THEN "ending" ELSE tunnel

(* get_valid_token returns a token to c.                                   *)
Receive(c, t, how) ==
    /\ Goto(c, "exchange")
    /\ hand' = [hand EXCEPT ![c] = [left |-> t.left, real |-> t.real,
                                    via |-> how, since |-> 0]]
    /\ UNCHANGED tunnel

-----------------------------------------------------------------------------
(* TokenCache.get_valid_token.  The mutex is held exactly while a caller   *)
(* is at "fetch": everything else under it runs without an await.          *)

FastPath(c) ==
    /\ pc[c] = "lock" /\ Unlocked /\ ~NeedsRefresh(cached)
    /\ Receive(c, cached, "cache")
    /\ primed' = primed \ {c}
    /\ UNCHANGED <<accepting, cached, session, excused, stray>>

\* Altered: freshness is not checked again under the mutex.
CallProvider_NoRecheck(c) ==
    /\ pc[c] = "lock" /\ Unlocked
    /\ Goto(c, "fetch")
    /\ primed' = primed \ {c}
    /\ UNCHANGED <<tunnel, accepting, cached, hand, session, excused, stray>>

CallProvider(c) ==
    /\ pc[c] = "lock" /\ Unlocked /\ NeedsRefresh(cached)
    /\ Goto(c, "fetch")
    /\ primed' = primed \ {c}
    /\ UNCHANGED <<tunnel, accepting, cached, hand, session, excused, stray>>

(* `az` answers with a token the Bastion accepts, its expiresOn readable   *)
(* or not.                                                                 *)
ProviderAnswers(c) ==
    /\ pc[c] = "fetch"
    /\ \E r \in 1..MaxLife, known \in BOOLEAN :
        /\ cached' = Minted(r, known)
        /\ Receive(c, cached', "az")
        /\ primed' = IF NeedsRefresh(cached') THEN primed ELSE Waiting
    /\ UNCHANGED <<accepting, session, excused, stray>>

(* The Err branch: reuse what has not hard-expired, or give up.            *)
ReuseOrFail(c) ==
    IF HardExpired(cached) THEN End(c) ELSE Receive(c, cached, "reuse")

ProviderFails(c) ==
    /\ pc[c] = "fetch"
    /\ ReuseOrFail(c)
    /\ UNCHANGED <<accepting, cached, session, excused, stray, primed>>

\* Altered: the provider is awaited without a bound.
RefreshTimeout_Never(c) == FALSE /\ UNCHANGED vars

(* The provider's future is dropped; its `az` runs on.                     *)
RefreshTimeout(c) ==
    /\ pc[c] = "fetch"
    /\ ReuseOrFail(c)
    /\ stray' = TRUE
    /\ UNCHANGED <<accepting, cached, session, excused, primed>>

(* The last of the abandoned `az` processes ends.                          *)
StrayEnds ==
    /\ stray
    /\ stray' = FALSE
    /\ UNCHANGED <<tunnel, accepting, pc, cached, hand, session, excused, primed>>

-----------------------------------------------------------------------------
(* handle_client, and the verification in open_tunnel_with_timeouts.       *)

Accept(c) ==
    /\ tunnel = "up" /\ accepting
    /\ c \in Conns /\ pc[c] = "idle"
    /\ Goto(c, "lock")
    /\ session' = session \ {c} /\ excused' = excused \ {c}
    /\ UNCHANGED <<tunnel, accepting, cached, hand, stray, primed>>

AcceptFails ==
    /\ tunnel = "up" /\ accepting
    /\ accepting' = FALSE
    /\ UNCHANGED <<tunnel, pc, cached, hand, session, excused, stray, primed>>

(* The Bastion opens a session for a token that lives; the opener gives it *)
(* back at once, a connection dials.                                       *)
ExchangeOk(c) ==
    /\ pc[c] = "exchange" /\ hand[c].real > 0
    /\ Goto(c, IF c = Opener THEN "cleanup" ELSE "dial")
    /\ hand' = [hand EXCEPT ![c] = Empty]
    /\ session' = session \cup {c}
    /\ UNCHANGED <<tunnel, accepting, cached, excused, stray, primed>>

(* The request fails, the Bastion refuses the token, or the time is up.    *)
ExchangeFails(c) ==
    /\ pc[c] = "exchange"
    /\ End(c)
    /\ UNCHANGED <<accepting, cached, session, excused, stray, primed>>

(* The session is opened and the answer is lost, or cannot be parsed.      *)
ReplyLost(c) ==
    /\ pc[c] = "exchange" /\ hand[c].real > 0
    /\ End(c)
    /\ session' = session \cup {c} /\ excused' = excused \cup {c}
    /\ UNCHANGED <<accepting, cached, stray, primed>>

DialOk(c) ==
    /\ pc[c] = "dial"
    /\ Goto(c, "forward")
    /\ UNCHANGED <<tunnel, accepting, cached, hand, session, excused, stray, primed>>

\* Altered: a failed dial returns at once.
DialFails_NoCleanup(c) ==
    /\ pc[c] = "dial"
    /\ Goto(c, "idle")
    /\ UNCHANGED <<tunnel, accepting, cached, hand, session, excused, stray, primed>>

DialFails(c) ==
    /\ pc[c] = "dial"
    /\ Goto(c, "cleanup")
    /\ UNCHANGED <<tunnel, accepting, cached, hand, session, excused, stray, primed>>

\* Altered: the end of a connection is the end of its task.
ForwardEnds_NoCleanup(c) ==
    /\ pc[c] = "forward"
    /\ Goto(c, "idle")
    /\ UNCHANGED <<tunnel, accepting, cached, hand, session, excused, stray, primed>>

(* Either side of the connection ends it.                                  *)
ForwardEnds(c) ==
    /\ pc[c] = "forward"
    /\ Goto(c, "cleanup")
    /\ UNCHANGED <<tunnel, accepting, cached, hand, session, excused, stray, primed>>

(* cleanup_token: the DELETE succeeds or not.  The opener's is the last    *)
(* step before the accept loop is spawned.                                 *)
Cleanup(c) ==
    /\ pc[c] = "cleanup"
    /\ Goto(c, "idle")
    /\ \/ session' = session \ {c} /\ UNCHANGED excused
       \/ excused' = excused \cup {c} /\ UNCHANGED session
    /\ tunnel' = IF c = Opener THEN "up" ELSE tunnel
    /\ accepting' = (accepting \/ c = Opener)
    /\ UNCHANGED <<cached, hand, stray, primed>>

(* The timeout around the whole verification drops it where it is: the     *)
(* mutex with it, and a session it may just have been given.               *)
VerifyTimeout ==
    /\ pc[Opener] \in {"lock", "fetch", "exchange"}
    /\ End(Opener)
    /\ stray' = (stray \/ pc[Opener] = "fetch")
    /\ \/ UNCHANGED <<session, excused>>
       \/ /\ pc[Opener] = "exchange" /\ hand[Opener].real > 0
          /\ session' = session \cup {Opener} /\ excused' = excused \cup {Opener}
    /\ primed' = primed \ {Opener}
    /\ UNCHANGED <<accepting, cached>>

-----------------------------------------------------------------------------
(* The process.                                                            *)

(* The command is done: main drops the runtime, and with it every task.    *)
Leave ==
    /\ tunnel = "up"
    /\ tunnel' = "ending" /\ accepting' = FALSE
    /\ pc' = [c \in Callers |-> "idle"] /\ hand' = [c \in Callers |-> Empty]
    /\ stray' = (stray \/ ~Unlocked)
    /\ excused' = excused \cup session
    /\ cached' = NoToken /\ primed' = {}
    /\ UNCHANGED session

(* Dropping the runtime waits for the blocking threads that run.           *)
RuntimeDropped ==
    /\ tunnel = "ending" /\ ~stray
    /\ tunnel' = "gone"
    /\ UNCHANGED <<accepting, pc, cached, hand, session, excused, stray, primed>>

(* A signal, or process::exit.                                             *)
Killed ==
    /\ tunnel # "gone"
    /\ tunnel' = "gone" /\ accepting' = FALSE
    /\ pc' = [c \in Callers |-> "idle"] /\ hand' = [c \in Callers |-> Empty]
    /\ excused' = excused \cup session
    /\ cached' = NoToken /\ stray' = FALSE /\ primed' = {}
    /\ UNCHANGED session

(* Another process opens a tunnel of its own.                              *)
Open ==
    /\ tunnel = "gone"
    /\ tunnel' = "opening" /\ Goto(Opener, "lock")
    /\ cached' = NoToken
    /\ session' = {} /\ excused' = {} /\ primed' = {}
    /\ UNCHANGED <<accepting, hand, stray>>

(* A unit of time passes for both clocks.                                  *)
Aged(h) == [h EXCEPT !.left = Less(@), !.real = Less(@),
                     !.since = IF @ > MinMargin THEN @ ELSE @ + 1]

Tick ==
    /\ cached' = [cached EXCEPT !.left = Less(@), !.real = Less(@)]
    /\ hand' = [c \in Callers |->
                  IF pc[c] = "exchange" THEN Aged(hand[c]) ELSE hand[c]]
    /\ primed' = {}
    /\ UNCHANGED <<tunnel, accepting, pc, session, excused, stray>>

(* The machine sleeps for longer than a token lives: Instant stands still. *)
Suspend ==
    /\ cached' = [cached EXCEPT !.real = 0]
    /\ hand' = [c \in Callers |-> [hand[c] EXCEPT !.real = 0]]
    /\ UNCHANGED <<tunnel, accepting, pc, session, excused, stray, primed>>

-----------------------------------------------------------------------------
Client(c) ==
    \/ FastPath(c) \/ CallProvider(c) \/ ProviderAnswers(c) \/ ProviderFails(c)
    \/ RefreshTimeout(c)
    \/ Accept(c) \/ ExchangeOk(c) \/ ExchangeFails(c) \/ ReplyLost(c)
    \/ DialOk(c) \/ DialFails(c) \/ ForwardEnds(c) \/ Cleanup(c)

Next ==
    \/ \E c \in Callers : Client(c)
    \/ AcceptFails \/ VerifyTimeout \/ StrayEnds
    \/ Leave \/ RuntimeDropped \/ Killed \/ Open
    \/ Tick \/ Suspend

Spec == Init /\ [][Next]_vars

(* What is sure to happen: tokio's mutex is fair, so a waiter is served    *)
(* again and again until it is its turn; timers go off; HTTP calls are     *)
(* bounded by the client's timeout; main goes on to drop the runtime.      *)
(* Nothing is assumed of `az`, of the WebSocket dial, or of the clients.   *)
Fairness ==
    /\ \A c \in Callers :
        /\ SF_vars(FastPath(c) \/ CallProvider(c))
        /\ WF_vars(RefreshTimeout(c))
        /\ WF_vars(ExchangeOk(c) \/ ExchangeFails(c) \/ ReplyLost(c))
        /\ WF_vars(Cleanup(c))
    /\ WF_vars(VerifyTimeout) /\ WF_vars(RuntimeDropped)

FairSpec == Spec /\ Fairness

-----------------------------------------------------------------------------
(* Every variable has its type, and a caller is where it can be.           *)
TypeOK ==
    /\ tunnel \in {"opening", "up", "ending", "gone"}
    /\ accepting \in BOOLEAN
    /\ pc \in [Callers -> {"idle", "lock", "fetch", "exchange", "dial",
                           "forward", "cleanup"}]
    /\ cached \in Token
    /\ hand \in [Callers -> Hand]
    /\ session \subseteq Callers /\ excused \subseteq Callers
    /\ stray \in BOOLEAN /\ primed \subseteq Callers

(* A batch of connections that arrives across the expiry boundary does not *)
(* start a herd of `az` processes: a caller starts one only if no other    *)
(* call is awaited, and never when a token that is still comfortable was   *)
(* stored while it waited for the mutex.                                   *)
NoHerd ==
    [][\A c \in Callers : pc[c] # "fetch" /\ pc'[c] = "fetch" =>
          /\ \A d \in Callers \ {c} : pc'[d] # "fetch"
          /\ c \notin primed]_vars

(* The tunnel is an implementation of BastionSessions: whatever the cache, *)
(* the clocks and the timeouts do, az is called for one caller at a time,  *)
(* only a caller with a token opens a session, and each session is given   *)
(* back by the caller that opened it, or is lost with its answer, its      *)
(* DELETE or its process.                                                  *)
Phase(l) ==
    CASE l = "idle" -> "idle"
      [] l = "lock" -> "waiting"
      [] l = "fetch" -> "calling"
      [] l = "exchange" -> "served"
      [] OTHER -> "using"

Sessions == INSTANCE BastionSessions
                WITH state <- [c \in Callers |-> Phase(pc[c])],
                     open <- session, lost <- excused

KeepsItsSessions == Sessions!Spec

(* If the machine has not slept since the cached token was stored, the     *)
(* cache hands out no token that the Bastion no longer accepts.            *)
ClocksAgree == cached.left = cached.real \/ cached.life = 0

TokenIsAliveUnlessSlept ==
    [][\A c \in Callers :
          pc[c] # "exchange" /\ pc'[c] = "exchange" /\ ClocksAgree
              => hand'[c].real > 0]_vars

(* A token taken from the cache without a refresh outlives the exchange,   *)
(* if that takes no longer than the least margin and the machine does not  *)
(* sleep: no connection fails because its token ran out between the check  *)
(* and the use.                                                            *)
TokenOutlivesExchange ==
    \A c \in Callers :
        pc[c] = "exchange" /\ hand[c].via = "cache" /\ hand[c].since <= MinMargin
           /\ hand[c].left = hand[c].real => hand[c].real > 0

(* On every path - a failed verification, a failed dial, the end of either *)
(* side - a caller that has ended has given its session back, unless its   *)
(* answer was lost, its DELETE failed or its process went away.            *)
SessionsAreReturned ==
    \A c \in session : pc[c] = "idle" => c \in excused

(* A hung `az` stalls nobody for good: whoever waits for the cache gets an *)
(* answer, a token or an error.                                            *)
WaitersProceed ==
    \A c \in Callers :
        pc[c] \in {"lock", "fetch"} ~> pc[c] \notin {"lock", "fetch"}

=============================================================================

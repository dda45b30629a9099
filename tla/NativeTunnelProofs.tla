------------------------- MODULE NativeTunnelProofs -------------------------
(***************************************************************************)
(* What NativeTunnel keeps true for every number of connections, every     *)
(* token lifetime and every refresh margin.                                *)
(***************************************************************************)
EXTENDS NativeTunnel, TLAPS

USE ConstantsAssumption DEF Callers

-----------------------------------------------------------------------------
(* Arithmetic of tokens, once and for all.                                 *)

LEMMA LessInSpan == \A n \in Span : Less(n) \in Span
BY DEF Less, Span

LEMMA MintedIsToken ==
    \A r \in Span, known \in BOOLEAN : Minted(r, known) \in Token
<1> SUFFICES ASSUME NEW r \in Span, NEW known \in BOOLEAN
             PROVE  Minted(r, known) \in Token
    OBVIOUS
<1>1. CASE known
    BY <1>1 DEF Minted, Token, Span
<1>2. CASE ~known
    BY <1>2 DEF Minted, Token, Span
<1> QED BY <1>1, <1>2

(* A token that does not need a refresh has more left than the least       *)
(* margin.                                                                 *)
LEMMA ComfortableMargin ==
    ASSUME NEW t \in Token, ~NeedsRefresh(t)
    PROVE  t.left > MinMargin
<1>1. t.life \in Nat /\ t.left \in Nat
    BY DEF Token, Span
<1>2. t.life \div Fraction \in Nat
    BY <1>1, SMT
<1> QED BY <1>1, <1>2 DEF NeedsRefresh, RefreshMargin

LEMMA AgedIsHand ==
    ASSUME NEW h \in Hand PROVE Aged(h) \in Hand
<1>1. Less(h.left) \in Span /\ Less(h.real) \in Span
    BY LessInSpan DEF Hand
<1>2. (IF h.since > MinMargin THEN h.since ELSE h.since + 1) \in 0..(MinMargin + 1)
    BY DEF Hand
<1>3. h \in Hand
    OBVIOUS
<1> HIDE ConstantsAssumption
<1> QED BY <1>1, <1>2, <1>3, Zenon DEF Aged, Hand

(* What a caller receives is a hand.                                       *)
Held(t, how) == [left |-> t.left, real |-> t.real, via |-> how, since |-> 0]

LEMMA HeldIsHand ==
    ASSUME NEW t \in Token, NEW how \in {"cache", "az", "reuse"}
    PROVE  Held(t, how) \in Hand
BY DEF Held, Token, Hand, Span

LEMMA EmptyIsHand == Empty \in Hand
BY DEF Empty, Hand, Span

LEMMA NoTokenIsToken == NoToken \in Token
BY DEF NoToken, Token, Span

-----------------------------------------------------------------------------
(* The inductive invariant.                                                *)

(* The mutex: at most one caller awaits the provider.                      *)
OneAtTheProvider ==
    \A c, d \in Callers : pc[c] = "fetch" /\ pc[d] = "fetch" => c = d

(* What is left of a token taken from the cache, and the time since, sum   *)
(* up to more than the least margin.                                       *)
MarginIsSpent ==
    \A c \in Callers :
        pc[c] = "exchange" /\ hand[c].via = "cache" =>
            hand[c].left + hand[c].since > MinMargin

(* A caller that has not got so far has no session yet; one that has ended *)
(* has none that it could give back.                                       *)
SessionPhases ==
    \A c \in session :
        /\ pc[c] \notin {"lock", "fetch", "exchange"}
        /\ pc[c] = "idle" => c \in excused

Inv == TypeOK /\ OneAtTheProvider /\ MarginIsSpent /\ SessionPhases

-----------------------------------------------------------------------------
LEMMA InitInv == Init => Inv
<1> SUFFICES ASSUME Init PROVE Inv
    OBVIOUS
<1> USE DEF Init
<1>1. TypeOK
    BY EmptyIsHand, NoTokenIsToken DEF TypeOK
<1>2. OneAtTheProvider
    BY DEF OneAtTheProvider
<1>3. MarginIsSpent
    BY DEF MarginIsSpent
<1>4. SessionPhases
    BY DEF SessionPhases
<1> QED BY <1>1, <1>2, <1>3, <1>4 DEF Inv

-----------------------------------------------------------------------------
(* Where a caller can be, as TypeOK says.                                  *)
Places == {"idle", "lock", "fetch", "exchange", "dial", "forward", "cleanup"}

(* One caller moves: what that does to the parts of the invariant that     *)
(* speak of pc and hand.                                                   *)
LEMMA GotoKeeps ==
    ASSUME Inv, NEW c \in Callers, NEW l \in Places \ {"exchange"},
           Goto(c, l), l = "fetch" => Unlocked,
           hand' = hand \/ hand' = [hand EXCEPT ![c] = Empty]
    PROVE  /\ pc' \in [Callers -> Places] /\ hand' \in [Callers -> Hand]
           /\ OneAtTheProvider' /\ MarginIsSpent'
<1> USE DEF Inv, TypeOK, Goto, Places
<1>1. pc' \in [Callers -> Places]
    OBVIOUS
<1>2. hand' \in [Callers -> Hand]
    BY EmptyIsHand
<1>3. OneAtTheProvider'
    BY DEF OneAtTheProvider, Unlocked
<1>4. MarginIsSpent'
    <2> SUFFICES ASSUME NEW d \in Callers, pc'[d] = "exchange", hand'[d].via = "cache"
                 PROVE  hand'[d].left + hand'[d].since > MinMargin
        BY DEF MarginIsSpent
    <2>1. d # c /\ pc[d] = "exchange" /\ hand'[d] = hand[d]
        OBVIOUS
    <2> QED BY <2>1 DEF MarginIsSpent
<1> QED BY <1>1, <1>2, <1>3, <1>4

LEMMA ReceiveKeeps ==
    ASSUME Inv, NEW c \in Callers, NEW t \in Token, NEW how \in {"cache", "az", "reuse"},
           Receive(c, t, how), how = "cache" => t.left > MinMargin
    PROVE  /\ pc' \in [Callers -> Places] /\ hand' \in [Callers -> Hand]
           /\ OneAtTheProvider' /\ MarginIsSpent'
<1> USE DEF Inv, TypeOK, Receive, Goto, Places
<1>1. pc' \in [Callers -> Places]
    OBVIOUS
<1>2. hand' = [hand EXCEPT ![c] = Held(t, how)]
    BY DEF Held
<1>3. hand' \in [Callers -> Hand]
    BY <1>2, HeldIsHand
<1>4. OneAtTheProvider'
    BY DEF OneAtTheProvider
<1>5. MarginIsSpent'
    <2> SUFFICES ASSUME NEW d \in Callers, pc'[d] = "exchange", hand'[d].via = "cache"
                 PROVE  hand'[d].left + hand'[d].since > MinMargin
        BY DEF MarginIsSpent
    <2>1. CASE d = c
        <3>1. hand'[d] = Held(t, how)
            BY <2>1, <1>2
        <3>2. how = "cache" /\ t.left \in Nat
            BY <3>1 DEF Held, Token, Span
        <3> QED BY <3>1, <3>2 DEF Held
    <2>2. CASE d # c
        <3>1. pc[d] = "exchange" /\ hand'[d] = hand[d]
            BY <2>2, <1>2
        <3> QED BY <3>1 DEF MarginIsSpent
    <2> QED BY <2>1, <2>2
<1> QED BY <1>1, <1>3, <1>4, <1>5

(* The Err branch of the cache leaves the caller with a token or ends it.  *)
LEMMA ReuseOrFailKeeps ==
    ASSUME Inv, NEW c \in Callers, pc[c] = "fetch", ReuseOrFail(c),
           UNCHANGED <<session, excused>>
    PROVE  /\ pc' \in [Callers -> Places] /\ hand' \in [Callers -> Hand]
           /\ tunnel' \in {"opening", "up", "ending", "gone"}
           /\ OneAtTheProvider' /\ MarginIsSpent' /\ SessionPhases'
<1>1. CASE HardExpired(cached)
    <2>1. End(c)
        BY <1>1 DEF ReuseOrFail
    <2>2. "idle" \in Places \ {"exchange"} /\ Goto(c, "idle")
        BY <2>1 DEF End, Places
    <2>3. /\ pc' \in [Callers -> Places] /\ hand' \in [Callers -> Hand]
          /\ OneAtTheProvider' /\ MarginIsSpent'
        BY <2>1, <2>2, GotoKeeps DEF End
    <2>4. SessionPhases'
        BY <2>2 DEF Inv, TypeOK, SessionPhases, Goto
    <2>5. tunnel' \in {"opening", "up", "ending", "gone"}
        BY <2>1 DEF End, Inv, TypeOK
    <2> QED BY <2>3, <2>4, <2>5
<1>2. CASE ~HardExpired(cached)
    <2>1. Receive(c, cached, "reuse") /\ cached \in Token
        BY <1>2 DEF ReuseOrFail, Inv, TypeOK
    <2>2. /\ pc' \in [Callers -> Places] /\ hand' \in [Callers -> Hand]
          /\ OneAtTheProvider' /\ MarginIsSpent'
        BY <2>1, ReceiveKeeps
    <2>3. SessionPhases'
        BY <2>1 DEF Inv, TypeOK, SessionPhases, Receive, Goto
    <2>4. tunnel' \in {"opening", "up", "ending", "gone"}
        BY <2>1 DEF Receive, Inv, TypeOK
    <2> QED BY <2>2, <2>3, <2>4
<1> QED BY <1>1, <1>2

LEMMA NextInv == Inv /\ [Next]_vars => Inv'
<1> SUFFICES ASSUME Inv, [Next]_vars PROVE Inv'
    OBVIOUS
<1> USE DEF Inv
<1>1. ASSUME NEW c \in Callers, FastPath(c) PROVE Inv'
    <2>1. Receive(c, cached, "cache") /\ cached \in Token /\ cached.left > MinMargin
        BY <1>1, ComfortableMargin DEF FastPath, TypeOK
    <2>2. /\ pc' \in [Callers -> Places] /\ hand' \in [Callers -> Hand]
          /\ OneAtTheProvider' /\ MarginIsSpent'
        BY <2>1, ReceiveKeeps
    <2>3. TypeOK'
        BY <1>1, <2>1, <2>2 DEF FastPath, Receive, TypeOK, Places
    <2>4. SessionPhases'
        BY <1>1, <2>1 DEF FastPath, TypeOK, SessionPhases, Receive, Goto
    <2> QED BY <2>2, <2>3, <2>4
<1>2. ASSUME NEW c \in Callers, CallProvider(c) PROVE Inv'
    <2>1. "fetch" \in Places \ {"exchange"} /\ Goto(c, "fetch")
        BY <1>2 DEF CallProvider, Places
    <2>2. /\ pc' \in [Callers -> Places] /\ hand' \in [Callers -> Hand]
          /\ OneAtTheProvider' /\ MarginIsSpent'
        BY <1>2, <2>1, GotoKeeps DEF CallProvider
    <2>3. TypeOK'
        BY <1>2, <2>2 DEF CallProvider, TypeOK, Places
    <2>4. SessionPhases'
        BY <1>2, <2>1 DEF CallProvider, TypeOK, SessionPhases, Goto
    <2> QED BY <2>2, <2>3, <2>4
<1>3. ASSUME NEW c \in Callers, ProviderAnswers(c) PROVE Inv'
    <2>1. cached' \in Token /\ Receive(c, cached', "az")
        <3>1. PICK r \in 1..MaxLife, known \in BOOLEAN :
                cached' = Minted(r, known) /\ Receive(c, cached', "az")
            BY <1>3 DEF ProviderAnswers
        <3>2. r \in Span
            BY DEF Span
        <3> QED BY <3>1, <3>2, MintedIsToken
    <2>2. /\ pc' \in [Callers -> Places] /\ hand' \in [Callers -> Hand]
          /\ OneAtTheProvider' /\ MarginIsSpent'
        BY <2>1, ReceiveKeeps
    <2>3. primed' \subseteq Callers
        BY <1>3 DEF ProviderAnswers, TypeOK, Waiting
    <2>4. TypeOK'
        BY <1>3, <2>1, <2>2, <2>3 DEF ProviderAnswers, Receive, TypeOK, Places
    <2>5. SessionPhases'
        BY <1>3, <2>1 DEF ProviderAnswers, TypeOK, SessionPhases, Receive, Goto
    <2> QED BY <2>2, <2>4, <2>5
<1>4. ASSUME NEW c \in Callers, ProviderFails(c) PROVE Inv'
    <2>1. /\ pc' \in [Callers -> Places] /\ hand' \in [Callers -> Hand]
          /\ tunnel' \in {"opening", "up", "ending", "gone"}
          /\ OneAtTheProvider' /\ MarginIsSpent' /\ SessionPhases'
        BY <1>4, ReuseOrFailKeeps DEF ProviderFails, Inv
    <2>2. TypeOK'
        BY <1>4, <2>1 DEF ProviderFails, TypeOK, Places
    <2> QED BY <2>1, <2>2
<1>5. ASSUME NEW c \in Callers, RefreshTimeout(c) PROVE Inv'
    <2>1. /\ pc' \in [Callers -> Places] /\ hand' \in [Callers -> Hand]
          /\ tunnel' \in {"opening", "up", "ending", "gone"}
          /\ OneAtTheProvider' /\ MarginIsSpent' /\ SessionPhases'
        BY <1>5, ReuseOrFailKeeps DEF RefreshTimeout, Inv
    <2>2. TypeOK'
        BY <1>5, <2>1 DEF RefreshTimeout, TypeOK, Places
    <2> QED BY <2>1, <2>2
<1>6. ASSUME NEW c \in Callers, Accept(c) PROVE Inv'
    <2>1. "lock" \in Places \ {"exchange"} /\ Goto(c, "lock")
        BY <1>6 DEF Accept, Places
    <2>2. /\ pc' \in [Callers -> Places] /\ hand' \in [Callers -> Hand]
          /\ OneAtTheProvider' /\ MarginIsSpent'
        BY <1>6, <2>1, GotoKeeps DEF Accept
    <2>3. TypeOK'
        BY <1>6, <2>2 DEF Accept, TypeOK, Places
    <2>4. SessionPhases'
        BY <1>6, <2>1 DEF Accept, TypeOK, SessionPhases, Goto
    <2> QED BY <2>2, <2>3, <2>4
<1>7. ASSUME NEW c \in Callers, ExchangeOk(c) PROVE Inv'
    <2> DEFINE l == IF c = Opener THEN "cleanup" ELSE "dial"
    <2>1. l \in Places \ {"exchange"} /\ Goto(c, l) /\ l # "fetch"
        BY <1>7 DEF ExchangeOk, Places
    <2>2. /\ pc' \in [Callers -> Places] /\ hand' \in [Callers -> Hand]
          /\ OneAtTheProvider' /\ MarginIsSpent'
        BY <1>7, <2>1, GotoKeeps DEF ExchangeOk
    <2>3. TypeOK'
        BY <1>7, <2>2 DEF ExchangeOk, TypeOK, Places
    <2>4. SessionPhases'
        BY <1>7 DEF ExchangeOk, TypeOK, SessionPhases, Goto
    <2> QED BY <2>2, <2>3, <2>4
<1>8. ASSUME NEW c \in Callers, ExchangeFails(c) PROVE Inv'
    <2>1. "idle" \in Places \ {"exchange"} /\ Goto(c, "idle")
        BY <1>8 DEF ExchangeFails, End, Places
    <2>2. /\ pc' \in [Callers -> Places] /\ hand' \in [Callers -> Hand]
          /\ OneAtTheProvider' /\ MarginIsSpent'
        BY <1>8, <2>1, GotoKeeps DEF ExchangeFails, End
    <2>3. TypeOK'
        BY <1>8, <2>2 DEF ExchangeFails, End, TypeOK, Places
    <2>4. SessionPhases'
        BY <1>8, <2>1 DEF ExchangeFails, TypeOK, SessionPhases, Goto
    <2> QED BY <2>2, <2>3, <2>4
<1>9. ASSUME NEW c \in Callers, ReplyLost(c) PROVE Inv'
    <2>1. "idle" \in Places \ {"exchange"} /\ Goto(c, "idle")
        BY <1>9 DEF ReplyLost, End, Places
    <2>2. /\ pc' \in [Callers -> Places] /\ hand' \in [Callers -> Hand]
          /\ OneAtTheProvider' /\ MarginIsSpent'
        BY <1>9, <2>1, GotoKeeps DEF ReplyLost, End
    <2>3. TypeOK'
        BY <1>9, <2>2 DEF ReplyLost, End, TypeOK, Places
    <2>4. SessionPhases'
        BY <1>9, <2>1 DEF ReplyLost, TypeOK, SessionPhases, Goto
    <2> QED BY <2>2, <2>3, <2>4
<1>10. ASSUME NEW c \in Callers, DialOk(c) PROVE Inv'
    <2>1. "forward" \in Places \ {"exchange"} /\ Goto(c, "forward")
        BY <1>10 DEF DialOk, Places
    <2>2. /\ pc' \in [Callers -> Places] /\ hand' \in [Callers -> Hand]
          /\ OneAtTheProvider' /\ MarginIsSpent'
        BY <1>10, <2>1, GotoKeeps DEF DialOk
    <2>3. TypeOK'
        BY <1>10, <2>2 DEF DialOk, TypeOK, Places
    <2>4. SessionPhases'
        BY <1>10, <2>1 DEF DialOk, TypeOK, SessionPhases, Goto
    <2> QED BY <2>2, <2>3, <2>4
<1>11. ASSUME NEW c \in Callers, DialFails(c) PROVE Inv'
    <2>1. "cleanup" \in Places \ {"exchange"} /\ Goto(c, "cleanup")
        BY <1>11 DEF DialFails, Places
    <2>2. /\ pc' \in [Callers -> Places] /\ hand' \in [Callers -> Hand]
          /\ OneAtTheProvider' /\ MarginIsSpent'
        BY <1>11, <2>1, GotoKeeps DEF DialFails
    <2>3. TypeOK'
        BY <1>11, <2>2 DEF DialFails, TypeOK, Places
    <2>4. SessionPhases'
        BY <1>11, <2>1 DEF DialFails, TypeOK, SessionPhases, Goto
    <2> QED BY <2>2, <2>3, <2>4
<1>12. ASSUME NEW c \in Callers, ForwardEnds(c) PROVE Inv'
    <2>1. "cleanup" \in Places \ {"exchange"} /\ Goto(c, "cleanup")
        BY <1>12 DEF ForwardEnds, Places
    <2>2. /\ pc' \in [Callers -> Places] /\ hand' \in [Callers -> Hand]
          /\ OneAtTheProvider' /\ MarginIsSpent'
        BY <1>12, <2>1, GotoKeeps DEF ForwardEnds
    <2>3. TypeOK'
        BY <1>12, <2>2 DEF ForwardEnds, TypeOK, Places
    <2>4. SessionPhases'
        BY <1>12, <2>1 DEF ForwardEnds, TypeOK, SessionPhases, Goto
    <2> QED BY <2>2, <2>3, <2>4
<1>13. ASSUME NEW c \in Callers, Cleanup(c) PROVE Inv'
    <2>1. "idle" \in Places \ {"exchange"} /\ Goto(c, "idle")
        BY <1>13 DEF Cleanup, Places
    <2>2. /\ pc' \in [Callers -> Places] /\ hand' \in [Callers -> Hand]
          /\ OneAtTheProvider' /\ MarginIsSpent'
        BY <1>13, <2>1, GotoKeeps DEF Cleanup
    <2>3. TypeOK'
        BY <1>13, <2>2 DEF Cleanup, TypeOK, Places
    <2>4. SessionPhases'
        BY <1>13, <2>1 DEF Cleanup, TypeOK, SessionPhases, Goto
    <2> QED BY <2>2, <2>3, <2>4
<1>14. CASE AcceptFails
    <2>1. TypeOK'
        BY <1>14 DEF AcceptFails, TypeOK
    <2>2. OneAtTheProvider' /\ MarginIsSpent' /\ SessionPhases'
        BY <1>14 DEF AcceptFails, OneAtTheProvider, MarginIsSpent, SessionPhases
    <2> QED BY <2>1, <2>2
<1>15. CASE VerifyTimeout
    <2>1. "idle" \in Places \ {"exchange"} /\ Goto(Opener, "idle") /\ Opener \in Callers
        BY <1>15 DEF VerifyTimeout, End, Places
    <2>2. /\ pc' \in [Callers -> Places] /\ hand' \in [Callers -> Hand]
          /\ OneAtTheProvider' /\ MarginIsSpent'
        BY <1>15, <2>1, GotoKeeps DEF VerifyTimeout, End
    <2>3. TypeOK'
        BY <1>15, <2>2 DEF VerifyTimeout, End, TypeOK, Places
    <2>4. SessionPhases'
        BY <1>15, <2>1 DEF VerifyTimeout, TypeOK, SessionPhases, Goto
    <2> QED BY <2>2, <2>3, <2>4
<1>16. CASE StrayEnds
    <2>1. TypeOK'
        BY <1>16 DEF StrayEnds, TypeOK
    <2>2. OneAtTheProvider' /\ MarginIsSpent' /\ SessionPhases'
        BY <1>16 DEF StrayEnds, OneAtTheProvider, MarginIsSpent, SessionPhases
    <2> QED BY <2>1, <2>2
<1>17. CASE Leave
    <2>1. TypeOK'
        BY <1>17, EmptyIsHand, NoTokenIsToken DEF Leave, TypeOK, Unlocked
    <2>2. OneAtTheProvider' /\ MarginIsSpent'
        BY <1>17 DEF Leave, TypeOK, OneAtTheProvider, MarginIsSpent
    <2>3. SessionPhases'
        BY <1>17 DEF Leave, TypeOK, SessionPhases
    <2> QED BY <2>1, <2>2, <2>3
<1>18. CASE RuntimeDropped
    <2>1. TypeOK'
        BY <1>18 DEF RuntimeDropped, TypeOK
    <2>2. OneAtTheProvider' /\ MarginIsSpent' /\ SessionPhases'
        BY <1>18 DEF RuntimeDropped, OneAtTheProvider, MarginIsSpent, SessionPhases
    <2> QED BY <2>1, <2>2
<1>19. CASE Killed
    <2>1. TypeOK'
        BY <1>19, EmptyIsHand, NoTokenIsToken DEF Killed, TypeOK, Unlocked
    <2>2. OneAtTheProvider' /\ MarginIsSpent'
        BY <1>19 DEF Killed, TypeOK, OneAtTheProvider, MarginIsSpent
    <2>3. SessionPhases'
        BY <1>19 DEF Killed, TypeOK, SessionPhases
    <2> QED BY <2>1, <2>2, <2>3
<1>20. CASE Open
    <2>1. "lock" \in Places \ {"exchange"} /\ Goto(Opener, "lock") /\ Opener \in Callers
        BY <1>20 DEF Open, Places
    <2>2. /\ pc' \in [Callers -> Places] /\ hand' \in [Callers -> Hand]
          /\ OneAtTheProvider' /\ MarginIsSpent'
        BY <1>20, <2>1, GotoKeeps DEF Open
    <2>3. TypeOK' /\ SessionPhases'
        BY <1>20, <2>2, NoTokenIsToken DEF Open, TypeOK, SessionPhases, Places
    <2> QED BY <2>2, <2>3
<1>21. CASE Tick
    <2>1. cached' \in Token
        BY <1>21, LessInSpan DEF Tick, TypeOK, Token
    <2>2. \A c \in Callers : hand'[c] = IF pc[c] = "exchange" THEN Aged(hand[c]) ELSE hand[c]
        BY <1>21 DEF Tick
    <2>3. hand' \in [Callers -> Hand]
        BY <1>21, AgedIsHand DEF Tick, TypeOK
    <2>4. TypeOK'
        BY <1>21, <2>1, <2>3 DEF Tick, TypeOK
    <2>5. MarginIsSpent'
        <3> SUFFICES ASSUME NEW c \in Callers, pc[c] = "exchange", hand'[c].via = "cache"
                     PROVE  hand'[c].left + hand'[c].since > MinMargin
            BY <1>21 DEF MarginIsSpent, Tick
        <3>1. hand'[c] = Aged(hand[c]) /\ hand[c] \in Hand
            BY <2>2 DEF TypeOK
        <3> DEFINE n == hand[c].since
                   m == hand[c].left
        <3>2. n \in Nat /\ m \in Nat
            BY <3>1 DEF Hand, Span
        <3>3. /\ hand'[c].via = hand[c].via /\ hand'[c].left = Less(m)
              /\ hand'[c].since = IF n > MinMargin THEN n ELSE n + 1
            BY <3>1 DEF Aged, Hand
        <3>4. m + n > MinMargin
            BY <3>3 DEF MarginIsSpent
        <3>5. Less(m) + (IF n > MinMargin THEN n ELSE n + 1) > MinMargin
            <4> HIDE DEF n, m
            <4> QED BY <3>2, <3>4 DEF Less
        <3> QED BY <3>3, <3>5
    <2>6. OneAtTheProvider' /\ SessionPhases'
        BY <1>21 DEF Tick, OneAtTheProvider, SessionPhases
    <2> QED BY <2>4, <2>5, <2>6
<1>22. CASE Suspend
    <2>1. \A h \in Hand : /\ [h EXCEPT !.real = 0] \in Hand
                          /\ [h EXCEPT !.real = 0].left = h.left
                          /\ [h EXCEPT !.real = 0].via = h.via
                          /\ [h EXCEPT !.real = 0].since = h.since
        BY DEF Hand, Span
    <2>2. \A c \in Callers : hand'[c] = [hand[c] EXCEPT !.real = 0] /\ hand[c] \in Hand
        BY <1>22 DEF Suspend, TypeOK
    <2>3. cached' \in Token
        BY <1>22 DEF Suspend, TypeOK, Token, Span
    <2>4. hand' \in [Callers -> Hand]
        BY <1>22, <2>1 DEF Suspend, TypeOK
    <2>5. TypeOK'
        BY <1>22, <2>3, <2>4 DEF Suspend, TypeOK
    <2>6. MarginIsSpent'
        BY <1>22, <2>1, <2>2 DEF Suspend, MarginIsSpent
    <2>7. OneAtTheProvider' /\ SessionPhases'
        BY <1>22 DEF Suspend, OneAtTheProvider, SessionPhases
    <2> QED BY <2>5, <2>6, <2>7
<1>23. CASE UNCHANGED vars
    BY <1>23 DEF vars, TypeOK, OneAtTheProvider, MarginIsSpent, SessionPhases
<1> QED
    BY <1>1, <1>2, <1>3, <1>4, <1>5, <1>6, <1>7, <1>8, <1>9, <1>10, <1>11, <1>12,
       <1>13, <1>14, <1>15, <1>16, <1>17, <1>18, <1>19, <1>20, <1>21, <1>22, <1>23
    DEF Next, Client

LEMMA SpecInv == Spec => []Inv
BY InitInv, NextInv, PTL DEF Spec

-----------------------------------------------------------------------------
(* Every variable of NativeTunnel has its type.                            *)
THEOREM TypeCorrect == Spec => []TypeOK
<1>1. Inv => TypeOK
    BY DEF Inv
<1> QED BY <1>1, SpecInv, PTL

(* However many connections there are and on whatever path they end, no    *)
(* caller ends with a Bastion session that it could have given back.       *)
THEOREM SessionsReturned == Spec => []SessionsAreReturned
<1>1. Inv => SessionsAreReturned
    BY DEF Inv, SessionPhases, SessionsAreReturned
<1> QED BY <1>1, SpecInv, PTL

(* For every lifetime and every margin, a token taken from the cache       *)
(* outlives an exchange that takes no longer than the least margin.        *)
THEOREM OutlivesExchange == Spec => []TokenOutlivesExchange
<1>1. Inv => TokenOutlivesExchange
    <2> SUFFICES ASSUME Inv, NEW c \in Callers, pc[c] = "exchange",
                        hand[c].via = "cache", hand[c].since <= MinMargin,
                        hand[c].left = hand[c].real
                 PROVE  hand[c].real > 0
        BY DEF TokenOutlivesExchange
    <2>1. hand[c] \in Hand
        BY DEF Inv, TypeOK
    <2>2. hand[c].left \in Nat /\ hand[c].since \in Nat
        BY <2>1 DEF Hand, Span
    <2>3. hand[c].left + hand[c].since > MinMargin
        BY DEF Inv, MarginIsSpent
    <2> QED BY <2>2, <2>3
<1> QED BY <1>1, SpecInv, PTL

-----------------------------------------------------------------------------
(* The tokens handed out live.                                             *)

(* A token never has more left than its lifetime: what has some left has a *)
(* known lifetime.                                                         *)
LifeBounds == cached.left <= cached.life

LEMMA SpecLifeBounds == Spec => []LifeBounds
<1>1. Init => LifeBounds
    BY DEF Init, NoToken, LifeBounds
<1>2. Inv /\ LifeBounds /\ [Next]_vars => LifeBounds'
    <2> SUFFICES ASSUME Inv, LifeBounds, [Next]_vars PROVE LifeBounds'
        OBVIOUS
    <2>1. ASSUME NEW c \in Callers, ProviderAnswers(c) PROVE LifeBounds'
        <3>1. PICK r \in 1..MaxLife, known \in BOOLEAN : cached' = Minted(r, known)
            BY <2>1 DEF ProviderAnswers
        <3>2. CASE known
            BY <3>1, <3>2 DEF Minted, LifeBounds
        <3>3. CASE ~known
            BY <3>1, <3>3 DEF Minted, LifeBounds
        <3> QED BY <3>2, <3>3
    <2>2. CASE Leave \/ Killed \/ Open
        BY <2>2 DEF Leave, Killed, Open, NoToken, LifeBounds
    <2>3. CASE Tick
        <3>1. cached \in Token
            BY DEF Inv, TypeOK
        <3>2. /\ cached'.life = cached.life /\ cached'.left = Less(cached.left)
              /\ cached.life \in Nat /\ cached.left \in Nat
            BY <2>3, <3>1 DEF Tick, Token, Span
        <3> QED BY <3>2 DEF Less, LifeBounds
    <2>4. CASE Suspend
        <3>1. cached \in Token
            BY DEF Inv, TypeOK
        <3> QED BY <2>4, <3>1 DEF Suspend, Token, LifeBounds
    <2>5. CASE UNCHANGED cached
        BY <2>5 DEF LifeBounds
    <2>6. \/ \E c \in Callers : ProviderAnswers(c)
          \/ Leave \/ Killed \/ Open \/ Tick \/ Suspend \/ UNCHANGED cached
        BY DEF Next, Client, FastPath, CallProvider, ProviderFails, RefreshTimeout,
               StrayEnds, Accept, AcceptFails, ExchangeOk, ExchangeFails, ReplyLost,
               DialOk, DialFails, ForwardEnds, Cleanup, VerifyTimeout,
               RuntimeDropped, vars
    <2> QED BY <2>1, <2>2, <2>3, <2>4, <2>5, <2>6
<1> QED BY <1>1, <1>2, SpecInv, PTL DEF Spec

(* What get_valid_token returns, in every case.                            *)
LEMMA ReceivedLives ==
    ASSUME Inv, LifeBounds, NEW c \in Callers, NEW t \in Token,
           NEW how \in {"cache", "az", "reuse"}, Receive(c, t, how),
           t.real > 0
    PROVE  hand'[c].real > 0
BY DEF Inv, TypeOK, Receive

(* While the machine does not sleep, the cache hands out no token that the *)
(* Bastion no longer accepts, for every lifetime and margin.               *)
THEOREM AliveUnlessSlept == Spec => TokenIsAliveUnlessSlept
<1> DEFINE Step == \A c \in Callers :
               pc[c] # "exchange" /\ pc'[c] = "exchange" /\ ClocksAgree
                   => hand'[c].real > 0
<1>1. Inv /\ LifeBounds /\ [Next]_vars => Step
    <2> SUFFICES ASSUME Inv, LifeBounds, [Next]_vars, NEW c \in Callers,
                        pc[c] # "exchange", pc'[c] = "exchange", ClocksAgree
                 PROVE  hand'[c].real > 0
        OBVIOUS
    <2>1. cached \in Token /\ pc \in [Callers -> Places]
        BY DEF Inv, TypeOK, Places
    <2>2. /\ cached.left \in Nat /\ cached.life \in Nat
          /\ cached.left > 0 => cached.real > 0
        BY <2>1 DEF ClocksAgree, LifeBounds, Token, Span
    <2>3. CASE FastPath(c)
        <3>1. cached.left > MinMargin /\ Receive(c, cached, "cache")
            BY <2>1, <2>3, ComfortableMargin DEF FastPath
        <3> QED BY <2>1, <2>2, <3>1, ReceivedLives
    <2>4. CASE ProviderAnswers(c)
        <3>1. PICK r \in 1..MaxLife, known \in BOOLEAN :
                cached' = Minted(r, known) /\ Receive(c, cached', "az")
            BY <2>4 DEF ProviderAnswers
        <3>2. cached' \in Token /\ cached'.real > 0
            BY <3>1, MintedIsToken DEF Minted, Span
        <3> QED BY <3>1, <3>2, ReceivedLives
    <2>5. CASE ProviderFails(c) \/ RefreshTimeout(c)
        <3>1. ReuseOrFail(c)
            BY <2>5 DEF ProviderFails, RefreshTimeout
        <3>2. ~HardExpired(cached) /\ Receive(c, cached, "reuse")
            BY <3>1, <2>1 DEF ReuseOrFail, End, Goto
        <3> QED BY <2>1, <2>2, <3>2, ReceivedLives DEF HardExpired
    <2>6. FastPath(c) \/ ProviderAnswers(c) \/ ProviderFails(c) \/ RefreshTimeout(c)
        <3>1. ASSUME NEW d \in Callers, NEW l \in Places, Goto(d, l) PROVE d = c /\ l = "exchange"
            BY <3>1, <2>1 DEF Goto
        <3>2. pc' # pc
            OBVIOUS
        <3>3. \E d \in Callers : Client(d)
            BY <3>1, <3>2, <2>1 DEF Next, vars, AcceptFails, VerifyTimeout, StrayEnds, Leave,
                   RuntimeDropped, Killed, Open, Tick, Suspend, End, Places
        <3>4. PICK d \in Callers : Client(d)
            BY <3>3
        <3>5. ~(\/ CallProvider(d) \/ Accept(d) \/ ExchangeOk(d) \/ ExchangeFails(d)
                \/ ReplyLost(d) \/ DialOk(d) \/ DialFails(d) \/ ForwardEnds(d)
                \/ Cleanup(d))
            BY <3>1 DEF CallProvider, Accept, ExchangeOk, ExchangeFails, ReplyLost,
                   DialOk, DialFails, ForwardEnds, Cleanup, End, Places
        <3>6. \/ FastPath(d) \/ ProviderAnswers(d) \/ ProviderFails(d) \/ RefreshTimeout(d)
            BY <3>4, <3>5 DEF Client
        <3>7. d = c
            BY <3>6, <3>1 DEF FastPath, ProviderAnswers, ProviderFails, RefreshTimeout,
                   ReuseOrFail, Receive, End, Places
        <3> QED BY <3>6, <3>7
    <2> QED BY <2>3, <2>4, <2>5, <2>6
<1>2. TokenIsAliveUnlessSlept <=> [][Step]_vars
    BY PTL DEF TokenIsAliveUnlessSlept
<1> QED BY <1>1, <1>2, SpecInv, SpecLifeBounds, PTL DEF Spec

-----------------------------------------------------------------------------
(* No herd.                                                                *)

(* A token was stored for the waiters only if it is still comfortable, and *)
(* nobody has gone to the provider since.                                  *)
PrimedMeansFresh ==
    primed # {} => Unlocked /\ ~NeedsRefresh(cached)

LEMMA SpecPrimed == Spec => []PrimedMeansFresh
<1>1. Init => PrimedMeansFresh
    BY DEF Init, PrimedMeansFresh
<1>2. Inv /\ PrimedMeansFresh /\ [Next]_vars => PrimedMeansFresh'
    <2> SUFFICES ASSUME Inv, PrimedMeansFresh, [Next]_vars, primed' # {}
                 PROVE  Unlocked' /\ ~NeedsRefresh(cached')
        BY DEF PrimedMeansFresh
    <2>1. pc \in [Callers -> Places]
        BY DEF Inv, TypeOK, Places
    <2>2. ASSUME NEW c \in Callers, ProviderAnswers(c)
          PROVE  Unlocked' /\ ~NeedsRefresh(cached')
        <3>1. pc[c] = "fetch" /\ pc' = [pc EXCEPT ![c] = "exchange"]
            BY <2>2 DEF ProviderAnswers, Receive, Goto
        <3>2. primed = {}
            BY <3>1 DEF PrimedMeansFresh, Unlocked
        <3>3. ~NeedsRefresh(cached')
            BY <2>2, <3>2 DEF ProviderAnswers
        <3>4. Unlocked'
            BY <2>1, <3>1 DEF Inv, OneAtTheProvider, Unlocked
        <3> QED BY <3>3, <3>4
    <2>3. CASE primed' \subseteq primed /\ cached' = cached /\ Unlocked'
        BY <2>3 DEF PrimedMeansFresh, NeedsRefresh, RefreshMargin
    <2>4. ASSUME NEW c \in Callers, CallProvider(c) PROVE FALSE
        BY <2>4 DEF CallProvider, PrimedMeansFresh
    <2>5. ASSUME NEW c \in Callers, Client(c), ~ProviderAnswers(c), ~CallProvider(c)
          PROVE  primed' \subseteq primed /\ cached' = cached
        BY <2>5 DEF Client, FastPath, ProviderFails, RefreshTimeout, Accept, ExchangeOk,
               ExchangeFails, ReplyLost, DialOk, DialFails, ForwardEnds, Cleanup
    <2>6. ASSUME NEW c \in Callers, Client(c), ~CallProvider(c), Unlocked
          PROVE  Unlocked'
        <3>1. \A d \in Callers : pc'[d] = pc[d] \/ pc'[d] # "fetch"
            BY <2>6, <2>1 DEF Client, FastPath, ProviderAnswers, ProviderFails, RefreshTimeout,
                   ReuseOrFail, Receive, End, Accept, ExchangeOk, ExchangeFails, ReplyLost,
                   DialOk, DialFails, ForwardEnds, Cleanup, Goto
        <3> QED BY <2>6, <3>1 DEF Unlocked
    <2>7. CASE \E c \in Callers : Client(c)
        <3>1. PICK c \in Callers : Client(c)
            BY <2>7
        <3>2. CASE ProviderAnswers(c)
            BY <2>2, <3>2
        <3>3. CASE ~ProviderAnswers(c)
            <4>1. ~CallProvider(c)
                BY <2>4
            <4>2. primed' \subseteq primed /\ cached' = cached
                BY <2>5, <3>1, <3>3, <4>1
            <4>3. Unlocked
                BY <4>2 DEF PrimedMeansFresh
            <4> QED BY <2>3, <2>6, <3>1, <4>1, <4>2, <4>3
        <3> QED BY <3>2, <3>3
    <2>8. CASE AcceptFails \/ StrayEnds \/ RuntimeDropped \/ UNCHANGED vars
        <3>1. primed' = primed /\ cached' = cached /\ pc' = pc
            BY <2>8 DEF AcceptFails, StrayEnds, RuntimeDropped, vars
        <3> QED BY <2>3, <3>1 DEF Unlocked, PrimedMeansFresh
    <2>9. CASE Leave \/ Killed \/ Open \/ Tick
        BY <2>9 DEF Leave, Killed, Open, Tick
    <2>10. CASE VerifyTimeout
        <3>1. primed' \subseteq primed /\ cached' = cached
            BY <2>10 DEF VerifyTimeout
        <3>2. Unlocked
            BY <3>1 DEF PrimedMeansFresh
        <3>3. Unlocked'
            BY <2>10, <2>1, <3>2 DEF VerifyTimeout, End, Goto, Unlocked
        <3> QED BY <2>3, <3>1, <3>3
    <2>11. CASE Suspend
        <3>1. /\ primed' = primed /\ pc' = pc
              /\ cached'.left = cached.left /\ cached'.life = cached.life
            BY <2>11 DEF Suspend, Inv, TypeOK, Token
        <3> QED BY <3>1 DEF PrimedMeansFresh, Unlocked, NeedsRefresh, RefreshMargin
    <2> QED BY <2>7, <2>8, <2>9, <2>10, <2>11 DEF Next
<1> QED BY <1>1, <1>2, SpecInv, PTL DEF Spec

(* For every number of connections, a caller starts an `az` only if no     *)
(* other is awaited and nothing comfortable was stored while it waited.    *)
THEOREM NeverAHerd == Spec => NoHerd
<1> DEFINE Step == \A c \in Callers : pc[c] # "fetch" /\ pc'[c] = "fetch" =>
                       /\ \A d \in Callers \ {c} : pc'[d] # "fetch"
                       /\ c \notin primed
<1>1. Inv /\ PrimedMeansFresh /\ [Next]_vars => Step
    <2> SUFFICES ASSUME Inv, PrimedMeansFresh, [Next]_vars, NEW c \in Callers,
                        pc[c] # "fetch", pc'[c] = "fetch"
                 PROVE  /\ \A d \in Callers \ {c} : pc'[d] # "fetch"
                        /\ c \notin primed
        OBVIOUS
    <2>1. pc \in [Callers -> Places]
        BY DEF Inv, TypeOK, Places
    <2>2. \E d \in Callers : Client(d)
        BY <2>1 DEF Next, vars, AcceptFails, VerifyTimeout, StrayEnds, Leave,
               RuntimeDropped, Killed, Open, Tick, Suspend, End, Goto
    <2>3. PICK d \in Callers : CallProvider(d)
        BY <2>1, <2>2 DEF Client, FastPath, ProviderAnswers, ProviderFails, RefreshTimeout,
               ReuseOrFail, Receive, End, Accept, ExchangeOk, ExchangeFails, ReplyLost,
               DialOk, DialFails, ForwardEnds, Cleanup, Goto
    <2>4. pc' = [pc EXCEPT ![d] = "fetch"] /\ Unlocked /\ NeedsRefresh(cached)
        BY <2>3 DEF CallProvider, Goto
    <2>5. primed = {}
        BY <2>4 DEF PrimedMeansFresh
    <2> QED BY <2>1, <2>4, <2>5 DEF Unlocked
<1>2. NoHerd <=> [][Step]_vars
    BY PTL DEF NoHerd
<1> QED BY <1>1, <1>2, SpecInv, SpecPrimed, PTL DEF Spec

-----------------------------------------------------------------------------
(* The tunnel implements BastionSessions.                                  *)

(* Connections are about only while the tunnel is up, the opener only      *)
(* while it is being opened.                                               *)
Quiet ==
    /\ tunnel # "up" => \A c \in Conns : pc[c] = "idle"
    /\ tunnel # "opening" => pc[Opener] = "idle"

Bar == [c \in Callers |-> Phase(pc[c])]

LEMMA GotoMoves ==
    ASSUME TypeOK, NEW c \in Callers, NEW l, Goto(c, l)
    PROVE  Bar' = [Bar EXCEPT ![c] = Phase(l)]
BY DEF TypeOK, Goto, Bar

LEMMA QuietStep == TypeOK /\ Quiet /\ [Next]_vars => Quiet'
<1> SUFFICES ASSUME TypeOK, Quiet, [Next]_vars
             PROVE  Quiet'
    OBVIOUS
<1> USE DEF Quiet, TypeOK
<1>1. ASSUME NEW c \in Callers, Client(c)
      PROVE  Quiet'
    <2>1. CASE FastPath(c) \/ CallProvider(c) \/ ProviderAnswers(c)
        BY <2>1 DEF FastPath, CallProvider, ProviderAnswers, Receive, Goto
    <2>2. CASE ProviderFails(c) \/ RefreshTimeout(c)
        BY <2>2 DEF ProviderFails, RefreshTimeout, ReuseOrFail, Receive, End, Goto
    <2>3. CASE Accept(c) \/ ExchangeOk(c)
        BY <2>3 DEF Accept, ExchangeOk, Goto
    <2>4. CASE ExchangeFails(c) \/ ReplyLost(c)
        BY <2>4 DEF ExchangeFails, ReplyLost, End, Goto
    <2>5. CASE DialOk(c) \/ DialFails(c) \/ ForwardEnds(c) \/ Cleanup(c)
        BY <2>5 DEF DialOk, DialFails, ForwardEnds, Cleanup, Goto
    <2> QED BY <1>1, <2>1, <2>2, <2>3, <2>4, <2>5 DEF Client
<1>2. CASE VerifyTimeout
    BY <1>2 DEF VerifyTimeout, End, Goto
<1>3. CASE AcceptFails \/ StrayEnds \/ RuntimeDropped \/ Tick \/ Suspend \/ UNCHANGED vars
    BY <1>3 DEF AcceptFails, StrayEnds, RuntimeDropped, Tick, Suspend, vars
<1>4. CASE Leave \/ Killed
    BY <1>4 DEF Leave, Killed
<1>5. CASE Open
    BY <1>5 DEF Open, Goto
<1> QED BY <1>1, <1>2, <1>3, <1>4, <1>5 DEF Next

(* Every step is one of BastionSessions, or changes nothing it speaks of.  *)
LEMMA StepMaps == Inv /\ Quiet /\ Quiet' /\ [Next]_vars => [Sessions!Next]_(Sessions!vars)
<1> SUFFICES ASSUME Inv, Quiet, Quiet', [Next]_vars
             PROVE  [Sessions!Next]_(Sessions!vars)
    OBVIOUS
<1> DEFINE Kept == Bar' = Bar /\ session' = session /\ excused' = excused
<1>t. TypeOK
    BY DEF Inv
<1>b. \A c \in Callers : Bar[c] = Phase(pc[c])
    BY DEF Bar
<1>k. ASSUME Kept PROVE [Sessions!Next]_(Sessions!vars)
    BY <1>k DEF Sessions!vars, Bar
<1>1. ASSUME NEW c \in Callers, Client(c)
      PROVE  [Sessions!Next]_(Sessions!vars)
    <2>1. CASE FastPath(c)
        <3>1. Bar' = [Bar EXCEPT ![c] = "served"]
            BY <2>1, <1>t, GotoMoves DEF FastPath, Receive, Phase
        <3> QED BY <2>1, <3>1 DEF FastPath, Phase, Sessions!Next, Sessions!Serve, Sessions!Move, Bar
    <2>2. CASE CallProvider(c)
        <3>1. Bar' = [Bar EXCEPT ![c] = "calling"]
            BY <2>2, <1>t, GotoMoves DEF CallProvider, Phase
        <3>2. \A d \in Callers : Phase(pc[d]) # "calling"
            BY <2>2 DEF CallProvider, Unlocked, Phase
        <3>3. Sessions!Call(c)
            BY <2>2, <3>1, <3>2 DEF CallProvider, Phase, Sessions!Call, Sessions!Move, Bar
        <3> QED BY <3>3 DEF Sessions!Next
    <2>3. CASE ProviderAnswers(c)
        <3>1. Bar' = [Bar EXCEPT ![c] = "served"]
            BY <2>3, <1>t, GotoMoves DEF ProviderAnswers, Receive, Phase
        <3> QED BY <2>3, <3>1 DEF ProviderAnswers, Phase, Sessions!Next, Sessions!Serve, Sessions!Move, Bar
    <2>4. CASE ProviderFails(c) \/ RefreshTimeout(c)
        <3>1. Phase(pc[c]) = "calling" /\ UNCHANGED <<session, excused>>
            BY <2>4 DEF ProviderFails, RefreshTimeout, Phase
        <3>2. CASE HardExpired(cached)
            <4>1. Bar' = [Bar EXCEPT ![c] = "idle"]
                BY <2>4, <3>2, <1>t, GotoMoves DEF ProviderFails, RefreshTimeout, ReuseOrFail, End, Phase
            <4> QED BY <3>1, <4>1 DEF Sessions!Next, Sessions!Refuse, Sessions!Move, Bar
        <3>3. CASE ~ HardExpired(cached)
            <4>1. Bar' = [Bar EXCEPT ![c] = "served"]
                BY <2>4, <3>3, <1>t, GotoMoves DEF ProviderFails, RefreshTimeout, ReuseOrFail, Receive, Phase
            <4> QED BY <3>1, <4>1 DEF Sessions!Next, Sessions!Serve, Sessions!Move, Bar
        <3> QED BY <3>2, <3>3
    <2>5. CASE Accept(c)
        <3>1. Bar' = [Bar EXCEPT ![c] = "waiting"]
            BY <2>5, <1>t, GotoMoves DEF Accept, Phase
        <3> QED BY <2>5, <3>1 DEF Accept, Phase, Sessions!Next, Sessions!Ask, Sessions!Move, Bar
    <2>6. CASE ExchangeOk(c)
        <3>1. Bar' = [Bar EXCEPT ![c] = "using"]
            BY <2>6, <1>t, GotoMoves DEF ExchangeOk, Phase
        <3> QED BY <2>6, <3>1 DEF ExchangeOk, Phase, Sessions!Next, Sessions!Begin, Sessions!Move, Bar
    <2>7. CASE ExchangeFails(c)
        <3>1. Bar' = [Bar EXCEPT ![c] = "idle"]
            BY <2>7, <1>t, GotoMoves DEF ExchangeFails, End, Phase
        <3> QED BY <2>7, <3>1 DEF ExchangeFails, Phase, Sessions!Next, Sessions!Refuse, Sessions!Move, Bar
    <2>8. CASE ReplyLost(c)
        <3>1. Bar' = [Bar EXCEPT ![c] = "idle"]
            BY <2>8, <1>t, GotoMoves DEF ReplyLost, End, Phase
        <3> QED BY <2>8, <3>1 DEF ReplyLost, Phase, Sessions!Next, Sessions!Lose, Sessions!Move, Bar
    <2>9. CASE Cleanup(c)
        <3>1. Bar' = [Bar EXCEPT ![c] = "idle"]
            BY <2>9, <1>t, GotoMoves DEF Cleanup, Phase
        <3>2. Phase(pc[c]) = "using"
            BY <2>9 DEF Cleanup, Phase
        <3>3. Sessions!GiveBack(c)
            BY <2>9, <3>1, <3>2 DEF Cleanup, Sessions!GiveBack, Sessions!Move, Bar
        <3> QED BY <3>3 DEF Sessions!Next
    <2>10. CASE DialOk(c) \/ DialFails(c) \/ ForwardEnds(c)
        <3>1. \E l \in {"forward", "cleanup"} : Goto(c, l)
            BY <2>10 DEF DialOk, DialFails, ForwardEnds
        <3>2. Bar' = [Bar EXCEPT ![c] = "using"]
            BY <3>1, <1>t, GotoMoves DEF Phase
        <3>3. Bar[c] = "using"
            BY <2>10, <1>b DEF DialOk, DialFails, ForwardEnds, Phase
        <3>4. Kept
            BY <2>10, <3>2, <3>3 DEF DialOk, DialFails, ForwardEnds, Bar
        <3> QED BY <3>4, <1>k
    <2> QED BY <1>1, <2>1, <2>2, <2>3, <2>4, <2>5, <2>6, <2>7, <2>8, <2>9, <2>10 DEF Client
<1>2. CASE VerifyTimeout
    <2>1. Bar' = [Bar EXCEPT ![Opener] = "idle"]
        BY <1>2, <1>t, GotoMoves DEF VerifyTimeout, End, Phase
    <2>2. Phase(pc[Opener]) \in {"waiting", "calling", "served"}
        BY <1>2 DEF VerifyTimeout, Phase
    <2>3. CASE UNCHANGED <<session, excused>>
        BY <2>1, <2>2, <2>3 DEF Sessions!Next, Sessions!Refuse, Sessions!Move, Bar
    <2>4. CASE /\ pc[Opener] = "exchange"
               /\ session' = session \cup {Opener} /\ excused' = excused \cup {Opener}
        <3>1. Sessions!Lose(Opener)
            BY <2>1, <2>4 DEF Phase, Sessions!Lose, Sessions!Move, Bar
        <3> QED BY <3>1 DEF Sessions!Next
    <2> QED BY <1>2, <2>3, <2>4 DEF VerifyTimeout
<1>3. CASE AcceptFails \/ StrayEnds \/ RuntimeDropped \/ Tick \/ Suspend \/ UNCHANGED vars
    <2>1. Kept
        BY <1>3 DEF AcceptFails, StrayEnds, RuntimeDropped, Tick, Suspend, vars, Bar
    <2> QED BY <2>1, <1>k
<1>4. CASE Leave \/ Killed
    <2>1. Bar' = [c \in Callers |-> "idle"]
        BY <1>4 DEF Leave, Killed, Bar, Phase
    <2> QED BY <1>4, <2>1 DEF Leave, Killed, Sessions!Next, Sessions!Crash, Bar
<1>5. CASE Open
    <2>1. Bar' = [Bar EXCEPT ![Opener] = "waiting"]
        BY <1>5, <1>t, GotoMoves DEF Open, Phase
    <2>2. \A d \in Callers : Phase(pc[d]) = "idle"
        BY <1>5 DEF Open, Quiet, Phase
    <2>3. Sessions!Restart(Opener)
        BY <1>5, <2>1, <2>2 DEF Open, Sessions!Restart, Bar
    <2> QED BY <2>3 DEF Sessions!Next
<1> QED BY <1>1, <1>2, <1>3, <1>4, <1>5 DEF Next

(* For every number of connections and all tokens the native tunnel is an  *)
(* implementation of BastionSessions.                                      *)
THEOREM ImplementsSessions == Spec => KeepsItsSessions
<1>1. Init => Sessions!Init
    BY DEF Init, Sessions!Init, Phase
<1>2. Init => Quiet
    BY DEF Init, Quiet
<1>3. Inv => TypeOK
    BY DEF Inv
<1>4. Spec => []Quiet
    BY <1>2, <1>3, QuietStep, SpecInv, PTL DEF Spec
<1> QED BY <1>1, <1>4, SpecInv, StepMaps, PTL DEF Spec, KeepsItsSessions, Sessions!Spec

=============================================================================

----------------------------- MODULE ListingProofs -----------------------------
(***************************************************************************)
(* Proofs about Listing, for any VMs of any number of subscriptions and    *)
(* groups, any command, and any limits.                                    *)
(***************************************************************************)
EXTENDS Listing, FiniteSetTheorems, TLAPS

-----------------------------------------------------------------------------
(* The inductive invariant.  Its parts speak of how far the command is.    *)

Withheld == <<"withheld">> \in warned
Reaches(S) == at \in S /\ ~ Withheld

Decided == Reaches({"lookup", "tunnels", "probes", "restore", "resolve", "done"})
Planned == Reaches({"tunnels", "probes", "restore", "resolve", "done"})
Opened == Reaches({"probes", "restore", "resolve", "done"})
Settled == Reaches({"restore", "resolve", "done"})

TypeInv ==
    /\ job \in Jobs /\ sub \in Subs /\ cli \in Subs /\ moved \in BOOLEAN
    /\ ~ moved => cli = sub
    /\ at \in {"fetch", "fetched", "lookup", "tunnels", "probes", "restore", "resolve",
               "done", "failed"}
    /\ i \in Nat \ {0}
    /\ bastion \in [Groups -> {"unasked", "found", "none", "failed"}]
    /\ tunnel \in [Rid -> {"none", "planned", "open", "failed"}]
    /\ probe \in [Names -> {"none", "waiting", "running", "answered", "unanswered"}]
    /\ queried \subseteq Subs

(* Rows that az gave for a subscription and a group.                       *)
RowsOf(rs, s, g) == \A r \in rs : r \in Row /\ r.vm.sub = s /\ r.vm.rg = g

CacheInv ==
    /\ cache \in [Subs \X Groups -> {None} \cup SUBSET Row]
    /\ \A s \in Subs, g \in Groups : cache[<<s, g>>] # None =>
         IsFiniteSet(cache[<<s, g>>]) /\ RowsOf(cache[<<s, g>>], s, g)

(* Where a row comes from.                                                 *)
Origin(r) ==
    /\ job.mode = "contexts" =>
         /\ r.by \in DOMAIN job.ctx
         /\ r.vm.rg = job.ctx[r.by].rg /\ r.vm.sub = Pinned(job.ctx[r.by])
         /\ Pinned(job.ctx[r.by]) \in queried
    /\ job.mode \in {"group", "restore", "connect"} => r.vm.rg = job.rg /\ r.vm.sub = sub
    /\ job.mode = "all" /\ ~ moved => r.vm.sub = sub

RowInv ==
    /\ rows \subseteq Row /\ IsFiniteSet(rows)
    /\ \A r \in rows : Origin(r)
    /\ Decided => Attributable

(* Nothing is shown before the probes, and no terminal of azlin connect is *)
(* opened before the end.                                                  *)
EmptyInv ==
    /\ at \in {"fetch", "fetched", "lookup", "tunnels"} \/ Withheld => \A n \in Names : shown[n] = None
    /\ Withheld => at = "done"
    /\ at \in {"fetch", "fetched"} => \A g \in Groups : bastion[g] = "unasked"
    /\ at \in {"fetch", "fetched", "lookup"} => \A t \in Rid : tunnel[t] = "none"
    /\ at \in {"fetch", "fetched", "lookup", "tunnels"} => \A n \in Names : probe[n] = "none"
    /\ job.mode = "connect" => at # "restore" /\ (at # "done" => tabs = {})
    /\ at = "resolve" => job.mode = "connect"

(* A probe has a machine to get to, and it is that of the one row that has *)
(* the name.                                                               *)
ProbeInv ==
    /\ \A t \in Rid : tunnel[t] = "open" => VmOf(t) \in Vms
    /\ \A n \in Names : probe[n] # "none" => \E r \in Probed : r.vm.name = n /\ Reached(r) # None

(* What is shown was read off the machine of the one row of that name.     *)
ShownInv ==
    /\ shown \in [Names -> Shown \cup {None}]
    /\ \A n \in Names : shown[n] # None =>
         \E r \in rows :
            /\ Same(rows, n) = {r}
            /\ ~ (job.mode = "all" /\ moved) => shown[n].of = r.vm

TabInv ==
    /\ tabs \subseteq Tab
    /\ job.mode = "connect" => \A t \in tabs :
        /\ moved \/ t.to = t.of
        /\ \A n \in Names : shown[n] # None /\ t.session \in shown[n].tmux => shown[n].of = t.of

(* Whatever cannot be probed is warned of as it is met.                    *)
WarnInv ==
    /\ \A g \in Groups : bastion[g] = "failed" => <<"lookup", g>> \in warned
    /\ \A t \in Rid : tunnel[t] = "failed" => <<"tunnel", t[2]>> \in warned
    /\ Decided => \A n \in Colliding(rows) : <<"same name", n>> \in warned
    /\ Planned =>
         /\ \A r \in Private : bastion[r.vm.rg] # "unasked"
         /\ \A r \in ByBastion : tunnel[Target(r)] # "none" \/ <<"skipped">> \in warned
    /\ Opened =>
         /\ \A t \in Rid : tunnel[t] # "planned"
         /\ \A r \in Probed : Reached(r) # None => probe[r.vm.name] # "none"
    /\ Settled => \A n \in Names : probe[n] \notin {"waiting", "running"}

IInv == TypeInv /\ CacheInv /\ RowInv /\ EmptyInv /\ ProbeInv /\ ShownInv /\ TabInv /\ WarnInv

-----------------------------------------------------------------------------
(* What is fetched. *)

LEMMA ListedIs ==
    ASSUME NEW vms \in SUBSET Vms, NEW L \in Listed(vms)
    PROVE  IsFiniteSet(L) /\ L \subseteq Row /\ \A r \in L : r.vm \in vms
  <1>1. PICK up \in [vms -> BOOLEAN], kind \in [vms -> Kinds] :
           L = {[by |-> 0, vm |-> v, up |-> up[v], kind |-> kind[v]] : v \in vms}
    BY DEF Listed
  <1>2. IsFiniteSet(vms)
    BY ListingAssumption, FS_Subset
  <1>. DEFINE f == [v \in vms |-> [by |-> 0, vm |-> v, up |-> up[v], kind |-> kind[v]]]
  <1>3. IsFiniteSet(L)
    <2>1. f \in Surjection(vms, L)
      BY <1>1 DEF Surjection
    <2>. QED  BY <1>2, <2>1, FS_Surjection
  <1>. QED  BY <1>1, <1>3 DEF Row

LEMMA FetchedIs ==
    ASSUME CacheInv, NEW s \in Subs, NEW g \in Groups, NEW vms \in FetchVms(s, g)
    PROVE  IsFiniteSet(vms) /\ RowsOf(vms, s, g)
  <1>. DEFINE here == {v \in Vms : v.sub = s /\ v.rg = g}
  <1>1. CASE vms \in Listed(here)
    BY <1>1, ListedIs DEF RowsOf
  <1>2. CASE vms = cache[<<s, g>>] /\ vms # None
    BY <1>2 DEF CacheInv
  <1>. QED  BY <1>1, <1>2 DEF FetchVms, CacheKey

(* Fetch adds rows of the subscription and the group it was given. *)
LEMMA FetchKeeps ==
    ASSUME CacheInv, IsFiniteSet(rows), rows \subseteq Row,
           NEW s \in Subs, NEW g \in Groups, NEW vms \in FetchVms(s, g), NEW by \in Nat,
           Fetch(s, g, vms, by)
    PROVE  /\ CacheInv' /\ IsFiniteSet(rows') /\ rows' \subseteq Row
           /\ \A r \in rows' : r \in rows \/ (r.by = by /\ r.vm.sub = s /\ r.vm.rg = g)
  <1>1. IsFiniteSet(vms) /\ RowsOf(vms, s, g)
    BY FetchedIs
  <1>2. CacheInv'
    <2>1. cache' = [cache EXCEPT ![<<s, g>>] = vms] /\ vms \in SUBSET Row
      BY <1>1 DEF Fetch, CacheKey, RowsOf
    <2>2. cache' \in [Subs \X Groups -> {None} \cup SUBSET Row]
      BY <2>1 DEF CacheInv
    <2>3. ASSUME NEW t \in Subs, NEW h \in Groups, cache'[<<t, h>>] # None
          PROVE  IsFiniteSet(cache'[<<t, h>>]) /\ RowsOf(cache'[<<t, h>>], t, h)
      <3>1. CASE t = s /\ h = g
        BY <1>1, <2>1, <3>1 DEF CacheInv
      <3>2. CASE ~ (t = s /\ h = g)
        <4>1. cache'[<<t, h>>] = cache[<<t, h>>]
          BY <2>1, <3>2 DEF CacheInv
        <4>. QED  BY <2>3, <4>1 DEF CacheInv
      <3>. QED  BY <3>1, <3>2
    <2>. QED  BY <2>2, <2>3 DEF CacheInv, RowsOf
  <1>. DEFINE new == {[r EXCEPT !.by = by] : r \in vms}
              f == [r \in vms |-> [r EXCEPT !.by = by]]
  <1>3. IsFiniteSet(new)
    <2>1. f \in Surjection(vms, new)
      BY DEF Surjection
    <2>. QED  BY <1>1, <2>1, FS_Surjection
  <1>4. \A r \in new : r \in Row /\ r.by = by /\ r.vm.sub = s /\ r.vm.rg = g
    BY <1>1 DEF RowsOf, Row
  <1>5. rows' = rows \cup new
    BY DEF Fetch
  <1>6. IsFiniteSet(rows')
    BY <1>3, <1>5, FS_Union
  <1>. QED  BY <1>2, <1>4, <1>5, <1>6

LEMMA JobIsTyped ==
    ASSUME TypeInv
    PROVE  /\ job.mode \in {"group", "all", "contexts", "restore", "connect"}
           /\ job.ctx \in Seq(Context) /\ job.rg \in Groups /\ job.home \in Groups
           /\ job.find \in Sessions
           /\ \A k \in DOMAIN job.ctx : Pinned(job.ctx[k]) \in Subs
           /\ \A k \in DOMAIN job.ctx : job.ctx[k].rg # None => job.ctx[k].rg \in Groups
  <1>1. job \in Job
    BY ListingAssumption DEF TypeInv
  <1>2. \A k \in DOMAIN job.ctx : job.ctx[k] \in Context
    BY <1>1 DEF Job
  <1>. QED  BY <1>1, <1>2 DEF Job, Context, Pinned, TypeInv

-----------------------------------------------------------------------------
(* Each part of the invariant holds at first and is kept by every step. *)

LEMMA InitInv == ListInit => IInv
  <1>. SUFFICES ASSUME ListInit PROVE IInv
    OBVIOUS
  <1>1. TypeInv
    <2>1. i \in Nat \ {0}
      BY DEF ListInit
    <2>. QED  BY <2>1 DEF ListInit, TypeInv
  <1>2. CacheInv
    BY DEF ListInit, CacheInv
  <1>3. RowInv
    BY FS_EmptySet DEF ListInit, RowInv, Decided, Reaches
  <1>4. EmptyInv
    BY DEF ListInit, EmptyInv, Withheld
  <1>5. ProbeInv
    BY DEF ListInit, ProbeInv
  <1>6. ShownInv /\ TabInv
    BY DEF ListInit, ShownInv, TabInv
  <1>7. WarnInv
    BY DEF ListInit, WarnInv, Decided, Planned, Opened, Settled, Reaches
  <1>. QED  BY <1>1, <1>2, <1>3, <1>4, <1>5, <1>6, <1>7 DEF IInv

(* A lookup has one of three answers, and warns of a failure.              *)
LEMMA LookUpAnswers ==
    ASSUME NEW g \in Groups, LookUp(g)
    PROVE  \E a \in {"found", "none", "failed"} :
             /\ bastion' = [bastion EXCEPT ![g] = a]
             /\ warned' \in {warned, warned \cup {<<"lookup", g>>}}
             /\ a = "failed" => <<"lookup", g>> \in warned'
  <1>1. PICK answer \in Lookups :
          /\ bastion' = [bastion EXCEPT ![g] = answer[1]]
          /\ warned' = IF answer[2] THEN warned \cup {<<"lookup", g>>} ELSE warned
    BY DEF LookUp
  <1>2. CASE answer = <<"failed", TRUE>>
    BY <1>1, <1>2
  <1>3. CASE answer \in Inserted
    <2>1. answer[1] \in {"found", "none"}
      BY <1>3 DEF Inserted
    <2>. QED  BY <1>1, <2>1
  <1>. QED  BY <1>2, <1>3 DEF Lookups

LEMMA TypeStep ==
    ASSUME TypeInv, [ListNext]_listVars
    PROVE  TypeInv'
  <1>. USE DEF TypeInv
  <1>1. CASE FetchGroup \/ FetchAll \/ ContextsRead \/ Decide \/ Show \/ Resolve \/ Restored
    BY <1>1 DEF FetchGroup, FetchAll, ContextsRead, Decide, Show, Resolve, Restored
  <1>2. CASE ReadContext
    <2>1. i \in DOMAIN job.ctx
      BY <1>2, JobIsTyped DEF ReadContext
    <2>2. Pinned(job.ctx[i]) \in Subs
      BY <2>1, JobIsTyped
    <2>. QED  BY <1>2, <2>2 DEF ReadContext
  <1>3. ASSUME NEW g \in Groups, LookUp(g) PROVE TypeInv'
    <2>1. UNCHANGED <<job, sub, cli, moved, at, i, cache, rows, queried, tunnel, probe, shown, tabs>>
      BY <1>3 DEF LookUp
    <2>2. PICK a \in {"found", "none", "failed"} :
            /\ bastion' = [bastion EXCEPT ![g] = a]
            /\ warned' \in {warned, warned \cup {<<"lookup", g>>}}
      BY <1>3, LookUpAnswers
    <2>. QED  BY <2>1, <2>2
  <1>4. CASE Plan
    BY <1>4 DEF Plan
  <1>5. CASE StartProbes
    BY <1>5 DEF StartProbes
  <1>6. ASSUME NEW t \in Rid, OpenTunnel(t) PROVE TypeInv'
    BY <1>6 DEF OpenTunnel
  <1>7. ASSUME NEW n \in Names, Ssh(n) \/ Answer(n) \/ NoAnswer(n) PROVE TypeInv'
    BY <1>7 DEF Ssh, Answer, NoAnswer
  <1>8. ASSUME NEW n \in Names, NEW s \in Sessions, OpenTab(n, s) PROVE TypeInv'
    BY <1>8 DEF OpenTab
  <1>9. CASE Elsewhere
    BY <1>9 DEF Elsewhere
  <1>10. CASE UNCHANGED listVars
    BY <1>10 DEF listVars
  <1>. QED  BY <1>1, <1>2, <1>3, <1>4, <1>5, <1>6, <1>7, <1>8, <1>9, <1>10 DEF ListNext

(* Only Decide withholds, and it is the end. *)
LEMMA WithheldStep ==
    ASSUME [ListNext]_listVars
    PROVE  /\ warned \subseteq warned'
           /\ Withheld' => Withheld \/ (Decide /\ ~ Attributable /\ at' = "done")
  <1>. DEFINE Pair(w) == \E a, b : w = <<a, b>>
  <1>1. \A a, b : <<"withheld">> # <<a, b>>
    OBVIOUS
  <1>2. <<"withheld">> # <<"skipped">>
    OBVIOUS
  <1>3. ASSUME warned \subseteq warned',
               \A w \in warned' \ warned : w = <<"skipped">> \/ \E a, b : w = <<a, b>>
        PROVE  Withheld' => Withheld
    BY <1>1, <1>2, <1>3 DEF Withheld
  <1>4. ASSUME UNCHANGED warned PROVE Withheld' = Withheld
    BY <1>4 DEF Withheld
  <1>5. CASE ReadContext
    BY <1>3, <1>5 DEF ReadContext
  <1>6. CASE Decide
    <2>1. CASE Attributable
      BY <1>3, <1>6, <2>1 DEF Decide
    <2>2. CASE ~ Attributable
      BY <1>6, <2>2 DEF Decide
    <2>. QED  BY <2>1, <2>2
  <1>7. ASSUME NEW g \in Groups, LookUp(g) PROVE warned \subseteq warned' /\ (Withheld' => Withheld)
    BY <1>3, <1>7 DEF LookUp
  <1>8. CASE Plan
    BY <1>3, <1>8 DEF Plan
  <1>9. ASSUME NEW t \in Rid, OpenTunnel(t) PROVE warned \subseteq warned' /\ (Withheld' => Withheld)
    BY <1>3, <1>9 DEF OpenTunnel
  <1>10. ASSUME NEW n \in Names, Answer(n) PROVE warned \subseteq warned' /\ (Withheld' => Withheld)
    BY <1>3, <1>10 DEF Answer
  <1>11. ASSUME NEW n \in Names, Ssh(n) \/ NoAnswer(n) PROVE UNCHANGED warned
    BY <1>11 DEF Ssh, NoAnswer
  <1>12. ASSUME NEW n \in Names, NEW s \in Sessions, OpenTab(n, s) PROVE UNCHANGED warned
    BY <1>12 DEF OpenTab
  <1>13. CASE FetchGroup \/ FetchAll \/ ContextsRead \/ StartProbes \/ Show \/ Resolve
    BY <1>4, <1>13 DEF FetchGroup, FetchAll, ContextsRead, StartProbes, Show, Resolve
  <1>14. CASE Restored \/ Elsewhere \/ UNCHANGED listVars
    BY <1>4, <1>14 DEF Restored, Elsewhere, listVars
  <1>. QED  BY <1>4, <1>5, <1>6, <1>7, <1>8, <1>9, <1>10, <1>11, <1>12, <1>13, <1>14 DEF ListNext

LEMMA CacheStep ==
    ASSUME TypeInv, CacheInv, RowInv, [ListNext]_listVars
    PROVE  CacheInv'
  <1>1. ASSUME UNCHANGED cache PROVE CacheInv'
    BY <1>1 DEF CacheInv
  <1>2. CASE FetchGroup
    <2>1. CASE UNCHANGED cache
      BY <1>1, <2>1
    <2>2. CASE \E vms \in FetchVms(sub, job.rg) : Fetch(sub, job.rg, vms, 0)
      BY <2>2, JobIsTyped, FetchKeeps DEF RowInv, TypeInv
    <2>. QED  BY <1>2, <2>1, <2>2 DEF FetchGroup
  <1>3. CASE ReadContext
    <2>. DEFINE c == job.ctx[i]
    <2>1. CASE UNCHANGED cache
      BY <1>1, <2>1
    <2>2. CASE c.rg # None /\ \E vms \in FetchVms(Pinned(c), c.rg) : Fetch(Pinned(c), c.rg, vms, i)
      <3>1. i \in DOMAIN job.ctx /\ i \in Nat
        BY <1>3, JobIsTyped DEF ReadContext, TypeInv
      <3>2. Pinned(c) \in Subs /\ c.rg \in Groups
        BY <2>2, <3>1, JobIsTyped
      <3>. QED  BY <2>2, <3>1, <3>2, FetchKeeps DEF RowInv
    <2>. QED  BY <1>3, <2>1, <2>2 DEF ReadContext
  <1>4. CASE FetchAll \/ ContextsRead \/ Decide \/ Plan \/ StartProbes \/ Show \/ Resolve
    BY <1>1, <1>4 DEF FetchAll, ContextsRead, Decide, Plan, StartProbes, Show, Resolve
  <1>5. CASE Restored \/ Elsewhere \/ UNCHANGED listVars
    BY <1>1, <1>5 DEF Restored, Elsewhere, listVars
  <1>6. ASSUME NEW g \in Groups, LookUp(g) PROVE CacheInv'
    BY <1>1, <1>6 DEF LookUp
  <1>7. ASSUME NEW t \in Rid, OpenTunnel(t) PROVE CacheInv'
    BY <1>1, <1>7 DEF OpenTunnel
  <1>8. ASSUME NEW n \in Names, Ssh(n) \/ Answer(n) \/ NoAnswer(n) PROVE CacheInv'
    BY <1>1, <1>8 DEF Ssh, Answer, NoAnswer
  <1>9. ASSUME NEW n \in Names, NEW s \in Sessions, OpenTab(n, s) PROVE CacheInv'
    BY <1>1, <1>9 DEF OpenTab
  <1>. QED  BY <1>2, <1>3, <1>4, <1>5, <1>6, <1>7, <1>8, <1>9 DEF ListNext

(* After the decision the rows, and what was asked, stay as they are. *)
LEMMA RowsStay ==
    ASSUME [ListNext]_listVars, at \notin {"fetch", "fetched"}
    PROVE  UNCHANGED <<job, sub, rows, queried>> /\ at' \notin {"fetch", "fetched"}
           /\ (moved => moved')
  <1>1. CASE Plan \/ StartProbes \/ Show \/ Resolve
    BY <1>1 DEF Plan, StartProbes, Show, Resolve
  <1>2. CASE Restored \/ Elsewhere \/ UNCHANGED listVars
    BY <1>2 DEF Restored, Elsewhere, listVars
  <1>3. ASSUME NEW g \in Groups, LookUp(g) PROVE UNCHANGED <<job, sub, moved, at, rows, queried>>
    BY <1>3, LookUpAnswers DEF LookUp
  <1>4. ASSUME NEW t \in Rid, OpenTunnel(t) PROVE UNCHANGED <<job, sub, moved, at, rows, queried>>
    BY <1>4 DEF OpenTunnel
  <1>5. ASSUME NEW n \in Names, Ssh(n) \/ Answer(n) \/ NoAnswer(n)
        PROVE  UNCHANGED <<job, sub, moved, at, rows, queried>>
    BY <1>5 DEF Ssh, Answer, NoAnswer
  <1>6. ASSUME NEW n \in Names, NEW s \in Sessions, OpenTab(n, s)
        PROVE  UNCHANGED <<job, sub, moved, at, rows, queried>>
    BY <1>6 DEF OpenTab
  <1>7. ~ FetchGroup /\ ~ FetchAll /\ ~ ReadContext /\ ~ ContextsRead /\ ~ Decide
    BY DEF FetchGroup, FetchAll, ReadContext, ContextsRead, Decide
  <1>. QED  BY <1>1, <1>2, <1>3, <1>4, <1>5, <1>6, <1>7 DEF ListNext

(* A command that has ended does nothing more. *)
LEMMA StopsAreFinal ==
    ASSUME [ListNext]_listVars, at \in {"done", "failed"}
    PROVE  UNCHANGED listVars
  BY DEF ListNext, FetchGroup, FetchAll, ReadContext, ContextsRead, Decide, LookUp, Plan, OpenTunnel,
     StartProbes, Ssh, Answer, NoAnswer, Show, Collected, Resolve, OpenTab, Restored, Elsewhere

LEMMA FetchesFirst ==
    ASSUME [ListNext]_listVars, at \in {"fetch", "fetched"}
    PROVE  \/ FetchGroup \/ FetchAll \/ ReadContext \/ ContextsRead \/ Decide \/ Elsewhere
           \/ UNCHANGED listVars
  <1>1. \A g \in Groups : ~ LookUp(g)
    BY DEF LookUp
  <1>2. \A t \in Rid : ~ OpenTunnel(t)
    BY DEF OpenTunnel
  <1>3. \A n \in Names : ~ Ssh(n) /\ ~ Answer(n) /\ ~ NoAnswer(n)
    BY DEF Ssh, Answer, NoAnswer
  <1>4. \A n \in Names, s \in Sessions : ~ OpenTab(n, s)
    BY DEF OpenTab
  <1>5. ~ Plan /\ ~ StartProbes /\ ~ Show /\ ~ Resolve /\ ~ Restored
    BY DEF Plan, StartProbes, Show, Collected, Resolve, Restored
  <1>. QED  BY <1>1, <1>2, <1>3, <1>4, <1>5 DEF ListNext

LEMMA RowStep ==
    ASSUME TypeInv, CacheInv, RowInv, EmptyInv, [ListNext]_listVars
    PROVE  RowInv'
  <1>1. CASE at \notin {"fetch", "fetched"}
    <2>1. UNCHANGED <<job, sub, rows, queried>> /\ (moved => moved')
      BY <1>1, RowsStay
    <2>2. \A r \in rows : Origin(r)'
      BY <2>1 DEF RowInv, Origin, Pinned
    <2>4. CASE Attributable
      BY <2>1, <2>2, <2>4 DEF RowInv, Attributable
    <2>5. CASE ~ Attributable
      <3>1. ~ Decided
        BY <2>5 DEF RowInv
      <3>2. at \in {"done", "failed"}
        BY <1>1, <3>1 DEF Decided, Reaches, EmptyInv, TypeInv
      <3>3. ~ Decided'
        BY <3>1, <3>2, StopsAreFinal DEF Decided, Reaches, Withheld, listVars
      <3>. QED  BY <2>1, <2>2, <3>3 DEF RowInv
    <2>. QED  BY <2>4, <2>5
  <1>2. CASE FetchGroup
    <2>1. at' \in {"fetched", "failed"} /\ UNCHANGED <<job, sub, moved, queried>>
          /\ job.mode \in {"group", "restore", "connect"}
      BY <1>2 DEF FetchGroup
    <2>2. CASE UNCHANGED rows
      BY <2>1, <2>2 DEF RowInv, Origin, Pinned, Decided, Reaches
    <2>3. CASE \E vms \in FetchVms(sub, job.rg) : Fetch(sub, job.rg, vms, 0)
      <3>1. /\ IsFiniteSet(rows') /\ rows' \subseteq Row
            /\ \A r \in rows' : r \in rows \/ (r.vm.sub = sub /\ r.vm.rg = job.rg)
        BY <2>3, JobIsTyped, FetchKeeps DEF RowInv, TypeInv
      <3>2. \A r \in rows' : Origin(r)'
        BY <2>1, <3>1 DEF RowInv, Origin
      <3>. QED  BY <2>1, <3>1, <3>2 DEF RowInv, Decided, Reaches
    <2>. QED  BY <1>2, <2>2, <2>3 DEF FetchGroup
  <1>3. CASE FetchAll
    <2>1. at' \in {"fetched", "failed"} /\ UNCHANGED <<job, sub, moved, queried>> /\ job.mode = "all"
      BY <1>3 DEF FetchAll
    <2>2. CASE UNCHANGED rows
      BY <2>1, <2>2 DEF RowInv, Origin, Pinned, Decided, Reaches
    <2>3. CASE rows' \in Listed({v \in Vms : v.sub = cli})
      <3>1. IsFiniteSet(rows') /\ rows' \subseteq Row /\ \A r \in rows' : r.vm.sub = cli
        BY <2>3, ListedIs
      <3>2. \A r \in rows' : Origin(r)'
        BY <2>1, <3>1 DEF Origin, TypeInv
      <3>. QED  BY <2>1, <3>1, <3>2 DEF RowInv, Decided, Reaches
    <2>. QED  BY <1>3, <2>2, <2>3 DEF FetchAll
  <1>4. CASE ReadContext
    <2>. DEFINE c == job.ctx[i]
    <2>1. at' = "fetch" /\ UNCHANGED <<job, sub, moved>> /\ job.mode = "contexts"
          /\ i \in DOMAIN job.ctx /\ i \in Nat
      BY <1>4, JobIsTyped DEF ReadContext, TypeInv
    <2>2. CASE UNCHANGED <<rows, queried>>
      BY <2>1, <2>2 DEF RowInv, Origin, Pinned, Decided, Reaches
    <2>3. CASE /\ c.rg # None /\ queried' = queried \cup {Pinned(c)}
               /\ \E vms \in FetchVms(Pinned(c), c.rg) : Fetch(Pinned(c), c.rg, vms, i)
      <3>1. Pinned(c) \in Subs /\ c.rg \in Groups
        BY <2>1, <2>3, JobIsTyped
      <3>2. /\ IsFiniteSet(rows') /\ rows' \subseteq Row
            /\ \A r \in rows' : r \in rows \/ (r.by = i /\ r.vm.sub = Pinned(c) /\ r.vm.rg = c.rg)
        BY <2>1, <2>3, <3>1, FetchKeeps DEF RowInv
      <3>3. \A r \in rows' : Origin(r)'
        BY <2>1, <2>3, <3>2 DEF RowInv, Origin, Pinned
      <3>. QED  BY <2>1, <3>2, <3>3 DEF RowInv, Decided, Reaches
    <2>. QED  BY <1>4, <2>2, <2>3 DEF ReadContext
  <1>5. CASE ContextsRead
    BY <1>5 DEF ContextsRead, RowInv, Origin, Pinned, Decided, Reaches
  <1>6. CASE Decide
    <2>1. rows' \subseteq rows /\ UNCHANGED <<job, sub, moved, queried>>
      BY <1>6 DEF Decide
    <2>2. IsFiniteSet(rows') /\ rows' \subseteq Row
      BY <2>1, FS_Subset DEF RowInv
    <2>3. \A r \in rows' : Origin(r)'
      BY <2>1 DEF RowInv, Origin, Pinned
    <2>4. Decided' => Attributable'
      BY <1>6 DEF Decide, Decided, Reaches, Withheld, Attributable
    <2>. QED  BY <2>2, <2>3, <2>4 DEF RowInv
  <1>7. CASE Elsewhere
    BY <1>7 DEF Elsewhere, RowInv, Origin, Pinned, Decided, Reaches, Withheld, Attributable
  <1>8. CASE UNCHANGED listVars
    BY <1>8 DEF listVars, RowInv, Origin, Pinned, Decided, Reaches, Withheld, Attributable
  <1>9. CASE at \in {"fetch", "fetched"}
    BY <1>2, <1>3, <1>4, <1>5, <1>6, <1>7, <1>8, <1>9, FetchesFirst
  <1>. QED  BY <1>1, <1>9

LEMMA EmptyStep ==
    ASSUME TypeInv, EmptyInv, [ListNext]_listVars
    PROVE  EmptyInv'
  <1>1. CASE UNCHANGED listVars
    BY <1>1 DEF listVars, EmptyInv, Withheld
  <1>2. CASE Decide
    BY <1>2 DEF Decide, EmptyInv, Withheld
  <1>3. ASSUME ~ (Decide \/ UNCHANGED listVars) PROVE EmptyInv'
    <2>1. ~ Withheld /\ ~ Withheld'
      BY <1>3, WithheldStep, StopsAreFinal DEF EmptyInv
    <2>2. CASE FetchGroup \/ FetchAll \/ ContextsRead \/ Elsewhere
      BY <2>1, <2>2 DEF FetchGroup, FetchAll, ContextsRead, Elsewhere, EmptyInv
    <2>3. CASE ReadContext
      BY <2>1, <2>3 DEF ReadContext, EmptyInv
    <2>4. ASSUME NEW g \in Groups, LookUp(g) PROVE EmptyInv'
      BY <2>1, <2>4 DEF LookUp, EmptyInv
    <2>5. CASE Plan
      BY <2>1, <2>5 DEF Plan, EmptyInv
    <2>6. ASSUME NEW t \in Rid, OpenTunnel(t) PROVE EmptyInv'
      BY <2>1, <2>6 DEF OpenTunnel, EmptyInv
    <2>7. CASE StartProbes
      BY <2>1, <2>7 DEF StartProbes, EmptyInv
    <2>8. ASSUME NEW n \in Names, Ssh(n) \/ NoAnswer(n) PROVE EmptyInv'
      BY <2>1, <2>8 DEF Ssh, NoAnswer, EmptyInv
    <2>9. ASSUME NEW n \in Names, Answer(n) PROVE EmptyInv'
      <3>1. at = "probes" /\ UNCHANGED <<job, at, bastion, tunnel, tabs>>
        BY <2>9 DEF Answer
      <3>. QED  BY <2>1, <3>1 DEF EmptyInv
    <2>10. CASE Show
      BY <2>1, <2>10 DEF Show, Collected, EmptyInv
    <2>11. CASE Resolve
      BY <2>1, <2>11 DEF Resolve, EmptyInv
    <2>12. ASSUME NEW n \in Names, NEW s \in Sessions, OpenTab(n, s) PROVE EmptyInv'
      BY <2>1, <2>12 DEF OpenTab, EmptyInv
    <2>13. CASE Restored
      BY <2>1, <2>13 DEF Restored, EmptyInv
    <2>. QED  BY <1>3, <2>2, <2>3, <2>4, <2>5, <2>6, <2>7, <2>8, <2>9, <2>10, <2>11, <2>12, <2>13
              DEF ListNext
  <1>. QED  BY <1>1, <1>2, <1>3

-----------------------------------------------------------------------------
(* What a probe reaches. *)

LEMMA RowsAreTyped ==
    ASSUME RowInv, NEW r \in rows
    PROVE  /\ r.vm \in Vms /\ r.kind \in Kinds /\ r.up \in BOOLEAN
           /\ r.vm = [sub |-> r.vm.sub, rg |-> r.vm.rg, name |-> r.vm.name]
           /\ r.vm.sub \in Subs /\ r.vm.rg \in Groups /\ r.vm.name \in Names
           /\ Target(r) \in Rid /\ Target(r)[1] = r.vm.rg /\ Target(r)[2] = r.vm.name
           /\ VmOf(Target(r)) = [sub |-> sub, rg |-> r.vm.rg, name |-> r.vm.name]
  BY ListingAssumption DEF RowInv, Row, Target, Rid, VmOf

LEMMA RowsAreTheManagers ==
    ASSUME TypeInv, RowInv, Decided, ~ (job.mode = "all" /\ moved), NEW r \in rows
    PROVE  r.vm.sub = sub
  BY JobIsTyped DEF RowInv, Origin, Attributable

LEMMA ReachedIsTheRow ==
    ASSUME TypeInv, RowInv, ProbeInv, NEW r \in rows, Reached(r) # None
    PROVE  /\ Reached(r) \in Vms
           /\ Decided /\ ~ (job.mode = "all" /\ moved) => Reached(r) = r.vm
  <1>1. CASE tunnel[Target(r)] = "open"
    <2>1. Reached(r) = VmOf(Target(r)) /\ VmOf(Target(r)) \in Vms
      BY <1>1, RowsAreTyped DEF Reached, ProbeInv
    <2>2. r.vm.sub = sub => VmOf(Target(r)) = r.vm
      BY RowsAreTyped
    <2>. QED  BY <2>1, <2>2, RowsAreTheManagers
  <1>2. CASE tunnel[Target(r)] # "open"
    <2>1. Reached(r) = r.vm
      BY <1>2 DEF Reached
    <2>. QED  BY <2>1, RowsAreTyped
  <1>. QED  BY <1>1, <1>2

(* A row that is probed is the only one of its name. *)
LEMMA ProbedIsAlone ==
    ASSUME RowInv, NEW n \in Names, NEW r \in Probed, r.vm.name = n
    PROVE  r \in rows /\ Same(rows, n) = {r}
  BY DEF Probed, Colliding, Same

Early == {"fetch", "fetched", "lookup", "tunnels"}

LEMMA ProbeStep ==
    ASSUME TypeInv, RowInv, EmptyInv, ProbeInv, [ListNext]_listVars
    PROVE  ProbeInv'
  <1>. DEFINE Open == \A t \in Rid : tunnel[t] = "open" => VmOf(t) \in Vms
  <1>1. ASSUME UNCHANGED <<sub, tunnel>>, Open, \A n \in Names : probe'[n] = "none" PROVE ProbeInv'
    BY <1>1 DEF ProbeInv, VmOf
  <1>2. ASSUME UNCHANGED <<sub, rows, tunnel>>, Open,
               \A n \in Names : probe'[n] # "none" => probe[n] # "none"
        PROVE  ProbeInv'
    <2>1. Probed' = Probed /\ \A r \in Probed : Reached(r)' = Reached(r)
      BY <1>2 DEF Probed, Colliding, Same, Reached, Target, VmOf
    <2>. QED  BY <1>2, <2>1 DEF ProbeInv, VmOf
  <1>3. Open
    BY DEF ProbeInv
  <1>4. CASE FetchGroup \/ FetchAll \/ ReadContext \/ ContextsRead \/ Decide
    <2>1. at \in Early /\ UNCHANGED <<sub, tunnel, probe>>
      BY <1>4 DEF FetchGroup, FetchAll, ReadContext, ContextsRead, Decide, Early
    <2>. QED  BY <1>1, <1>3, <2>1 DEF EmptyInv, Early
  <1>5. CASE Plan
    <2>1. UNCHANGED <<sub, probe>> /\ \A t \in Rid : tunnel'[t] # "open"
      BY <1>5 DEF Plan
    <2>2. \A n \in Names : probe'[n] = "none"
      BY <1>5, <2>1 DEF Plan, EmptyInv
    <2>. QED  BY <2>1, <2>2 DEF ProbeInv
  <1>6. ASSUME NEW t \in Rid, OpenTunnel(t) PROVE ProbeInv'
    <2>1. UNCHANGED <<sub, probe>> /\ \A u \in Rid : tunnel'[u] = "open" => VmOf(u) \in Vms
      BY <1>3, <1>6 DEF OpenTunnel, TypeInv
    <2>2. \A n \in Names : probe'[n] = "none"
      BY <1>6, <2>1 DEF OpenTunnel, EmptyInv
    <2>. QED  BY <2>1, <2>2 DEF ProbeInv, VmOf
  <1>7. CASE StartProbes
    <2>1. UNCHANGED <<sub, rows, tunnel>>
      BY <1>7 DEF StartProbes
    <2>2. \A n \in Names : probe'[n] # "none" => \E r \in Probed : r.vm.name = n /\ Reached(r) # None
      BY <1>7 DEF StartProbes
    <2>3. Probed' = Probed /\ \A r \in Probed : Reached(r)' = Reached(r)
      BY <2>1 DEF Probed, Colliding, Same, Reached, Target, VmOf
    <2>. QED  BY <1>3, <2>1, <2>2, <2>3 DEF ProbeInv, VmOf
  <1>8. ASSUME NEW n \in Names, Ssh(n) \/ Answer(n) \/ NoAnswer(n) PROVE ProbeInv'
    BY <1>2, <1>3, <1>8 DEF Ssh, Answer, NoAnswer, TypeInv
  <1>9. ASSUME NEW g \in Groups, LookUp(g) PROVE ProbeInv'
    BY <1>2, <1>3, <1>9 DEF LookUp
  <1>10. ASSUME NEW n \in Names, NEW s \in Sessions, OpenTab(n, s) PROVE ProbeInv'
    BY <1>2, <1>3, <1>10 DEF OpenTab
  <1>11. CASE Show \/ Resolve \/ Restored \/ Elsewhere \/ UNCHANGED listVars
    BY <1>2, <1>3, <1>11 DEF Show, Resolve, Restored, Elsewhere, listVars
  <1>. QED  BY <1>4, <1>5, <1>6, <1>7, <1>8, <1>9, <1>10, <1>11 DEF ListNext

LEMMA AnswerShows ==
    ASSUME TypeInv, RowInv, EmptyInv, ProbeInv, ShownInv, NEW n \in Names, Answer(n)
    PROVE  ShownInv'
  <1>1. UNCHANGED <<job, sub, moved, rows>> /\ at = "probes" /\ probe[n] = "running"
    BY DEF Answer
  <1>2. Decided
    BY <1>1 DEF Decided, Reaches, EmptyInv
  <1>3. PICK r \in Same(Probed, n), tmux \in SUBSET Sessions :
          shown' = IF tmux = {} THEN shown
                   ELSE [shown EXCEPT ![n] = [of |-> Reached(r), tmux |-> tmux]]
    BY DEF Answer
  <1>4. r \in Probed /\ r.vm.name = n
    BY <1>3 DEF Same
  <1>5. r \in rows /\ Same(rows, n) = {r}
    BY <1>4, ProbedIsAlone
  <1>6. Reached(r) # None
    <2>1. PICK q \in Probed : q.vm.name = n /\ Reached(q) # None
      BY <1>1 DEF ProbeInv
    <2>2. q \in Same(rows, n)
      BY <2>1, ProbedIsAlone
    <2>. QED  BY <1>5, <2>1, <2>2
  <1>7. Reached(r) \in Vms /\ (~ (job.mode = "all" /\ moved) => Reached(r) = r.vm)
    BY <1>2, <1>5, <1>6, ReachedIsTheRow
  <1>8. CASE tmux = {}
    BY <1>1, <1>3, <1>8 DEF ShownInv, Same
  <1>9. CASE tmux # {}
    <2>. DEFINE new == [of |-> Reached(r), tmux |-> tmux]
    <2>1. new \in Shown /\ new.of = Reached(r)
      BY <1>3, <1>7 DEF Shown
    <2>2. shown' = [shown EXCEPT ![n] = new]
      BY <1>3, <1>9
    <2>. HIDE DEF new
    <2>3. shown' \in [Names -> Shown \cup {None}] /\ shown'[n] = new
          /\ \A m \in Names \ {n} : shown'[m] = shown[m]
      BY <2>1, <2>2 DEF ShownInv
    <2>4. ASSUME NEW m \in Names, shown'[m] # None
          PROVE  \E q \in rows : /\ Same(rows, m) = {q}
                                 /\ ~ (job.mode = "all" /\ moved) => shown'[m].of = q.vm
      BY <1>5, <1>7, <2>1, <2>3, <2>4 DEF ShownInv
    <2>. QED  BY <1>1, <2>3, <2>4 DEF ShownInv, Same
  <1>. QED  BY <1>8, <1>9

LEMMA ShownStep ==
    ASSUME TypeInv, RowInv, EmptyInv, ProbeInv, ShownInv, [ListNext]_listVars
    PROVE  ShownInv'
  <1>1. ASSUME UNCHANGED shown, at \in {"fetch", "fetched"} PROVE ShownInv'
    BY <1>1 DEF ShownInv, EmptyInv
  <1>2. ASSUME UNCHANGED <<job, rows, shown>>, moved => moved' PROVE ShownInv'
    BY <1>2 DEF ShownInv, Same
  <1>3. CASE FetchGroup \/ FetchAll \/ ReadContext \/ ContextsRead \/ Decide
    BY <1>1, <1>3 DEF FetchGroup, FetchAll, ReadContext, ContextsRead, Decide
  <1>4. CASE Plan \/ StartProbes \/ Show \/ Resolve \/ Restored \/ Elsewhere \/ UNCHANGED listVars
    BY <1>2, <1>4 DEF Plan, StartProbes, Show, Resolve, Restored, Elsewhere, listVars
  <1>5. ASSUME NEW g \in Groups, LookUp(g) PROVE ShownInv'
    BY <1>2, <1>5 DEF LookUp
  <1>6. ASSUME NEW t \in Rid, OpenTunnel(t) PROVE ShownInv'
    BY <1>2, <1>6 DEF OpenTunnel
  <1>7. ASSUME NEW n \in Names, Ssh(n) \/ NoAnswer(n) PROVE ShownInv'
    BY <1>2, <1>7 DEF Ssh, NoAnswer
  <1>8. ASSUME NEW n \in Names, NEW s \in Sessions, OpenTab(n, s) PROVE ShownInv'
    BY <1>2, <1>8 DEF OpenTab
  <1>. QED  BY <1>3, <1>4, <1>5, <1>6, <1>7, <1>8, AnswerShows DEF ListNext

LEMMA ConnectionsAre ==
    ASSUME NEW s, NEW g, NEW n, NEW to \in Connections(s, g, n)
    PROVE  /\ to \in Vms \cup {None}
           /\ to \in Vms /\ s = cli /\ to # None => to.sub = s /\ to.rg = g /\ to.name = n
  BY DEF Connections

(* The one machine azlin connect goes to is the one the session is on.     *)
LEMMA ResolveIsRight ==
    ASSUME TypeInv, RowInv, EmptyInv, ShownInv, TabInv, Resolve
    PROVE  TabInv'
  <1>1. at = "resolve" /\ UNCHANGED <<job, sub, cli, moved, shown>> /\ job.mode = "connect"
    BY DEF Resolve, EmptyInv
  <1>2. CASE UNCHANGED tabs
    BY <1>1, <1>2 DEF TabInv
  <1>3. ASSUME NEW n \in Names, NEW to \in Vms, Owners = {n}, to \in Connections(sub, job.rg, n),
               tabs' = {[of |-> shown[n].of, session |-> job.find, to |-> to]}
        PROVE  TabInv'
    <2>. DEFINE t == [of |-> shown[n].of, session |-> job.find, to |-> to]
    <2>1. shown[n] # None /\ shown[n].of \in Vms
      BY <1>3 DEF Owners, ShownInv, Shown
    <2>2. t \in Tab
      BY <1>3, <2>1, JobIsTyped DEF Tab
    <2>3. ASSUME ~ moved PROVE to = shown[n].of
      <3>1. PICK r \in rows : Same(rows, n) = {r} /\ shown[n].of = r.vm
        BY <1>1, <2>1, <2>3 DEF ShownInv
      <3>2. r.vm.name = n /\ r.vm.rg = job.rg /\ r.vm.sub = sub
        BY <1>1, <3>1 DEF Same, RowInv, Origin
      <3>3. to.sub = sub /\ to.rg = job.rg /\ to.name = n
        BY <1>3, <2>3, ConnectionsAre, ListingAssumption DEF TypeInv
      <3>4. to = r.vm
        BY <1>3, <3>2, <3>3, RowsAreTyped, ListingAssumption
      <3>. QED  BY <3>1, <3>4
    <2>4. \A m \in Names : shown[m] # None /\ job.find \in shown[m].tmux => m = n
      BY <1>3 DEF Owners
    <2>5. t.of = shown[n].of /\ t.session = job.find /\ t.to = to /\ tabs' = {t}
      BY <1>3
    <2>. HIDE DEF t
    <2>. QED  BY <1>1, <2>2, <2>3, <2>4, <2>5 DEF TabInv
  <1>. QED  BY <1>2, <1>3 DEF Resolve

LEMMA TabStep ==
    ASSUME TypeInv, RowInv, EmptyInv, ShownInv, TabInv, [ListNext]_listVars
    PROVE  TabInv'
  <1>1. CASE UNCHANGED listVars
    BY <1>1 DEF listVars, TabInv
  <1>2. ASSUME UNCHANGED <<job, tabs>>, at \notin {"done", "failed"} PROVE TabInv'
    BY <1>2 DEF TabInv, EmptyInv
  <1>3. CASE FetchGroup \/ FetchAll \/ ReadContext \/ ContextsRead \/ Decide
    BY <1>2, <1>3 DEF FetchGroup, FetchAll, ReadContext, ContextsRead, Decide
  <1>4. CASE Plan \/ StartProbes \/ Show \/ Restored \/ Elsewhere
    BY <1>2, <1>4 DEF Plan, StartProbes, Show, Collected, Restored, Elsewhere
  <1>5. ASSUME NEW g \in Groups, LookUp(g) PROVE TabInv'
    BY <1>2, <1>5 DEF LookUp
  <1>6. ASSUME NEW t \in Rid, OpenTunnel(t) PROVE TabInv'
    BY <1>2, <1>6 DEF OpenTunnel
  <1>7. ASSUME NEW n \in Names, Ssh(n) \/ Answer(n) \/ NoAnswer(n) PROVE TabInv'
    BY <1>2, <1>7 DEF Ssh, Answer, NoAnswer
  <1>8. ASSUME NEW n \in Names, NEW s \in Sessions, OpenTab(n, s) PROVE TabInv'
    <2>1. /\ job' = job /\ job.mode # "connect" /\ shown[n] # None
          /\ \E to \in Connections(cli, job.home, n) :
                tabs' = tabs \cup {[of |-> shown[n].of, session |-> s, to |-> to]}
      BY <1>8 DEF OpenTab, EmptyInv
    <2>2. shown[n].of \in Vms
      BY <2>1 DEF ShownInv, Shown
    <2>. QED  BY <2>1, <2>2, ConnectionsAre DEF TabInv, Tab
  <1>. QED  BY <1>1, <1>3, <1>4, <1>5, <1>6, <1>7, <1>8, ResolveIsRight DEF ListNext

-----------------------------------------------------------------------------
(* Warnings. *)

(* A plan that is as large as it may be is that of all VMs behind a        *)
(* bastion, or somebody is told.                                           *)
LEMMA PlansAll ==
    ASSUME RowInv, NEW plans \in SUBSET {Target(r) : r \in ByBastion},
           Cardinality(plans) = IF Cardinality(ByBastion) < MaxTunnels
                                THEN Cardinality(ByBastion) ELSE MaxTunnels,
           ~ (Cardinality(ByBastion) > MaxTunnels)
    PROVE  plans = {Target(r) : r \in ByBastion}
  <1>. DEFINE T == {Target(r) : r \in ByBastion}
              f == [r \in ByBastion |-> Target(r)]
  <1>1. ByBastion \subseteq rows
    BY DEF ByBastion, Probed
  <1>2. IsFiniteSet(ByBastion)
    BY <1>1, FS_Subset DEF RowInv
  <1>3. f \in Surjection(ByBastion, T)
    BY DEF Surjection
  <1>4. IsFiniteSet(T) /\ Cardinality(T) <= Cardinality(ByBastion)
    BY <1>2, <1>3, FS_Surjection
  <1>5. Cardinality(ByBastion) \in Nat /\ Cardinality(T) \in Nat /\ MaxTunnels \in Nat
    BY <1>2, <1>4, FS_CardinalityType, ListingAssumption
  <1>6. Cardinality(plans) = Cardinality(ByBastion)
    BY <1>5
  <1>7. IsFiniteSet(plans) /\ Cardinality(plans) <= Cardinality(T)
    BY <1>4, FS_Subset
  <1>8. Cardinality(plans) = Cardinality(T)
    BY <1>4, <1>5, <1>6, <1>7
  <1>. QED  BY <1>4, <1>8, FS_Subset

LEMMA PlanWarns ==
    ASSUME TypeInv, RowInv, EmptyInv, WarnInv, Plan
    PROVE  WarnInv'
  <1>1. /\ at = "lookup" /\ at' = "tunnels" /\ warned \subseteq warned'
        /\ UNCHANGED <<sub, rows, bastion, probe>>
        /\ \A r \in Private : bastion[r.vm.rg] # "unasked"
    BY DEF Plan
  <1>2. /\ Private' = Private /\ Colliding(rows)' = Colliding(rows) /\ ByBastion' = ByBastion
        /\ \A r \in rows : Target(r)' = Target(r)
    BY <1>1 DEF Private, Colliding, Same, ByBastion, Probed, Target
  <1>3. Decided
    BY <1>1 DEF Decided, Reaches, EmptyInv
  <1>4. PICK plans \in SUBSET {Target(r) : r \in ByBastion} :
          /\ Cardinality(plans) = IF Cardinality(ByBastion) < MaxTunnels
                                  THEN Cardinality(ByBastion) ELSE MaxTunnels
          /\ tunnel' = [t \in Rid |-> IF t \in plans THEN "planned" ELSE "none"]
    BY DEF Plan
  <1>5. \A t \in Rid : tunnel'[t] # "failed"
    BY <1>4
  <1>6. ASSUME NEW r \in ByBastion PROVE tunnel'[Target(r)] # "none" \/ <<"skipped">> \in warned'
    <2>1. CASE Cardinality(ByBastion) > MaxTunnels
      BY <2>1 DEF Plan
    <2>2. CASE ~ (Cardinality(ByBastion) > MaxTunnels)
      <3>1. Target(r) \in plans
        BY <1>4, <2>2, PlansAll
      <3>2. Target(r) \in Rid
        BY RowsAreTyped DEF ByBastion, Probed
      <3>. QED  BY <1>4, <3>1, <3>2
    <2>. QED  BY <2>1, <2>2
  <1>7. ~ Opened' /\ ~ Settled'
    BY <1>1 DEF Opened, Settled, Reaches
  <1>8. ByBastion \subseteq rows
    BY DEF ByBastion, Probed
  <1>. QED  BY <1>1, <1>2, <1>3, <1>5, <1>6, <1>7, <1>8 DEF WarnInv

(* A step that leaves the rows and the bastions as they are keeps every    *)
(* warning; what it says of tunnels and probes is for the step to show.    *)
LEMMA LateWarns ==
    ASSUME WarnInv, UNCHANGED <<sub, rows, bastion>>, warned \subseteq warned',
           Decided' => Decided, Planned' => Planned,
           \A t \in Rid : tunnel'[t] = "failed" => tunnel[t] = "failed" \/ <<"tunnel", t[2]>> \in warned',
           \A t \in Rid : tunnel[t] # "none" => tunnel'[t] # "none",
           Opened' => \A t \in Rid : tunnel'[t] # "planned",
           Opened' => \A r \in Probed : Reached(r)' # None => probe'[r.vm.name] # "none",
           Settled' => \A n \in Names : probe'[n] \notin {"waiting", "running"},
           RowInv
    PROVE  WarnInv'
  <1>1. /\ Private' = Private /\ Colliding(rows)' = Colliding(rows) /\ ByBastion' = ByBastion
        /\ Probed' = Probed /\ \A r \in rows : Target(r)' = Target(r)
    BY DEF Private, Colliding, Same, ByBastion, Probed, Target
  <1>2. ByBastion \subseteq rows /\ Probed \subseteq rows
    BY DEF ByBastion, Probed
  <1>3. \A r \in ByBastion : Target(r) \in Rid
    BY <1>2, RowsAreTyped
  <1>. QED  BY <1>1, <1>2, <1>3 DEF WarnInv

(* Between the plan and the end nothing is reached that was not.           *)
LEMMA LastWarns ==
    ASSUME WarnInv, RowInv, UNCHANGED <<sub, rows, bastion, tunnel>>, warned \subseteq warned',
           Decided' => Decided, Planned' => Planned, Opened' => Opened,
           \A n \in Names : probe[n] # "none" => probe'[n] # "none",
           Settled' => \A n \in Names : probe'[n] \notin {"waiting", "running"}
    PROVE  WarnInv'
  <1>1. Probed \subseteq rows /\ \A r \in rows : r.vm.name \in Names
    BY RowsAreTyped DEF Probed
  <1>2. \A r \in rows : Reached(r)' = Reached(r)
    BY DEF Reached, Target, VmOf
  <1>. QED  BY <1>1, <1>2, LateWarns DEF WarnInv

LEMMA WarnStep ==
    ASSUME TypeInv, RowInv, EmptyInv, WarnInv, [ListNext]_listVars
    PROVE  WarnInv'
  <1>0. warned \subseteq warned' /\ (Withheld' => Withheld \/ (Decide /\ at' = "done"))
    BY WithheldStep
  <1>. USE DEF Reaches
  <1>1. CASE UNCHANGED listVars
    <2>1. Decided' = Decided /\ Planned' = Planned /\ Opened' = Opened /\ Settled' = Settled
      BY <1>1 DEF listVars, Decided, Planned, Opened, Settled, Withheld
    <2>. QED  BY <1>1, <2>1, LastWarns DEF listVars, WarnInv
  <1>2. ASSUME UNCHANGED <<bastion, tunnel>>, at' \in {"fetch", "fetched", "failed"} PROVE WarnInv'
    <2>1. ~ Decided' /\ ~ Planned' /\ ~ Opened' /\ ~ Settled'
      BY <1>2 DEF Decided, Planned, Opened, Settled
    <2>. QED  BY <1>0, <1>2, <2>1 DEF WarnInv
  <1>3. CASE FetchGroup \/ FetchAll \/ ReadContext \/ ContextsRead
    BY <1>2, <1>3 DEF FetchGroup, FetchAll, ReadContext, ContextsRead
  <1>4. CASE Decide
    <2>1. UNCHANGED <<bastion, tunnel>> /\ (Withheld' \/ at' = "lookup")
      BY <1>4 DEF Decide, Withheld
    <2>2. ~ Planned' /\ ~ Opened' /\ ~ Settled'
      BY <2>1 DEF Planned, Opened, Settled
    <2>3. ~ Withheld' => \A n \in Colliding(rows)' : <<"same name", n>> \in warned'
      <3>1. Colliding(rows)' = Colliding(rows')
        BY DEF Colliding, Same
      <3>2. \/ <<"withheld">> \in warned'
            \/ warned' = warned \cup {<<"same name", n>> : n \in Colliding(rows')}
        BY <1>4 DEF Decide
      <3>. QED  BY <3>1, <3>2 DEF Withheld
    <2>. QED  BY <1>0, <2>1, <2>2, <2>3 DEF WarnInv, Decided
  <1>5. ASSUME NEW g \in Groups, LookUp(g) PROVE WarnInv'
    <2>1. /\ at = "lookup" /\ UNCHANGED <<at, rows, tunnel>>
          /\ bastion' = [bastion EXCEPT ![g] = bastion'[g]]
          /\ bastion'[g] = "failed" => <<"lookup", g>> \in warned'
      BY <1>5, LookUpAnswers DEF LookUp, TypeInv
    <2>2. ~ Planned' /\ ~ Opened' /\ ~ Settled' /\ (Decided' => Decided)
      BY <1>0, <2>1 DEF Planned, Opened, Settled, Decided, EmptyInv
    <2>3. Colliding(rows)' = Colliding(rows)
      BY <2>1 DEF Colliding, Same
    <2>4. \A h \in Groups : bastion'[h] = "failed" => <<"lookup", h>> \in warned'
      BY <1>0, <2>1 DEF WarnInv, TypeInv
    <2>. QED  BY <1>0, <2>1, <2>2, <2>3, <2>4 DEF WarnInv
  <1>6. CASE Plan
    BY <1>6, PlanWarns
  <1>7. ASSUME NEW t \in Rid, OpenTunnel(t) PROVE WarnInv'
    <2>1. at = "tunnels" /\ UNCHANGED <<at, sub, rows, bastion>> /\ tunnel[t] = "planned"
      BY <1>7 DEF OpenTunnel
    <2>2. /\ ~ Opened' /\ ~ Settled' /\ (Decided' => Decided) /\ (Planned' => Planned)
      BY <1>0, <2>1 DEF Opened, Settled, Decided, Planned, EmptyInv
    <2>3. \A u \in Rid : tunnel[u] # "none" => tunnel'[u] # "none"
      BY <1>7 DEF OpenTunnel, TypeInv
    <2>4. \A u \in Rid : tunnel'[u] = "failed" => tunnel[u] = "failed" \/ <<"tunnel", u[2]>> \in warned'
      BY <1>7 DEF OpenTunnel, TypeInv
    <2>. QED  BY <1>0, <2>1, <2>2, <2>3, <2>4, LateWarns
  <1>8. CASE StartProbes
    <2>1. /\ at = "tunnels" /\ at' = "probes" /\ UNCHANGED <<sub, rows, bastion, tunnel, warned>>
          /\ \A t \in Rid : tunnel[t] # "planned"
      BY <1>8 DEF StartProbes
    <2>2. ~ Settled' /\ (Decided' => Decided) /\ (Planned' => Planned)
      BY <2>1 DEF Settled, Decided, Planned, Withheld
    <2>3. \A r \in Probed : Reached(r)' = Reached(r) /\ r.vm.name \in Names
      BY <2>1, RowsAreTyped DEF Probed, Reached, Target, VmOf
    <2>4. \A r \in Probed : Reached(r) # None => probe'[r.vm.name] # "none"
      BY <1>8, <2>3 DEF StartProbes
    <2>. QED  BY <2>1, <2>2, <2>3, <2>4, LateWarns
  <1>9. ASSUME NEW n \in Names, Ssh(n) \/ Answer(n) \/ NoAnswer(n) PROVE WarnInv'
    <2>1. /\ at = "probes" /\ UNCHANGED <<at, sub, rows, bastion, tunnel>>
          /\ \A m \in Names : probe[m] # "none" => probe'[m] # "none"
      BY <1>9 DEF Ssh, Answer, NoAnswer, TypeInv
    <2>2. ~ Settled' /\ (Decided' => Decided) /\ (Planned' => Planned) /\ (Opened' => Opened)
      BY <1>0, <2>1 DEF Settled, Decided, Planned, Opened, EmptyInv
    <2>. QED  BY <1>0, <2>1, <2>2, LastWarns
  <1>10. CASE Show
    <2>1. /\ at = "probes" /\ UNCHANGED <<sub, rows, bastion, tunnel, probe, warned>>
          /\ \A n \in Names : probe[n] \notin {"waiting", "running"}
      BY <1>10 DEF Show, Collected
    <2>2. (Decided' => Decided) /\ (Planned' => Planned) /\ (Opened' => Opened)
      BY <2>1 DEF Decided, Planned, Opened, Withheld
    <2>. QED  BY <2>1, <2>2, LastWarns
  <1>11. ASSUME UNCHANGED <<sub, rows, bastion, tunnel, probe, warned>>,
                at \in {"restore", "resolve"} \/ at' = at
         PROVE  WarnInv'
    <2>1. (Decided' => Decided) /\ (Planned' => Planned) /\ (Opened' => Opened) /\ (Settled' => Settled)
      BY <1>11 DEF Decided, Planned, Opened, Settled, Withheld
    <2>. QED  BY <1>11, <2>1, LastWarns DEF WarnInv
  <1>12. CASE Resolve \/ Restored \/ Elsewhere
    BY <1>11, <1>12 DEF Resolve, Restored, Elsewhere
  <1>13. ASSUME NEW n \in Names, NEW s \in Sessions, OpenTab(n, s) PROVE WarnInv'
    BY <1>11, <1>13 DEF OpenTab
  <1>. QED  BY <1>1, <1>3, <1>4, <1>5, <1>6, <1>7, <1>8, <1>9, <1>10, <1>12, <1>13 DEF ListNext

-----------------------------------------------------------------------------
(* The theorems. *)

LEMMA NextInv == IInv /\ [ListNext]_listVars => IInv'
  BY TypeStep, CacheStep, RowStep, EmptyStep, ProbeStep, ShownStep, TabStep, WarnStep DEF IInv

LEMMA Invariance == ListSpec => []IInv
  BY InitInv, NextInv, PTL DEF ListSpec

(* Every variable of a listing keeps its type.                             *)
THEOREM TypeCorrect == ListSpec => []ListTypeOK
  <1>1. ASSUME IInv PROVE ListTypeOK
    <2>1. \A k \in Subs \X Groups : cache[k] = None \/ cache[k] \subseteq Row
      BY <1>1 DEF IInv, CacheInv
    <2>. QED  BY <1>1, <2>1 DEF IInv, ListTypeOK, TypeInv, RowInv, ShownInv, TabInv
  <1>2. IInv => ListTypeOK
    BY <1>1
  <1>. QED  BY <1>2, Invariance, PTL

(* The rows under a context's header are of its subscription and group,    *)
(* those of a group of the manager's subscription, whatever is cached and  *)
(* wherever the CLI has gone (fetch_vms, VM_CACHE).                        *)
THEOREM RowsBelong == ListSpec => []RowsAreTheContexts
  <1>1. IInv => RowsAreTheContexts
    BY DEF IInv, RowInv, Origin, RowsAreTheContexts
  <1>. QED  BY <1>1, Invariance, PTL

(* What a row shows was read off its own machine, though it is kept by     *)
(* name; and azlin connect goes to the machine its session was found on.   *)
THEOREM DataBelongs == ListSpec => []DataIsTheRows
  <1>1. ASSUME IInv, NEW r \in rows, shown[r.vm.name] # None, ~ (job.mode = "all" /\ moved)
        PROVE  shown[r.vm.name].of = r.vm
    <2>1. r.vm.name \in Names
      BY <1>1, RowsAreTyped DEF IInv
    <2>2. r \in Same(rows, r.vm.name)
      BY DEF Same
    <2>. QED  BY <1>1, <2>1, <2>2 DEF IInv, ShownInv
  <1>2. IInv => DataIsTheRows
    BY <1>1 DEF IInv, TabInv, DataIsTheRows
  <1>. QED  BY <1>2, Invariance, PTL

(* A running VM's blank row has been answered for or is warned of, or      *)
(* there is no way to the VM.                                              *)
THEOREM BlanksAreTold == ListSpec => []BlankIsExplained
  <1>1. ASSUME IInv, at = "done", NEW r \in rows, r.up, shown[r.vm.name] = None
        PROVE  \/ probe[r.vm.name] \in {"answered", "unanswered"}
               \/ warned \cap {<<"withheld">>, <<"skipped">>, <<"same name", r.vm.name>>,
                               <<"lookup", r.vm.rg>>, <<"tunnel", r.vm.name>>} # {}
               \/ r.kind = "hidden" /\ bastion[r.vm.rg] = "none"
    <2>. DEFINE n == r.vm.name
                g == r.vm.rg
    <2>1. CASE Withheld
      BY <2>1 DEF Withheld
    <2>2. CASE ~ Withheld
      <3>1. Decided /\ Planned /\ Opened /\ Settled
        BY <1>1, <2>2 DEF Decided, Planned, Opened, Settled, Reaches
      <3>2. n \in Names /\ g \in Groups /\ Target(r) \in Rid /\ Target(r)[1] = g /\ Target(r)[2] = n
            /\ r.kind \in Kinds
        BY <1>1, RowsAreTyped DEF IInv
      <3>3. CASE n \in Colliding(rows)
        BY <1>1, <3>1, <3>3 DEF IInv, WarnInv
      <3>4. CASE n \notin Colliding(rows)
        <4>1. r \in Probed
          BY <1>1, <3>4 DEF Probed
        <4>2. CASE Reached(r) # None
          <5>1. probe[n] # "none" /\ probe[n] \notin {"waiting", "running"}
            BY <1>1, <3>1, <3>2, <4>1, <4>2 DEF IInv, WarnInv
          <5>. QED  BY <1>1, <3>2, <5>1 DEF IInv, TypeInv
        <4>3. CASE Reached(r) = None
          <5>1. r.kind = "hidden" /\ tunnel[Target(r)] # "open"
            <6>1. r.vm \in Vms /\ r.vm # None
              BY <1>1, RowsAreTyped, ListingAssumption DEF IInv
            <6>2. tunnel[Target(r)] = "open" => VmOf(Target(r)) # None
              BY <1>1, <3>2, ListingAssumption DEF IInv, ProbeInv
            <6>. QED  BY <4>3, <6>1, <6>2 DEF Reached
          <5>2. bastion[g] \in {"found", "none", "failed"}
            <6>1. r \in Private
              BY <1>1, <5>1 DEF Private
            <6>2. bastion[g] # "unasked"
              BY <1>1, <3>1, <6>1 DEF IInv, WarnInv
            <6>. QED  BY <1>1, <3>2, <6>2 DEF IInv, TypeInv
          <5>3. CASE bastion[g] = "found"
            <6>1. r \in ByBastion
              BY <4>1, <5>1, <5>3 DEF ByBastion
            <6>2. tunnel[Target(r)] = "failed" \/ <<"skipped">> \in warned
              BY <1>1, <3>1, <3>2, <5>1, <6>1 DEF IInv, WarnInv, TypeInv
            <6>. QED  BY <1>1, <3>2, <6>2 DEF IInv, WarnInv
          <5>4. CASE bastion[g] = "failed"
            BY <1>1, <3>2, <5>4 DEF IInv, WarnInv
          <5>. QED  BY <5>1, <5>2, <5>3, <5>4
        <4>. QED  BY <4>2, <4>3
      <3>. QED  BY <3>3, <3>4
    <2>. QED  BY <2>1, <2>2
  <1>2. IInv => BlankIsExplained
    BY <1>1 DEF BlankIsExplained
  <1>. QED  BY <1>2, Invariance, PTL

=============================================================================

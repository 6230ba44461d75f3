---------------------------- MODULE ProgressProof ----------------------------
(***************************************************************************)
(* How far the tunnel is built: the proof of ProgressInv on top of the     *)
(* invariant of LifecycleProof, and what follows from it about a session   *)
(* that is up and about the Done flags of a snapshot.                      *)
(***************************************************************************)
EXTENDS LifecycleProof

\* A session that is over claims nothing.
LEMMA OverProgress ==
    ASSUME NEW s \in Sessions, pc[s] \in Over
    PROVE  ProgressAt(s) /\ ClosingAt(s)
BY DEF ProgressAt, ClosingAt, Tunnelling, Over, Preparing, Mutating, Reverting

\* So does one whose script has ended; one that has yet to look for a snapshot claims
\* little.
LEMMA AsideProgress ==
    ASSUME IndInv, ProgressInv, NEW s \in Sessions, ~Active(s),
           pc'[s] = pc[s], writer'[s] = writer[s], script'[s] = script[s]
    PROVE  ProgressAt(s)' /\ ClosingAt(s)'
<1>1. pc[s] \in Over \cup Reverting \cup {"start"} /\ (pc[s] \in Reverting => ~Running(s) /\ ~Running(s)')
  BY DEF Active, Running, IndInv, TypeOK, SessionTypeOK
<1>2. pc[s] \notin Mutating \cup {"up", "closing"} /\ (pc[s] \in Preparing => pc[s] = "start")
  BY <1>1 DEF Over, Reverting, Preparing, Mutating
<1>3. ProgressAt(s)
  BY DEF ProgressInv
<1>4. ProgressAt(s)'
  BY <1>2, <1>3 DEF ProgressAt, Tunnelling
<1>5. ClosingAt(s)'
  BY <1>1, <1>2 DEF ClosingAt
<1> QED BY <1>4, <1>5

\* A step of the session at work is judged by that session alone.
LEMMA OneProgress ==
    ASSUME IndInv, ProgressInv, NEW s \in Sessions, NEW p, Active(s),
           pc' = [pc EXCEPT ![s] = p],
           \A t \in Sessions \ {s} : writer'[t] = writer[t] /\ script'[t] = script[t],
           ProgressAt(s)', ClosingAt(s)'
    PROVE  ProgressInv'
<1> SUFFICES ASSUME NEW t \in Sessions, t # s PROVE ProgressAt(t)' /\ ClosingAt(t)'
  BY DEF ProgressInv
<1>1. ~Active(t) /\ pc'[t] = pc[t]
  BY DEF IndInv, SerialInv, TypeOK, SessionTypeOK
<1> QED BY <1>1, AsideProgress

\* A session that stands still over a host that stands still, while no script starts.
LEMMA SameProgress ==
    ASSUME ProgressInv, NEW s \in Sessions, pc'[s] = pc[s], writer'[s] = writer[s], meddled' = meddled,
           UNCHANGED <<ipv6, tun, routes, rules, resolv, snapshot>>,
           \A r \in Runners : Running(r)' => Running(r)
    PROVE  ProgressAt(s)' /\ ClosingAt(s)'
<1>1. ProgressAt(s) /\ ClosingAt(s)
  BY DEF ProgressInv
<1>2. Effects(s)' = Effects(s) /\ Marked(s)' = Marked(s)
  BY DEF Effects, Marked
<1>3. ProgressAt(s)'
  BY <1>1, <1>2 DEF ProgressAt, Tunnelling, HostAfter
<1>4. ClosingAt(s)'
  BY <1>1 DEF ClosingAt, Runners
<1> QED BY <1>3, <1>4

\* Steps that leave the sessions, the host and meddled alone, and start no script.
LEMMA QuietProgress ==
    ASSUME ProgressInv, UNCHANGED <<sessionVars, meddled>>,
           UNCHANGED <<ipv6, tun, routes, rules, resolv, snapshot>>,
           \A r \in Runners : Running(r)' => Running(r)
    PROVE  ProgressInv'
BY SameProgress DEF ProgressInv, sessionVars

-----------------------------------------------------------------------------
(***************************************************************************)
(* Session.Start.                                                          *)
(***************************************************************************)

\* The prefix of the plan that is recorded and in place, at each call of Start.
LEMMA StepFacts ==
    ASSUME IndInv, ProgressInv, NEW s \in Sessions
    PROVE  /\ writer[s] \in Snapshot /\ writer[s].actions \in 0 .. LastAction
           /\ ProgressAt(s) /\ PrepareAt(s) /\ PlanAt(s) /\ MutateAt(s)
           /\ pc \in [Sessions -> Starting \cup Stopping \cup Reverting \cup Over \cup {"up"}]
           /\ writer \in [Sessions -> Snapshot]
           /\ HostTypeOK
BY DEF IndInv, ProgressInv, TypeOK, SessionTypeOK, SessionInv, Snapshot

\* The first actions of the plan add no routes and no rules.
LEMMA EarlyPlan ==
    \A n \in {0, 1, 2, 3} : RulesOf(FirstBypass, n) = {} /\ {GwRoute, DefRoute} \cap (1 .. n) = {}
<1> SUFFICES ASSUME NEW n \in {0, 1, 2, 3}
             PROVE  RulesOf(FirstBypass, n) = {} /\ {GwRoute, DefRoute} \cap (1 .. n) = {}
  OBVIOUS
<1>1. n \in Int /\ n < FirstBypass /\ n < GwRoute
  BY PlanNumbers
<1> QED BY <1>1, NoRules, PlanNumbers

\* Before the first Persist nothing is marked.
LEMMA PrepareProgress ==
    ASSUME IndInv, ProgressInv, NEW s \in Sessions, UNCHANGED lifeVars,
           CheckSnapshot(s) \/ RecordResolvConf(s) \/ RecordSysctl(s) \/ CheckTun(s)
    PROVE  ProgressAt(s)'
<1> USE StepFacts DEF ProgressAt, Advance
<1>1. CASE CheckSnapshot(s)
  BY <1>1 DEF CheckSnapshot, Preparing, Mutating, Tunnelling
<1>2. CASE RecordResolvConf(s)
  BY <1>2 DEF RecordResolvConf, Preparing, Mutating, Tunnelling, SetWriter, NewWriter
<1>3. CASE RecordSysctl(s)
  BY <1>3 DEF RecordSysctl, Preparing, Mutating, Tunnelling, SetWriter, Snapshot
<1>4. CASE CheckTun(s)
  BY <1>4 DEF CheckTun, Preparing, Mutating, Tunnelling
<1> QED BY <1>1, <1>2, <1>3, <1>4

\* The first Persist: none of the plan is in place or recorded.
LEMMA PersistProgress ==
    ASSUME IndInv, ProgressInv, NEW s \in Sessions, PersistPreState(s), UNCHANGED lifeVars
    PROVE  ProgressAt(s)'
<1> USE StepFacts DEF PersistPreState, Advance
<1>1. /\ pc[s] = "persist" /\ pc'[s] = "ipv6" /\ writer' = writer /\ snapshot' = writer[s]
      /\ UNCHANGED <<ipv6, tun, routes, rules, resolv>>
  BY DEF Persist
<1>2. writer[s].actions = 0 /\ writer[s].done = {} /\ tun = NoTun /\ snapshot = NoSnapshot
  BY <1>1 DEF PrepareAt, ProgressAt, Preparing
<1>3. routes = {} /\ rules = {} /\ resolv.text # OurContent
  <2>1. routes = {} /\ rules = {} /\ resolv.text = original.resolv.text
    BY <1>2 DEF IndInv, CleanInv, RestoredResolv
  <2>2. original.resolv.text # OurContent
    BY TextAssumption DEF IndInv, TypeOK, LifecycleTypeOK, Originals, ForeignResolvFiles,
       AbsentFile, RegularFile, Symlink
  <2> QED BY <2>1, <2>2
<1>4. Effects(s)' = 0 /\ Marked(s)' = 0
  BY <1>1, <1>2 DEF Effects, Marked
<1>5. HostAfter(s, 0)'
  BY <1>1, <1>2, <1>3, EarlyPlan, PlanNumbers DEF HostAfter
<1> QED BY <1>1, <1>2, <1>4, <1>5 DEF ProgressAt, Preparing, Tunnelling, HostAfter

\* A mutation that is not announced: ipv6, the TUN.
LEMMA MutateProgress ==
    ASSUME IndInv, ProgressInv, NEW s \in Sessions, UNCHANGED lifeVars,
           DisableIPv6(s) \/ BuildDevice(s) \/ CreateTun(s) \/ UnlinkSymlink(s)
              \/ WriteResolvTmp(s) \/ RenameResolv(s)
    PROVE  ProgressAt(s)'
<1> USE PlanNumbers DEF Advance
<1>1. CASE DisableIPv6(s)
  <2>1. /\ pc[s] = "ipv6" /\ pc'[s] = "ipv6_log" /\ writer' = writer /\ ipv6' = "1"
        /\ UNCHANGED <<tun, routes, rules, resolv, snapshot>>
    BY <1>1, StepFacts DEF DisableIPv6
  <2>2. Effects(s) = 0 /\ Effects(s)' = 1 /\ Marked(s)' = Marked(s)
    BY <2>1, StepFacts DEF Effects, Marked
  <2>3. HostAfter(s, 0)
    BY <2>1, <2>2, StepFacts DEF ProgressAt, Tunnelling, Mutating
  <2>4. /\ RulesOf(FirstBypass, 0) = {} /\ {GwRoute, DefRoute} \cap (1 .. 0) = {}
        /\ RulesOf(FirstBypass, 1) = {} /\ {GwRoute, DefRoute} \cap (1 .. 1) = {}
    BY EarlyPlan
  <2>5. HostAfter(s, 1)'
    BY <2>1, <2>3, <2>4 DEF HostAfter
  <2> QED BY <2>1, <2>2, <2>5, StepFacts DEF ProgressAt, Preparing, Mutating, Tunnelling, HostAfter
<1>2. CASE BuildDevice(s)
  <2>1. /\ pc[s] = "device" /\ pc'[s] = "tun" /\ writer' = writer
        /\ UNCHANGED <<ipv6, tun, routes, rules, resolv, snapshot>>
    BY <1>2, StepFacts DEF BuildDevice, hostVars
  <2>2. Effects(s)' = Effects(s) /\ Marked(s)' = Marked(s)
    BY <2>1, StepFacts DEF Effects, Marked
  <2> QED BY <2>1, <2>2, StepFacts DEF ProgressAt, Preparing, Mutating, Tunnelling, HostAfter
<1>3. CASE CreateTun(s)
  <2>1. /\ pc[s] = "tun" /\ pc'[s] = (IF tun = NoTun THEN "tun_log" ELSE "cleanup")
        /\ writer' = writer /\ tun' = (IF tun = NoTun THEN s ELSE tun)
        /\ UNCHANGED <<ipv6, routes, rules, resolv, snapshot>>
    BY <1>3, StepFacts DEF CreateTun
  <2>2. Effects(s) = 1 /\ (tun = NoTun => Effects(s)' = 2 /\ Marked(s)' = Marked(s))
    BY <2>1, StepFacts DEF Effects, Marked
  <2>3. HostAfter(s, 1)
    BY <2>1, <2>2, StepFacts DEF ProgressAt, Tunnelling, Mutating
  <2>4. /\ RulesOf(FirstBypass, 1) = {} /\ {GwRoute, DefRoute} \cap (1 .. 1) = {}
        /\ RulesOf(FirstBypass, 2) = {} /\ {GwRoute, DefRoute} \cap (1 .. 2) = {}
    BY EarlyPlan
  <2>5. tun = NoTun => HostAfter(s, 2)'
    BY <2>1, <2>3, <2>4 DEF HostAfter
  <2> QED BY <2>1, <2>2, <2>5, StepFacts DEF ProgressAt, Preparing, Mutating, Tunnelling, HostAfter
<1>4. CASE UnlinkSymlink(s)
  <2>1. /\ pc[s] = "unlink" /\ pc'[s] = "resolv_intent" /\ writer' = writer
        /\ resolv' = (IF resolv.kind = "symlink" THEN AbsentFile ELSE resolv)
        /\ UNCHANGED <<ipv6, tun, routes, rules, snapshot>>
    BY <1>4, StepFacts DEF UnlinkSymlink
  <2>2. Effects(s) = 2 /\ Effects(s)' = 2 /\ Marked(s)' = Marked(s)
    BY <2>1, StepFacts DEF Effects, Marked
  <2>3. HostAfter(s, 2)
    BY <2>1, <2>2, StepFacts DEF ProgressAt, Tunnelling, Mutating
  <2>4. HostAfter(s, 2)'
    BY <2>1, <2>3, TextAssumption DEF HostAfter, AbsentFile
  <2> QED BY <2>1, <2>2, <2>4, StepFacts DEF ProgressAt, Preparing, Mutating, Tunnelling, HostAfter
<1>5. CASE WriteResolvTmp(s)
  <2>1. /\ pc[s] = "resolv_tmp" /\ pc'[s] = "resolv_rename" /\ writer' = writer
        /\ UNCHANGED <<ipv6, tun, routes, rules, resolv, snapshot>>
    BY <1>5, StepFacts DEF WriteResolvTmp
  <2>2. Effects(s)' = Effects(s) /\ Marked(s)' = Marked(s)
    BY <2>1, StepFacts DEF Effects, Marked
  <2> QED BY <2>1, <2>2, StepFacts DEF ProgressAt, Preparing, Mutating, Tunnelling, HostAfter
<1>6. CASE RenameResolv(s)
  <2>1. /\ pc[s] = "resolv_rename" /\ pc'[s] = "resolv_done" /\ writer' = writer
        /\ resolv'.text = OurContent
        /\ UNCHANGED <<ipv6, tun, routes, rules, snapshot>>
    BY <1>6, StepFacts DEF RenameResolv, RegularFile
  <2>2. Effects(s) = 2 /\ Effects(s)' = 3 /\ Marked(s)' = Marked(s)
    BY <2>1, StepFacts DEF Effects, Marked, PlanAt
  <2>3. HostAfter(s, 2)
    BY <2>1, <2>2, StepFacts DEF ProgressAt, Tunnelling, Mutating
  <2>4. /\ RulesOf(FirstBypass, 2) = {} /\ {GwRoute, DefRoute} \cap (1 .. 2) = {}
        /\ RulesOf(FirstBypass, 3) = {} /\ {GwRoute, DefRoute} \cap (1 .. 3) = {}
    BY EarlyPlan
  <2>5. HostAfter(s, 3)'
    BY <2>1, <2>3, <2>4 DEF HostAfter
  <2> QED BY <2>1, <2>2, <2>5, StepFacts DEF ProgressAt, Preparing, Mutating, Tunnelling, HostAfter
<1> QED BY <1>1, <1>2, <1>3, <1>4, <1>5, <1>6

\* A write of the snapshot alone: it must mark what is claimed.
LEMMA LogProgress ==
    ASSUME IndInv, ProgressInv, NEW s \in Sessions, pc[s] \in Mutating,
           pc'[s] \in Mutating \cup {"up"}, UNCHANGED script,
           UNCHANGED <<ipv6, tun, routes, rules, resolv>>,
           snapshot' = writer'[s], writer'[s].done = 1 .. Marked(s)',
           Effects(s)' = Effects(s),
           pc'[s] = "up" => writer'[s].actions = LastAction
    PROVE  ProgressAt(s)'
<1>1. HostAfter(s, Effects(s))
  BY DEF ProgressInv, ProgressAt, Tunnelling
<1>2. (HostAfter(s, Effects(s)))'
  BY <1>1 DEF HostAfter
<1>3. \A r \in Runners : ~Running(r)'
  BY ScriptsIdle DEF IndInv, AtWork, Starting, Preparing, Mutating, Running
<1>4. pc'[s] \notin Preparing
  BY DEF Preparing, Mutating
<1> QED BY <1>2, <1>3, <1>4 DEF ProgressAt

\* The six writes of the snapshot by a session that mutates the host.
LEMMA LogStepProgress ==
    ASSUME IndInv, ProgressInv, NEW s \in Sessions, UNCHANGED lifeVars,
           LogSysctlSet(s) \/ LogTunCreate(s) \/ LogResolvIntent(s) \/ LogResolvDone(s)
              \/ LogIntent(s) \/ LogAdded(s)
    PROVE  ProgressAt(s)'
<1> DEFINE w == writer[s]
<1>1. /\ w \in Snapshot /\ w.actions \in 0 .. LastAction /\ PlanAt(s)
      /\ pc[s] \in Mutating => w.done = 1 .. Marked(s)
      /\ pc \in [Sessions -> Starting \cup Stopping \cup Reverting \cup Over \cup {"up"}]
      /\ writer \in [Sessions -> Snapshot]
  BY StepFacts DEF ProgressAt, Tunnelling
<1> USE PlanNumbers DEF Advance
<1>2. ASSUME NEW isDone \in BOOLEAN, AppendAndPersist(s, isDone)
      PROVE  /\ writer'[s].actions = w.actions + 1 /\ snapshot' = writer'[s]
             /\ writer'[s].done = IF isDone THEN w.done \cup {w.actions + 1} ELSE w.done
             /\ UNCHANGED script /\ UNCHANGED <<ipv6, tun, routes, rules, resolv>>
  BY <1>1, <1>2 DEF AppendAndPersist, AppendAction, SetWriter, Persist, Snapshot, panicVars
<1>3. ASSUME MarkAndPersist(s)
      PROVE  /\ writer'[s].actions = w.actions /\ snapshot' = writer'[s]
             /\ writer'[s].done = IF w.actions = 0 THEN w.done ELSE w.done \cup {w.actions}
             /\ UNCHANGED script /\ UNCHANGED <<ipv6, tun, routes, rules, resolv>>
  BY <1>1, <1>3 DEF MarkAndPersist, MarkLastDone, SetWriter, Persist, Snapshot, panicVars
<1>4. CASE LogSysctlSet(s)
  <2>1. pc[s] = "ipv6_log" /\ pc'[s] = "device" /\ AppendAndPersist(s, TRUE) /\ w.actions = 0
    BY <1>1, <1>4 DEF LogSysctlSet, PlanAt
  <2>2. writer'[s].actions = w.actions + 1 /\ writer'[s].done = w.done \cup {w.actions + 1}
    BY <1>2, <2>1
  <2>3. Effects(s)' = Effects(s) /\ Marked(s) = 0 /\ Marked(s)' = 1
    BY <2>1, <2>2 DEF Effects, Marked
  <2>4. writer'[s].done = 1 .. Marked(s)'
    BY <1>1, <2>1, <2>2, <2>3 DEF Mutating
  <2> QED BY <1>2, <2>1, <2>3, <2>4, LogProgress DEF Mutating
<1>5. CASE LogTunCreate(s)
  <2>1. pc[s] = "tun_log" /\ pc'[s] = "unlink" /\ AppendAndPersist(s, TRUE) /\ w.actions = 1
    BY <1>1, <1>5 DEF LogTunCreate, PlanAt
  <2>2. writer'[s].actions = w.actions + 1 /\ writer'[s].done = w.done \cup {w.actions + 1}
    BY <1>2, <2>1
  <2>3. Effects(s)' = Effects(s) /\ Marked(s) = 1 /\ Marked(s)' = 2
    BY <2>1, <2>2 DEF Effects, Marked
  <2>4. writer'[s].done = 1 .. Marked(s)'
    BY <1>1, <2>1, <2>2, <2>3 DEF Mutating
  <2> QED BY <1>2, <2>1, <2>3, <2>4, LogProgress DEF Mutating
<1>6. CASE LogResolvIntent(s)
  <2>1. pc[s] = "resolv_intent" /\ pc'[s] = "resolv_tmp" /\ AppendAndPersist(s, FALSE) /\ w.actions = 2
    BY <1>1, <1>6 DEF LogResolvIntent, PlanAt
  <2>2. writer'[s].actions = w.actions + 1 /\ writer'[s].done = w.done
    BY <1>2, <2>1
  <2>3. Effects(s)' = Effects(s) /\ Marked(s) = 2 /\ Marked(s)' = 2
    BY <2>1, <2>2 DEF Effects, Marked
  <2>4. writer'[s].done = 1 .. Marked(s)'
    BY <1>1, <2>1, <2>2, <2>3 DEF Mutating
  <2> QED BY <1>2, <2>1, <2>3, <2>4, LogProgress DEF Mutating
<1>7. CASE LogResolvDone(s)
  <2>1. pc[s] = "resolv_done" /\ pc'[s] = "intent" /\ MarkAndPersist(s) /\ w.actions = 3
    BY <1>1, <1>7 DEF LogResolvDone, PlanAt
  <2>2. writer'[s].actions = 3 /\ writer'[s].done = w.done \cup {3}
    BY <1>3, <2>1
  <2>3. Effects(s)' = Effects(s) /\ Marked(s) = 2 /\ Marked(s)' = 3
    BY <2>1, <2>2 DEF Effects, Marked
  <2>4. writer'[s].done = 1 .. Marked(s)'
    BY <1>1, <2>1, <2>2, <2>3 DEF Mutating
  <2> QED BY <1>3, <2>1, <2>3, <2>4, LogProgress DEF Mutating
<1>8. CASE LogIntent(s)
  <2>1. pc[s] = "intent" /\ pc'[s] = "add" /\ AppendAndPersist(s, FALSE)
    BY <1>1, <1>8 DEF LogIntent
  <2>2. writer'[s].actions = w.actions + 1 /\ writer'[s].done = w.done
    BY <1>2, <2>1
  <2>3. Effects(s)' = Effects(s) /\ Marked(s)' = Marked(s)
    BY <1>1, <2>1, <2>2 DEF Effects, Marked
  <2>4. writer'[s].done = 1 .. Marked(s)'
    BY <1>1, <2>1, <2>2, <2>3 DEF Mutating
  <2> QED BY <1>2, <2>1, <2>3, <2>4, LogProgress DEF Mutating
<1>9. CASE LogAdded(s)
  <2>1. /\ pc[s] = "added" /\ MarkAndPersist(s) /\ w.actions \in GwRoute .. LastAction
        /\ pc'[s] = IF w.actions = LastAction THEN "up" ELSE "intent"
    BY <1>1, <1>9 DEF LogAdded, PlanAt
  <2>2. writer'[s].actions = w.actions /\ writer'[s].done = w.done \cup {w.actions}
    BY <1>3, <2>1
  <2>3. Effects(s)' = Effects(s) /\ Marked(s) = w.actions - 1 /\ Marked(s)' = w.actions
    BY <2>1, <2>2 DEF Effects, Marked
  <2>4. writer'[s].done = 1 .. Marked(s)'
    BY <1>1, <2>1, <2>2, <2>3 DEF Mutating
  <2> QED BY <1>3, <2>1, <2>2, <2>3, <2>4, LogProgress DEF Mutating
<1> QED BY <1>4, <1>5, <1>6, <1>7, <1>8, <1>9

\* installRouting adds the next route or rule of the plan, or gives up.
LEMMA AddProgress ==
    ASSUME IndInv, ProgressInv, NEW s \in Sessions, AddRouteOrRule(s), UNCHANGED lifeVars
    PROVE  ProgressAt(s)'
<1> DEFINE a == writer[s].actions
<1> USE PlanNumbers
<1>1. /\ pc[s] = "add" /\ UNCHANGED <<ipv6, tun, resolv, snapshot, writer>>
      /\ \/ /\ pc'[s] = "added"
            /\ routes' = IF a < FirstBypass THEN routes \cup {a} ELSE routes
            /\ rules' = IF a < FirstBypass THEN rules ELSE rules \cup {Prio(a)}
         \/ pc'[s] = "cleanup"
  BY StepFacts DEF AddRouteOrRule, Advance
<1>2. a \in GwRoute .. LastAction /\ snapshot = writer[s] /\ writer[s].done = 1 .. a - 1
  BY <1>1, StepFacts DEF PlanAt, ProgressAt, Tunnelling, Mutating, Marked
<1>3. Effects(s) = a - 1 /\ HostAfter(s, a - 1)
  BY <1>1, StepFacts DEF ProgressAt, Tunnelling, Mutating, Effects
<1>4. CASE pc'[s] = "cleanup"
  BY <1>1, <1>4 DEF ProgressAt, Tunnelling, Mutating, Preparing
<1>5. CASE pc'[s] = "added"
  <2>1. Effects(s)' = a /\ Marked(s)' = a - 1
    BY <1>1, <1>5 DEF Effects, Marked
  <2>2. /\ (a >= SysctlSet => ipv6 = "1")'
        /\ (tun = IF a >= TunCreate THEN s ELSE NoTun)'
        /\ (resolv.text = OurContent <=> a >= ResolvWrite)'
    BY <1>1, <1>2, <1>3 DEF HostAfter
  <2>3. routes' = {GwRoute, DefRoute} \cap (1 .. a)
    BY <1>1, <1>2, <1>3, <1>5 DEF HostAfter
  <2>4. rules' = RulesOf(FirstBypass, a)
    <3>1. CASE a < FirstBypass
      <4>1. a \in Int /\ a - 1 \in Int /\ FirstBypass \in Int /\ a - 1 < FirstBypass
        BY <1>2, <3>1
      <4>2. RulesOf(FirstBypass, a - 1) = {}
        BY <4>1, NoRules
      <4>3. RulesOf(FirstBypass, a) = {}
        BY <3>1, <4>1, NoRules
      <4>4. rules' = rules /\ rules = RulesOf(FirstBypass, a - 1)
        BY <1>1, <1>3, <1>5, <3>1 DEF HostAfter
      <4> QED BY <4>2, <4>3, <4>4
    <3>2. CASE a >= FirstBypass
      <4>1. RulesOf(FirstBypass, a - 1) \cup {Prio(a)} = RulesOf(FirstBypass, a)
        BY <1>2, <3>2, OneMoreRule
      <4>2. rules = RulesOf(FirstBypass, a - 1)
        BY <1>3 DEF HostAfter
      <4>3. ~(a < FirstBypass)
        BY <1>2, <3>2
      <4> QED BY <1>1, <1>5, <4>1, <4>2, <4>3
    <3> QED BY <1>2, <3>1, <3>2
  <2>5. HostAfter(s, a)'
    BY <1>1, <2>2, <2>3, <2>4 DEF HostAfter
  <2> QED BY <1>1, <1>2, <1>5, <2>1, <2>5 DEF ProgressAt, Tunnelling, Mutating, Preparing
<1> QED BY <1>1, <1>4, <1>5

\* A session that leaves the path from Start to up claims nothing.
LEMMA LeaveProgress ==
    ASSUME NEW s \in Sessions, pc'[s] \in Over \cup Stopping \cup Reverting
    PROVE  ProgressAt(s)'
BY DEF ProgressAt, Tunnelling, Over, Stopping, Reverting, Preparing, Mutating

\* Every step of Start, of Close and of cleanupOnFailure.
LEMMA SessionProgress ==
    ASSUME IndInv, ProgressInv, NEW s \in Sessions, SessionRuns(s) \/ SessionFails(s)
    PROVE  ProgressInv'
<1>1. pc \in [Sessions -> Starting \cup Stopping \cup Reverting \cup Over \cup {"up"}]
  BY StepFacts
<1>2. UNCHANGED lifeVars
  BY DEF SessionRuns, SessionFails
<1>3. ASSUME NEW p \in Over, pc' = [pc EXCEPT ![s] = p], \A t \in Sessions : writer'[t] = writer[t],
              UNCHANGED hostVars, \A r \in Runners : Running(r)' => Running(r)
      PROVE  ProgressInv'
  <2>1. pc'[s] \in Over /\ \A t \in Sessions \ {s} : pc'[t] = pc[t]
    BY <1>1, <1>3
  <2>2. ProgressAt(s)' /\ ClosingAt(s)'
    BY <2>1 DEF ProgressAt, ClosingAt, Tunnelling, Over, Preparing, Mutating, Reverting
  <2>3. \A t \in Sessions \ {s} : ProgressAt(t)' /\ ClosingAt(t)'
    BY <1>2, <1>3, <2>1, SameProgress DEF lifeVars, hostVars
  <2> QED BY <2>2, <2>3 DEF ProgressInv
<1>4. CASE CheckSnapshot(s)
  <2>1. CASE snapshot = NoSnapshot
    <3>1. pc' = [pc EXCEPT ![s] = "record"] /\ \A t \in Sessions : ~Active(t)
      BY <1>4, <2>1 DEF CheckSnapshot, Advance, IndInv, SerialInv
    <3>2. ProgressAt(s)' /\ ClosingAt(s)'
      BY <1>1, <1>2, <1>4, <3>1, PrepareProgress DEF ClosingAt, Reverting
    <3>3. \A t \in Sessions \ {s} : pc'[t] = pc[t] /\ writer'[t] = writer[t] /\ script'[t] = script[t]
      BY <1>1, <1>4, <3>1 DEF CheckSnapshot, panicVars
    <3> QED BY <3>1, <3>2, <3>3, AsideProgress DEF ProgressInv
  <2>2. CASE snapshot # NoSnapshot
    BY <1>3, <1>4, <2>2 DEF CheckSnapshot, Advance, Over, panicVars, Running
  <2> QED BY <2>1, <2>2
<1>5. CASE StartStep(s) /\ ~CheckSnapshot(s)
  <2>1. ProgressAt(s)'
    BY <1>2, <1>5, PrepareProgress, PersistProgress, MutateProgress, LogStepProgress, AddProgress
    DEF StartStep
  <2>2. PICK p \in Starting \cup Over \cup {"up", "cleanup"} : pc' = [pc EXCEPT ![s] = p]
    BY <1>5 DEF StartStep, CheckSnapshot, RecordResolvConf, RecordSysctl, CheckTun, PersistPreState,
       DisableIPv6, LogSysctlSet, BuildDevice, CreateTun, LogTunCreate, UnlinkSymlink,
       LogResolvIntent, WriteResolvTmp, RenameResolv, LogResolvDone, LogIntent, AddRouteOrRule,
       LogAdded, Advance, Over, Starting, Preparing, Mutating
  <2>3. ClosingAt(s)'
    <3>1. pc'[s] = p /\ p # "closing" /\ p \notin Reverting
      BY <1>1, <2>2 DEF Starting, Preparing, Mutating, Over, Reverting
    <3> QED BY <3>1 DEF ClosingAt
  <2>4. pc[s] \in Starting \ {"start"}
    BY <1>5 DEF StartStep, CheckSnapshot, RecordResolvConf, RecordSysctl, CheckTun, PersistPreState,
       DisableIPv6, LogSysctlSet, BuildDevice, CreateTun, LogTunCreate, UnlinkSymlink,
       LogResolvIntent, WriteResolvTmp, RenameResolv, LogResolvDone, LogIntent, AddRouteOrRule,
       LogAdded, Advance, Starting, Preparing, Mutating
  <2>5. UNCHANGED panicVars /\ (UNCHANGED writer \/ \E w : SetWriter(s, w))
    BY <1>5 DEF StartStep, CheckSnapshot, RecordResolvConf, RecordSysctl, CheckTun, PersistPreState,
       DisableIPv6, LogSysctlSet, BuildDevice, CreateTun, LogTunCreate, UnlinkSymlink,
       LogResolvIntent, WriteResolvTmp, RenameResolv, LogResolvDone, LogIntent, AddRouteOrRule,
       LogAdded, AppendAndPersist, MarkAndPersist
  <2>6. \A t \in Sessions \ {s} : writer'[t] = writer[t] /\ script'[t] = script[t]
    BY <2>5, StepFacts DEF SetWriter, panicVars
  <2> QED BY <2>1, <2>2, <2>3, <2>4, <2>6, OneProgress DEF Active
<1>6. CASE StartFails(s) \/ RevertCannotStart(s)
  <2>1. PICK p \in Over \cup {"cleanup"} : pc' = [pc EXCEPT ![s] = p]
    BY <1>1, <1>6 DEF StartFails, RevertCannotStart, Over
  <2>2. pc'[s] = p /\ Active(s)
    BY <1>1, <1>6, <2>1 DEF StartFails, RevertCannotStart, Active
  <2>3. ProgressAt(s)' /\ ClosingAt(s)'
    BY <2>2, LeaveProgress DEF ClosingAt, Over, Stopping, Reverting
  <2>4. UNCHANGED <<writer, script>>
    BY <1>6 DEF StartFails, RevertCannotStart, panicVars
  <2> QED BY <2>1, <2>2, <2>3, <2>4, OneProgress
<1>7. CASE RevertStarts(s)
  <2>1. PICK p \in Reverting : pc' = [pc EXCEPT ![s] = p]
    BY <1>1, <1>7 DEF RevertStarts, Reverting
  <2>2. pc'[s] = p /\ Active(s) /\ pc[s] \in Stopping /\ snapshot' = snapshot /\ meddled' = meddled
    BY <1>1, <1>2, <1>7, <2>1 DEF RevertStarts, Active, lifeVars
  <2>3. ~meddled => snapshot # NoSnapshot
    BY <2>2, StepFacts DEF ProgressInv, ClosingAt, MutateAt, Stopping
  <2>4. ProgressAt(s)' /\ ClosingAt(s)'
    BY <2>2, <2>3, LeaveProgress DEF ClosingAt
  <2>5. \A t \in Sessions \ {s} : writer'[t] = writer[t] /\ script'[t] = script[t]
    BY <1>7 DEF RevertStarts, Launch, IndInv, TypeOK, PanicTypeOK, Runners
  <2> QED BY <2>1, <2>2, <2>4, <2>5, OneProgress
<1>8. CASE RevertEnds(s)
  <2>1. PICK p \in Over : pc' = [pc EXCEPT ![s] = p]
    BY <1>1, <1>8 DEF RevertEnds, Over
  <2>2. \A r \in Runners : Running(r)' => Running(r)
    BY <1>8 DEF RevertEnds, Reap, Running, Commands, IndInv, TypeOK, PanicTypeOK
  <2>3. UNCHANGED <<writer, hostVars>>
    BY <1>8 DEF RevertEnds
  <2> QED BY <1>3, <2>1, <2>2, <2>3
<1> QED BY <1>4, <1>5, <1>6, <1>7, <1>8 DEF SessionRuns, SessionFails, SessionStep, SessionFailure

-----------------------------------------------------------------------------
(***************************************************************************)
(* The script, the service and the environment.                            *)
(***************************************************************************)

\* While a script runs no session builds a tunnel, and one that is up is meddled with.
LEMMA ScriptProgress ==
    ASSUME IndInv, ProgressInv, NEW r \in Runners, ScriptRuns(r) \/ ScriptFails(r)
    PROVE  ProgressInv'
<1>1. /\ Running(r) /\ UNCHANGED <<pc, writer, meddled>>
      /\ \A q \in Runners \ {r} : script'[q] = script[q]
      /\ snapshot' = snapshot \/ ~Running(r)'
  BY DEF ScriptRuns, ScriptFails, Command, Die, Killed, Check, Parse, CountSysctls,
     ReadSysctl, WriteSysctl, DeleteCatchall, CountRules, DeleteRule, RulesDeleted, FlushRoutes,
     ShowTun, DeleteTun, ReadExisted, ReadKind, ReadDetail, VerifyBackup, RemoveResolv, PutResolv,
     NoTarget, Retire,
     Goto, Running, Commands, sessionVars, lifeVars, hostVars, IndInv, TypeOK, PanicTypeOK
<1> SUFFICES ASSUME NEW s \in Sessions PROVE ProgressAt(s)' /\ ClosingAt(s)'
  BY DEF ProgressInv
<1>2. ProgressAt(s) /\ ClosingAt(s)
  BY DEF ProgressInv
<1>3. pc[s] \notin AtWork
  BY <1>1, ScriptsIdle DEF IndInv
<1>4. pc[s] = "up" => meddled
  BY <1>1, <1>2 DEF ProgressAt
<1>5. pc[s] \notin Mutating \cup {"closing"}
  BY <1>3 DEF AtWork, Starting, Preparing, Mutating, Stopping
<1>6. ProgressAt(s)'
  BY <1>1, <1>2, <1>4, <1>5 DEF ProgressAt, Tunnelling
<1>7. ClosingAt(s)'
  <2> SUFFICES ASSUME ~meddled, pc[s] \in Reverting, Running(s)' PROVE snapshot' # NoSnapshot
    BY <1>1, <1>5 DEF ClosingAt
  <2>1. s = r
    <3>1. s \in Runners
      BY DEF Runners
    <3> QED BY <1>1, <3>1 DEF IndInv, SerialInv, Running
  <2> QED BY <1>1, <1>2, <2>1 DEF ClosingAt
<1> QED BY <1>6, <1>7

\* When nothing is connected and nothing in flight, every session is over.
LEMMA RestProgress ==
    ASSUME \A s \in Sessions : pc'[s] \in Over
    PROVE  ProgressInv'
BY DEF ProgressInv, ProgressAt, ClosingAt, Tunnelling, Over, Preparing, Mutating, Reverting

\* A Start begins.
LEMMA StartsProgress ==
    ASSUME IndInv, ProgressInv, NEW s \in Sessions, pc' = [pc EXCEPT ![s] = "start"],
           writer' = [writer EXCEPT ![s] = NewWriter], UNCHANGED hostVars, UNCHANGED panicVars,
           meddled' = meddled \/ \A t \in Sessions : pc[t] \in Over
    PROVE  ProgressInv'
<1>1. /\ pc'[s] = "start" /\ writer'[s].done = {}
      /\ \A t \in Sessions \ {s} : pc'[t] = pc[t] /\ writer'[t] = writer[t]
  BY DEF NewWriter, IndInv, TypeOK, SessionTypeOK
<1>2. ProgressAt(s)' /\ ClosingAt(s)'
  BY <1>1 DEF ProgressAt, ClosingAt, Tunnelling, Preparing, Mutating, Reverting
<1>3. ASSUME NEW t \in Sessions \ {s} PROVE ProgressAt(t)' /\ ClosingAt(t)'
  <2>1. CASE meddled' = meddled
    BY <1>1, <2>1, SameProgress DEF hostVars, panicVars, Running
  <2>2. CASE pc[t] \in Over
    BY <1>1, <2>2 DEF ProgressAt, ClosingAt, Tunnelling, Over, Preparing, Mutating, Reverting
  <2> QED BY <2>1, <2>2
<1> QED BY <1>2, <1>3 DEF ProgressInv

\* A Close begins.
LEMMA ClosesProgress ==
    ASSUME IndInv, ProgressInv, NEW s \in Sessions, Advance(s, "up", "closing"),
           UNCHANGED <<writer, panicVars, lifeVars, hostVars>>
    PROVE  ProgressInv'
<1>1. pc[s] = "up" /\ pc' = [pc EXCEPT ![s] = "closing"] /\ Active(s) /\ pc'[s] = "closing"
  BY StepFacts DEF Advance, Active
<1>2. ~meddled => snapshot # NoSnapshot
  BY <1>1, StepFacts, NoSnapshotAssumption DEF ProgressAt, Tunnelling
<1>3. ProgressAt(s)' /\ ClosingAt(s)'
  BY <1>1, <1>2, LeaveProgress DEF ClosingAt, Stopping, hostVars, lifeVars
<1> QED BY <1>1, <1>3, OneProgress DEF panicVars

\* The client and the user.
LEMMA CommandProgress ==
    ASSUME IndInv, ProgressInv,
           \/ \E s \in Sessions : Connect(s) \/ Disconnect(s) \/ Shutdown(s)
           \/ Undo \/ StopPostStarts \/ ManualPanic \/ AdminEdit
    PROVE  ProgressInv'
<1>1. pc \in [Sessions -> Starting \cup Stopping \cup Reverting \cup Over \cup {"up"}]
  BY DEF IndInv, TypeOK, SessionTypeOK
<1>2. Idle => \A s \in Sessions : pc[s] \in Over \cup {"up"}
  BY DEF Idle, Busy
<1>3. ASSUME NEW s \in Sessions, Connect(s) PROVE ProgressInv'
  <2>1. \A t \in Sessions : pc[t] \in Over
    BY <1>2, <1>3 DEF Connect, Connected
  <2> QED BY <1>3, <2>1, StartsProgress DEF Connect
<1>4. ASSUME NEW s \in Sessions, Disconnect(s) \/ Shutdown(s) PROVE ProgressInv'
  BY <1>4, ClosesProgress DEF Disconnect, Shutdown
<1>5. CASE Undo \/ AdminEdit
  BY <1>2, <1>5, RestProgress DEF Undo, AdminEdit, Connected, sessionVars
<1>6. CASE StopPostStarts
  BY <1>6, RestProgress DEF StopPostStarts, sessionVars, IndInv, SerialInv
<1>7. CASE ManualPanic
  <2> SUFFICES ASSUME NEW s \in Sessions PROVE ProgressAt(s)' /\ ClosingAt(s)'
    BY DEF ProgressInv
  <2>1. ProgressAt(s) /\ UNCHANGED <<pc, writer>> /\ meddled' = TRUE /\ pc[s] \in Over \cup {"up"}
    BY <1>2, <1>7 DEF ManualPanic, sessionVars, ProgressInv
  <2> QED BY <2>1 DEF ProgressAt, ClosingAt, Tunnelling, Over, Preparing, Mutating
<1> QED BY <1>3, <1>4, <1>5, <1>6, <1>7

\* Every step preserves the invariant.
LEMMA NextProgress ==
    ASSUME IndInv, ProgressInv, Next
    PROVE  ProgressInv'
<1>1. CASE \E s \in Sessions : SessionRuns(s) \/ SessionFails(s)
  BY <1>1, SessionProgress
<1>2. CASE \E r \in Runners : ScriptRuns(r) \/ ScriptFails(r)
  BY <1>2, ScriptProgress
<1>3. CASE \/ \E s \in Sessions : Connect(s) \/ Disconnect(s) \/ Shutdown(s)
           \/ Undo \/ StopPostStarts \/ ManualPanic \/ AdminEdit
  BY <1>3, CommandProgress
<1>4. CASE Crash \/ Reboot
  BY <1>4, RestProgress DEF Crash, Reboot, ProcessesDie, Over
<1>5. CASE UndoEnds \/ StopPostEnds \/ ManualEnds
  <2>1. \A r \in Runners : Running(r)' => Running(r)
    BY <1>5 DEF UndoEnds, StopPostEnds, ManualEnds, Reap, Running, Commands, IndInv, TypeOK, PanicTypeOK
  <2> QED BY <1>5, <2>1, QuietProgress DEF UndoEnds, StopPostEnds, ManualEnds, lifeVars, hostVars
<1>6. CASE Terminate \/ Drained \/ Exit \/ StartDaemon
  <2>1. \A r \in Runners : Running(r)' => Running(r)
    BY <1>6 DEF Terminate, Drained, Exit, StartDaemon, KillScripts, panicVars, Running, Commands
  <2> QED BY <1>6, <2>1, QuietProgress DEF Terminate, Drained, Exit, StartDaemon, hostVars
<1> QED BY <1>1, <1>2, <1>3, <1>4, <1>5, <1>6 DEF Next

-----------------------------------------------------------------------------
(***************************************************************************)
(* The theorems.                                                           *)
(***************************************************************************)

\* At every call of Start, and as long as a session is up, the host has exactly the
\* effects of the plan's prefix that the program counter names and the snapshot marks.
THEOREM Progress == ASSUME SafeConfig PROVE Spec => []ProgressInv
<1>1. Init => ProgressInv
  BY OverProgress DEF Init, SessionInit, ProgressInv, Over
<1>2. IndInv /\ ProgressInv /\ [Next]_vars => ProgressInv'
  <2> SUFFICES ASSUME IndInv, ProgressInv, [Next]_vars PROVE ProgressInv'
    OBVIOUS
  <2>1. CASE Next
    BY <2>1, NextProgress
  <2>2. CASE UNCHANGED vars
    BY <2>2, QuietProgress DEF vars, hostVars, panicVars, lifeVars, Running
  <2> QED BY <2>1, <2>2
<1>3. Spec => []IndInv
  BY Invariance
<1> QED BY <1>1, <1>2, <1>3, PTL DEF Spec

\* The invariant makes a session that is up a complete tunnel.
LEMMA ProgressTunnels == ASSUME ProgressInv PROVE UpMeansTunnelled
<1> SUFFICES ASSUME NEW s \in Sessions, pc[s] = "up", ~meddled
             PROVE  /\ ipv6 = "1" /\ tun = s /\ routes = {GwRoute, DefRoute} /\ rules = AllPriorities
                    /\ resolv.text = OurContent /\ snapshot.done = 1 .. LastAction
  BY DEF UpMeansTunnelled
<1>1. Effects(s) = LastAction /\ Marked(s) = LastAction
  BY DEF ProgressInv, ProgressAt, Effects, Marked
<1>2. HostAfter(s, LastAction) /\ snapshot.done = 1 .. LastAction
  BY <1>1 DEF ProgressInv, ProgressAt, Tunnelling
<1>3. {GwRoute, DefRoute} \cap (1 .. LastAction) = {GwRoute, DefRoute}
  BY PlanNumbers
<1> QED BY <1>2, <1>3, PlanNumbers DEF HostAfter, AllPriorities

\* A session whose Start has returned nil, and that nobody has begun to close or to
\* meddle with, has the whole plan in place: IPv6 off, its own TUN with both routes,
\* every bypass rule and the catchall, our resolv.conf, and a snapshot that marks all.
THEOREM UpIsTunnelled == ASSUME SafeConfig PROVE Spec => []UpMeansTunnelled
<1>1. ProgressInv => UpMeansTunnelled
  BY ProgressTunnels
<1> QED BY <1>1, Progress, PTL

\* While Start mutates the host, the Done flags on disk tell what has happened up to
\* the one action that is announced and not yet marked (markLastActionDone).
THEOREM DoneTells == ASSUME SafeConfig PROVE Spec => []DoneTellsApplied
<1>1. IndInv /\ ProgressInv => DoneTellsApplied
  <2> SUFFICES ASSUME IndInv, ProgressInv, NEW s \in Sessions, pc[s] \in Mutating
               PROVE  /\ \A a \in snapshot.done : Applied(a)
                      /\ \A a \in (ResolvWrite .. LastAction) \ snapshot.done :
                            Applied(a) => a = snapshot.actions
    BY DEF DoneTellsApplied
  <2> DEFINE n == snapshot.actions
             e == Effects(s)
  <2>1. /\ snapshot = writer[s] /\ snapshot.done = 1 .. Marked(s) /\ HostAfter(s, e)
        /\ n \in 0 .. LastAction /\ PlanAt(s)
    BY StepFacts DEF ProgressAt, Tunnelling
  <2>2. /\ e \in 0 .. n + 1 /\ Marked(s) \in 0 .. e /\ n - 1 <= Marked(s)
        /\ e > n => e < ResolvWrite
        /\ e <= LastAction
    <3>1. CASE pc[s] \in {"ipv6", "ipv6_log"}
      BY <2>1, <3>1, PlanNumbers DEF Effects, Marked, PlanAt
    <3>2. CASE pc[s] \in {"device", "tun", "tun_log"}
      BY <2>1, <3>2, PlanNumbers DEF Effects, Marked, PlanAt
    <3>3. CASE pc[s] \in {"unlink", "resolv_intent"}
      BY <2>1, <3>3, PlanNumbers DEF Effects, Marked, PlanAt
    <3>4. CASE pc[s] \in {"resolv_tmp", "resolv_rename", "resolv_done"}
      BY <2>1, <3>4, PlanNumbers DEF Effects, Marked, PlanAt
    <3>5. CASE pc[s] \in {"intent", "add", "added"}
      <4>1. n \in ResolvWrite .. LastAction
        BY <2>1, <3>5, PlanNumbers DEF PlanAt
      <4>2. \/ e = n /\ Marked(s) \in {n, n - 1}
            \/ e = n - 1 /\ Marked(s) = n - 1
        BY <2>1, <3>5 DEF Effects, Marked
      <4> HIDE DEF n, e
      <4> QED BY <4>1, <4>2, PlanNumbers
    <3> QED BY <3>1, <3>2, <3>3, <3>4, <3>5 DEF Mutating
  <2>3. \A a \in 1 .. e : Applied(a)
    <3> SUFFICES ASSUME NEW a \in 1 .. e PROVE Applied(a)
      OBVIOUS
    <3>1. CASE a < FirstBypass
      <4>1. a \in {SysctlSet, TunCreate, ResolvWrite, GwRoute, DefRoute}
        BY <2>2, <3>1, PlanNumbers
      <4> HIDE DEF n, e
      <4> QED BY <2>1, <2>2, <4>1, PlanNumbers DEF HostAfter, Applied
    <3>2. CASE a >= FirstBypass
      <4>1. Prio(a) \in RulesOf(FirstBypass, e)
        BY <2>2, <3>2, Numbers, PlanNumbers DEF RulesOf, Prio, Catchall
      <4> QED BY <2>1, <3>2, <4>1, PlanNumbers DEF HostAfter, Applied
    <3> QED BY <2>2, <3>1, <3>2, PlanNumbers
  <2>4. \A a \in ResolvWrite .. LastAction : Applied(a) => a <= e
    <3> SUFFICES ASSUME NEW a \in ResolvWrite .. LastAction, Applied(a) PROVE a <= e
      OBVIOUS
    <3>1. CASE a < FirstBypass
      BY <2>1, <2>2, <3>1, PlanNumbers DEF HostAfter, Applied
    <3>2. CASE a >= FirstBypass
      <4>1. Prio(a) \in RulesOf(FirstBypass, e)
        BY <2>1, <3>2, PlanNumbers DEF HostAfter, Applied
      <4> QED BY <2>2, <3>2, <4>1, Numbers, PlanNumbers DEF RulesOf, Prio, Catchall
    <3> QED BY <3>1, <3>2, PlanNumbers
  <2> QED BY <2>1, <2>2, <2>3, <2>4, PlanNumbers
<1> QED BY <1>1, Invariance, Progress, PTL
=============================================================================

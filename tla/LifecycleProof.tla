--------------------------- MODULE LifecycleProof ---------------------------
(***************************************************************************)
(* Proofs about Lifecycle, for any set of sessions, any number of bypasses *)
(* and any contents of resolv.conf.                                        *)
(***************************************************************************)
EXTENDS LifecycleInv, TLAPS

-----------------------------------------------------------------------------
(***************************************************************************)
(* Arithmetic of rule priorities.                                          *)
(***************************************************************************)

\* The constants are numbers.
LEMMA Numbers == NumBypasses \in Nat /\ NumBypasses >= 1 /\ RulePriority \in Nat
BY NumBypassesAssumption, RulePriorityAssumption

\* The positions of the plan as numbers.
LEMMA PlanNumbers ==
    /\ LastAction \in Nat /\ LastAction >= 7
    /\ Catchall = LastAction
    /\ SysctlSet = 1 /\ TunCreate = 2 /\ ResolvWrite = 3 /\ GwRoute = 4 /\ DefRoute = 5
    /\ FirstBypass = 6
BY Numbers
DEF LastAction, Catchall, FirstBypass, SysctlSet, TunCreate, ResolvWrite, GwRoute, DefRoute

\* The rule of the last action is the catchall, and the ones before are bypasses.
LEMMA CatchallRule == Prio(LastAction) = RulePriority
BY Numbers DEF Prio, LastAction, Catchall, FirstBypass

\* The rule of an action has one of our priorities.
LEMMA OneRule ==
    ASSUME NEW a \in FirstBypass .. LastAction
    PROVE  Prio(a) \in AllPriorities /\ Prio(a) \in RulesOf(FirstBypass, a)
BY Numbers DEF Prio, RulesOf, AllPriorities, LastAction, Catchall, FirstBypass

\* The next action adds exactly its own rule.
LEMMA OneMoreRule ==
    ASSUME NEW a \in FirstBypass .. LastAction
    PROVE  RulesOf(FirstBypass, a - 1) \cup {Prio(a)} = RulesOf(FirstBypass, a)
BY Numbers DEF Prio, RulesOf, LastAction, Catchall, FirstBypass

\* An empty range of actions has no rules.
LEMMA NoRules ==
    ASSUME NEW a \in Int, NEW b \in Int, b < a
    PROVE  RulesOf(a, b) = {}
BY Numbers DEF Prio, RulesOf, Catchall, FirstBypass

\* A longer plan has all the rules of a shorter one.
LEMMA MoreRules ==
    ASSUME NEW b \in Int
    PROVE  RulesOf(FirstBypass, b) \subseteq RulesOf(FirstBypass, b + 1)
BY Numbers DEF Prio, RulesOf, Catchall, FirstBypass

\* No action before the last adds the catchall.
LEMMA CatchallIsLast ==
    ASSUME NEW b \in Int, b < LastAction
    PROVE  RulePriority \notin RulesOf(FirstBypass, b)
BY Numbers DEF Prio, RulesOf, LastAction, Catchall, FirstBypass

\* Deleting the first rule of a range leaves the rest of the range.
LEMMA DropFirstRule ==
    ASSUME NEW a \in Int, NEW b \in Int, NEW R, R \subseteq RulesOf(a, b)
    PROVE  R \ {Prio(a)} \subseteq RulesOf(a + 1, b)
BY Numbers DEF Prio, RulesOf, Catchall, FirstBypass

-----------------------------------------------------------------------------
(***************************************************************************)
(* Frames: what the steps of one component leave alone.                    *)
(***************************************************************************)

\* A session at work, past its look for a snapshot and with its script still to come.
AtWork == (Starting \ {"start"}) \cup Stopping

\* No script runs beside a session at work.
LEMMA ScriptsIdle ==
    ASSUME SerialInv, NEW s \in Sessions, pc[s] \in AtWork
    PROVE  \A r \in Runners : ~Running(r)
<1> SUFFICES ASSUME NEW r \in Runners, Running(r) PROVE FALSE
  OBVIOUS
<1>1. pc[s] # "up" /\ pc[s] \notin Reverting /\ Active(s)
  BY DEF AtWork, Starting, Preparing, Mutating, Stopping, Reverting, Active
<1>2. r = s
  BY <1>1 DEF SerialInv
<1>3. script[s] # "idle"
  BY <1>2 DEF Running, Commands
<1> QED BY <1>1, <1>3 DEF SerialInv

\* A step of the one session at work keeps the host to one.
LEMMA SerialSession ==
    ASSUME TypeOK, SerialInv, NEW s \in Sessions, pc[s] \in AtWork,
           NEW p, p \in AtWork \cup Over \cup {"up"}, pc[s] \in Stopping => p \in Over,
           pc' = [pc EXCEPT ![s] = p], script' = script, daemon' = daemon,
           snapshot' = NoSnapshot => snapshot = NoSnapshot
    PROVE  SerialInv'
<1>1. /\ pc'[s] = p /\ \A t \in Sessions \ {s} : pc'[t] = pc[t]
      /\ p # "start" /\ p \notin Reverting /\ pc[s] \notin Reverting /\ pc[s] # "start"
      /\ pc[s] \notin Over
  BY DEF TypeOK, SessionTypeOK, AtWork, Starting, Preparing, Mutating, Stopping, Over, Reverting
<1>2. \A r \in Runners : ~Running(r) /\ ~Running(r)'
  BY ScriptsIdle DEF Running
<1>3. Active(s) /\ \A t \in Sessions \ {s} : ~Active(t)
  BY DEF SerialInv, Active, AtWork
<1>4. \A t \in Sessions \ {s} : ~Active(t)'
  BY <1>1, <1>3 DEF Active, Running
<1>5. ASSUME NEW t \in Sessions \ {s}, pc[t] = "start" PROVE p \in Over /\ snapshot # NoSnapshot
  <2>1. snapshot # NoSnapshot
    BY <1>3, <1>5 DEF SerialInv
  <2>2. pc[s] \in Stopping
    BY <1>5 DEF SerialInv, AtWork
  <2> QED BY <2>1, <2>2
<1>6. p \in Over => p \notin Starting \cup {"up"}
  BY DEF Over, Starting, Preparing, Mutating
<1>7. \A t \in Sessions : script'[t] # "idle" => pc'[t] \in Reverting
  BY <1>1 DEF SerialInv
<1>8. daemon' \notin {"dead", "stop_post", "stopped"}
  BY <1>1 DEF SerialInv
<1> QED BY <1>1, <1>2, <1>3, <1>4, <1>5, <1>6, <1>7, <1>8 DEF SerialInv

\* What is said of the scripts stays true while none runs.
LEMMA NoScriptRuns ==
    ASSUME ScriptInv, \A r \in Runners : ~Running(r), UNCHANGED panicVars
    PROVE  ScriptInv'
<1> SUFFICES ASSUME NEW r \in Runners PROVE ScriptAt(r)'
  BY DEF ScriptInv
<1>1. /\ script'[r] = script[r] /\ failed'[r] = failed[r] /\ idx'[r] = idx[r]
      /\ want'[r] = want[r] /\ script[r] \notin Commands /\ ScriptAt(r)
  BY DEF panicVars, Running, ScriptInv
<1> QED BY <1>1 DEF ScriptAt, ReadAt, BeforeSysctl, OnResolv, Commands

Resting == Over \cup Reverting \cup {"up", "closing"}

\* Nothing is claimed about the writer of a session that rests.
LEMMA RestingSession ==
    ASSUME NEW s \in Sessions, pc'[s] \in Resting
    PROVE  PrepareAt(s)' /\ PlanAt(s)' /\ MutateAt(s)'
BY DEF Resting, Over, Reverting, Preparing, Mutating, PrepareAt, PlanAt, MutateAt

\* Little is claimed about the writer of a session that has yet to look for a snapshot.
LEMMA WaitingSession ==
    ASSUME SessionInv, NEW s \in Sessions, pc[s] \in Resting \cup {"start"},
           pc'[s] = pc[s], writer'[s] = writer[s]
    PROVE  PrepareAt(s)' /\ PlanAt(s)' /\ MutateAt(s)'
<1>1. CASE pc[s] = "start"
  BY <1>1 DEF SessionInv, PrepareAt, PlanAt, MutateAt, Preparing, Mutating
<1> QED BY <1>1, RestingSession

\* What is claimed of a session that stands still over a host that stands still.
LEMMA SameSessions ==
    ASSUME SessionInv, NEW s \in Sessions, pc'[s] = pc[s], writer'[s] = writer[s],
           UNCHANGED hostVars, original' = original
    PROVE  PrepareAt(s)' /\ PlanAt(s)' /\ MutateAt(s)'
BY DEF SessionInv, PrepareAt, PlanAt, MutateAt, BackupMatches, hostVars

\* A step of the session at work is judged by that session alone.
LEMMA OneSession ==
    ASSUME TypeOK, SerialInv, SessionInv, NEW s \in Sessions, NEW p, Active(s),
           pc' = [pc EXCEPT ![s] = p], \A t \in Sessions \ {s} : writer'[t] = writer[t],
           PrepareAt(s)' /\ PlanAt(s)' /\ MutateAt(s)'
    PROVE  SessionInv'
<1> SUFFICES ASSUME NEW t \in Sessions, t # s
             PROVE  PrepareAt(t)' /\ PlanAt(t)' /\ MutateAt(t)'
  BY DEF SessionInv
<1>1. ~Active(t) /\ pc'[t] = pc[t] /\ writer'[t] = writer[t]
  BY DEF SerialInv, TypeOK, SessionTypeOK
<1>2. pc[t] \in Resting \cup {"start"}
  BY <1>1 DEF Active, Resting, TypeOK, SessionTypeOK
<1> QED BY <1>1, <1>2, WaitingSession

\* While a script runs, every session rests or has yet to look for a snapshot.
LEMMA SessionsRest ==
    ASSUME TypeOK, SerialInv, SessionInv, NEW r \in Runners, Running(r), UNCHANGED sessionVars
    PROVE  SessionInv'
<1> SUFFICES ASSUME NEW s \in Sessions PROVE pc[s] \in Resting \cup {"start"}
  BY WaitingSession DEF SessionInv, sessionVars
<1>1. pc[s] \notin AtWork
  BY ScriptsIdle
<1> QED BY <1>1 DEF AtWork, Resting, TypeOK, SessionTypeOK

\* A step of the one running script keeps the host to one, if the script that removes
\* the snapshot ends with that.
LEMMA SerialScript ==
    ASSUME TypeOK, SerialInv, NEW r \in Runners, Running(r), NEW x,
           script' = [script EXCEPT ![r] = x], x # "idle", pc' = pc, daemon' = daemon,
           snapshot' = NoSnapshot => snapshot = NoSnapshot \/ x \notin Commands
    PROVE  SerialInv'
<1>1. script'[r] = x /\ \A q \in Runners \ {r} : script'[q] = script[q] /\ ~Running(q) /\ ~Running(q)'
  BY DEF SerialInv, Running, TypeOK, PanicTypeOK
<1>2. \A s \in Sessions : Active(s)' => Active(s)
  BY <1>1 DEF Active, Runners
<1>3. \A s \in Sessions : script'[s] # "idle" => pc'[s] \in Reverting
  <2>1. script[r] # "idle"
    BY DEF Running, Commands
  <2> QED BY <1>1, <2>1 DEF SerialInv, Runners
<1>4. ASSUME NEW s \in Sessions, pc[s] = "start", snapshot' = NoSnapshot
      PROVE  (\A t \in Sessions : ~Active(t)') /\ (\A q \in Runners : ~Running(q)')
  <2>1. snapshot # NoSnapshot
    BY <1>4 DEF SerialInv
  <2>2. \A q \in Runners : ~Running(q)'
    BY <1>1, <2>1, <1>4 DEF Running
  <2>3. ASSUME NEW t \in Sessions, Active(t)' PROVE FALSE
    <3>1. pc[t] \notin Reverting
      BY <1>1, <2>2, <2>3 DEF Active, Runners, AtWork, Starting, Preparing, Mutating, Stopping, Reverting
    <3>2. pc[t] # "up" /\ pc[t] # "start"
      BY <1>4, <2>3 DEF SerialInv, Active, Starting, Preparing, Mutating, Stopping, Reverting
    <3>3. pc[t] \in AtWork
      BY <2>3, <3>1, <3>2 DEF Active, AtWork
    <3> QED BY <3>3, ScriptsIdle
  <2> QED BY <2>2, <2>3
<1>5. \A s \in Sessions : Active(s)' /\ Active(s) /\ pc'[s] # "up" => \A q \in Runners : Running(q)' => q = s
  BY <1>1 DEF SerialInv
<1> QED BY <1>1, <1>2, <1>3, <1>4, <1>5 DEF SerialInv

\* A step of one script is judged by that script alone.
LEMMA OneScript ==
    ASSUME TypeOK, SerialInv, ScriptInv, NEW r \in Runners, Running(r), NEW x,
           script' = [script EXCEPT ![r] = x],
           \A q \in Runners \ {r} : failed'[q] = failed[q] /\ idx'[q] = idx[q] /\ want'[q] = want[q],
           ScriptAt(r)'
    PROVE  ScriptInv'
<1> SUFFICES ASSUME NEW q \in Runners, q # r PROVE ScriptAt(q)'
  BY DEF ScriptInv
<1>1. script'[q] = script[q] /\ script[q] \in {"idle"} \cup Exits /\ ScriptAt(q)
  BY DEF SerialInv, Running, ScriptInv, TypeOK, PanicTypeOK
<1>2. failed'[q] = 0 /\ idx'[q] = 0
  BY <1>1 DEF ScriptAt, ReadAt, BeforeSysctl, OnResolv
<1> QED BY <1>1, <1>2 DEF ScriptAt, ReadAt, BeforeSysctl, OnResolv, Commands, Exits

\* What is claimed of a script that stands still over a host that stands still.
LEMMA SameScripts ==
    ASSUME ScriptInv, NEW r \in Runners, script'[r] = script[r], failed'[r] = failed[r],
           idx'[r] = idx[r], count'[r] = count[r], want'[r] = want[r],
           UNCHANGED hostVars, original' = original
    PROVE  ScriptAt(r)'
BY DEF ScriptInv, ScriptAt, ReadAt, BeforeSysctl, OnResolv, RestoredResolv, hostVars

\* The step leaves the writers of the other sessions alone and removes no snapshot.
LeavesOthers(s) ==
    /\ \A t \in Sessions \ {s} : writer'[t] = writer[t]
    /\ snapshot' = NoSnapshot => snapshot = NoSnapshot

\* A step of a session preserves the invariant if it keeps the host in order and
\* establishes what is claimed of the session's new program counter.
LEMMA SessionStepInv ==
    ASSUME IndInv, NEW s \in Sessions, pc[s] \in AtWork, LeavesOthers(s),
           NEW p \in AtWork \cup Over \cup {"up"}, pc[s] \in Stopping => p \in Over,
           pc' = [pc EXCEPT ![s] = p], writer' \in [Sessions -> Snapshot],
           UNCHANGED panicVars, UNCHANGED lifeVars,
           HostTypeOK', CleanInv', DirtyInv', NoTunnelLoop',
           PrepareAt(s)', PlanAt(s)', MutateAt(s)'
    PROVE  IndInv'
<1> USE DEF IndInv
<1>1. TypeOK'
  <2>1. PanicTypeOK' /\ LifecycleTypeOK'
    BY DEF TypeOK, PanicTypeOK, LifecycleTypeOK, panicVars, lifeVars
  <2>2. SessionTypeOK'
    BY DEF TypeOK, SessionTypeOK, AtWork
  <2> QED BY <2>1, <2>2 DEF TypeOK
<1>2. SerialInv'
  BY SerialSession DEF panicVars, lifeVars, LeavesOthers
<1>3. SessionInv'
  BY OneSession DEF LeavesOthers, Active, AtWork
<1>4. ScriptInv'
  BY ScriptsIdle, NoScriptRuns
<1> QED BY <1>1, <1>2, <1>3, <1>4

\* Steps that do not touch the host.
LEMMA HostUnchanged ==
    ASSUME IndInv, UNCHANGED hostVars, UNCHANGED lifeVars
    PROVE  HostTypeOK' /\ CleanInv' /\ DirtyInv' /\ NoTunnelLoop'
<1> USE DEF IndInv, hostVars, lifeVars
<1>1. HostTypeOK'
  BY DEF TypeOK, HostTypeOK
<1>2. CleanInv'
  BY DEF CleanInv, RestoredResolv
<1>3. DirtyInv'
  BY DEF DirtyInv, TruePreState, BackupMatches
<1>4. NoTunnelLoop'
  BY DEF NoTunnelLoop
<1> QED BY <1>1, <1>2, <1>3, <1>4

-----------------------------------------------------------------------------
(***************************************************************************)
(* Session.Start.                                                          *)
(***************************************************************************)

\* Start looks for a snapshot: from here on there is none.
LEMMA CheckSnapshotInv ==
    ASSUME IndInv, NEW s \in Sessions, CheckSnapshot(s), UNCHANGED lifeVars
    PROVE  IndInv'
<1> USE DEF CheckSnapshot, Advance, IndInv
<1>1. HostTypeOK' /\ CleanInv' /\ DirtyInv' /\ NoTunnelLoop'
  BY HostUnchanged
<1>2. TypeOK'
  BY <1>1 DEF TypeOK, PanicTypeOK, SessionTypeOK, LifecycleTypeOK, panicVars, lifeVars, Starting, Preparing,
     Over
<1>3. PICK p \in {"record", "failed"} :
        pc' = [pc EXCEPT ![s] = p] /\ (p = "record" <=> snapshot = NoSnapshot)
  OBVIOUS
<1>4. SerialInv'
  <2>1. /\ pc'[s] = p /\ \A t \in Sessions \ {s} : pc'[t] = pc[t]
        /\ script' = script /\ daemon' = daemon /\ snapshot' = snapshot
    BY <1>3 DEF TypeOK, SessionTypeOK, panicVars, lifeVars, hostVars
  <2>2. \A t \in Sessions \ {s} : pc[t] # "start" /\ (Active(t)' <=> Active(t))
    BY <2>1 DEF SerialInv, Active, Running, Starting, Preparing
  <2>3. \A r \in Runners : Running(r)' <=> Running(r)
    BY <2>1 DEF Running
  <2>4. CASE p = "record"
    <3>1. (\A t \in Sessions : ~Active(t)) /\ (\A r \in Runners : ~Running(r))
      BY <1>3, <2>4 DEF SerialInv
    <3>2. script[s] = "idle" /\ daemon \notin {"dead", "stop_post", "stopped"}
      BY DEF SerialInv, Reverting, Over
    <3> QED BY <2>1, <2>2, <2>3, <2>4, <3>1, <3>2 DEF SerialInv
  <2>5. CASE p = "failed"
    <3>1. ~Active(s)' /\ pc'[s] \in Over
      BY <2>1, <2>5 DEF Active, Over, Starting, Preparing, Mutating, Stopping, Reverting
    <3>2. script[s] = "idle" /\ daemon \notin {"dead", "stop_post", "stopped"}
      BY DEF SerialInv, Reverting, Over
    <3> QED BY <2>1, <2>2, <2>3, <2>5, <3>1, <3>2 DEF SerialInv
  <2> QED BY <2>4, <2>5
<1>5. SessionInv'
  <2>1. PrepareAt(s)' /\ PlanAt(s)' /\ MutateAt(s)'
    BY <1>3 DEF PrepareAt, PlanAt, MutateAt, SessionInv, TypeOK, SessionTypeOK, Preparing, Mutating, hostVars
  <2>2. \A t \in Sessions \ {s} : PrepareAt(t)' /\ PlanAt(t)' /\ MutateAt(t)'
    BY SameSessions DEF TypeOK, SessionTypeOK, lifeVars
  <2> QED BY <2>1, <2>2 DEF SessionInv
<1>6. ScriptInv'
  BY SameScripts DEF ScriptInv, panicVars, lifeVars
<1> QED BY <1>1, <1>2, <1>4, <1>5, <1>6

\* The sysctl value read is the administrator's, for there is no snapshot.
LEMMA RecordSysctlInv ==
    ASSUME IndInv, NEW s \in Sessions, RecordSysctl(s), UNCHANGED lifeVars
    PROVE  IndInv'
<1> USE PlanNumbers DEF RecordSysctl, Advance, IndInv
<1>1. HostTypeOK' /\ CleanInv' /\ DirtyInv' /\ NoTunnelLoop'
  BY HostUnchanged
<1>2. writer' \in [Sessions -> Snapshot]
  BY DEF TypeOK, SessionTypeOK, HostTypeOK, SetWriter, Snapshot
<1>3. PrepareAt(s)'
  BY DEF PrepareAt, SessionInv, TypeOK, SessionTypeOK, Preparing, Over, SetWriter, CleanInv, BackupMatches, hostVars, lifeVars
<1>4. PlanAt(s)' /\ MutateAt(s)'
  BY DEF PlanAt, MutateAt, SessionInv, TypeOK, SessionTypeOK, Mutating, hostVars, Over
<1>5. LeavesOthers(s)
  BY NoSnapshotAssumption DEF LeavesOthers, SetWriter, Persist, hostVars, TypeOK, SessionTypeOK
<1> QED
  BY <1>1, <1>2, <1>3, <1>4, <1>5, SessionStepInv DEF AtWork, Starting, Preparing, Mutating, Stopping, Over, Reverting

\* The interface name is free from here on.
LEMMA CheckTunInv ==
    ASSUME IndInv, NEW s \in Sessions, CheckTun(s), UNCHANGED lifeVars
    PROVE  IndInv'
<1> USE PlanNumbers DEF CheckTun, Advance, IndInv
<1>1. HostTypeOK' /\ CleanInv' /\ DirtyInv' /\ NoTunnelLoop'
  BY HostUnchanged
<1>2. writer' \in [Sessions -> Snapshot]
  BY DEF TypeOK, SessionTypeOK, HostTypeOK, SetWriter, Snapshot
<1>3. PrepareAt(s)'
  BY DEF PrepareAt, SessionInv, TypeOK, SessionTypeOK, Preparing, Over, SetWriter, CleanInv, BackupMatches, hostVars, lifeVars
<1>4. PlanAt(s)' /\ MutateAt(s)'
  BY DEF PlanAt, MutateAt, SessionInv, TypeOK, SessionTypeOK, Mutating, hostVars, Over
<1>5. LeavesOthers(s)
  BY NoSnapshotAssumption DEF LeavesOthers, SetWriter, Persist, hostVars, TypeOK, SessionTypeOK
<1> QED
  BY <1>1, <1>2, <1>3, <1>4, <1>5, SessionStepInv DEF AtWork, Starting, Preparing, Mutating, Stopping, Over, Reverting

\* Resolving the server and building the device touch no host state.
LEMMA BuildDeviceInv ==
    ASSUME IndInv, NEW s \in Sessions, BuildDevice(s), UNCHANGED lifeVars
    PROVE  IndInv'
<1> USE PlanNumbers DEF BuildDevice, Advance, IndInv
<1>1. HostTypeOK' /\ CleanInv' /\ DirtyInv' /\ NoTunnelLoop'
  BY HostUnchanged
<1>2. writer' \in [Sessions -> Snapshot]
  BY DEF TypeOK, SessionTypeOK, HostTypeOK, SetWriter, Snapshot
<1>3. PrepareAt(s)'
  BY DEF PrepareAt, SessionInv, TypeOK, SessionTypeOK, Preparing, Over, SetWriter, CleanInv, BackupMatches, hostVars, lifeVars
<1>4. PlanAt(s)' /\ MutateAt(s)'
  BY DEF PlanAt, MutateAt, SessionInv, TypeOK, SessionTypeOK, Mutating, hostVars, Over
<1>5. LeavesOthers(s)
  BY NoSnapshotAssumption DEF LeavesOthers, SetWriter, Persist, hostVars, TypeOK, SessionTypeOK
<1> QED
  BY <1>1, <1>2, <1>3, <1>4, <1>5, SessionStepInv DEF AtWork, Starting, Preparing, Mutating, Stopping, Over, Reverting

\* The resolv.conf recorded is the administrator's, and its backup matches.
LEMMA RecordResolvConfInv ==
    ASSUME IndInv, NEW s \in Sessions, RecordResolvConf(s), UNCHANGED lifeVars
    PROVE  IndInv'
<1> USE PlanNumbers DEF RecordResolvConf, Advance, IndInv
<1>1. HostTypeOK'
  BY DEF TypeOK, HostTypeOK, ResolvFiles
<1>2. writer' \in [Sessions -> Snapshot]
  <2> DEFINE state == [kind |-> resolv.kind, text |-> resolv.text]
  <2>1. state \in ResolvConfState
    BY DEF TypeOK, HostTypeOK, ResolvFiles, ResolvConfState
  <2> HIDE DEF state
  <2>2. [NewWriter EXCEPT !.resolv_conf = state] \in Snapshot
    BY <2>1 DEF NewWriter, Snapshot
  <2>3. writer' = [writer EXCEPT ![s] = [NewWriter EXCEPT !.resolv_conf = state]]
    BY DEF SetWriter, state
  <2> QED
    BY <2>2, <2>3 DEF TypeOK, SessionTypeOK
<1>3. CleanInv'
  BY DEF CleanInv, RestoredResolv, lifeVars
<1>4. DirtyInv'
  BY DEF DirtyInv, SessionInv, PrepareAt, Preparing
<1>5. NoTunnelLoop'
  BY DEF NoTunnelLoop
<1>6. PrepareAt(s)'
  BY DEF PrepareAt, SessionInv, Preparing, TypeOK, SessionTypeOK, SetWriter, NewWriter, CleanInv, RestoredResolv, BackupMatches, lifeVars
<1>7. PlanAt(s)'
  BY DEF PlanAt, TypeOK, SessionTypeOK
<1>8. MutateAt(s)'
  BY DEF MutateAt, Mutating, TypeOK, SessionTypeOK
<1>9. LeavesOthers(s)
  BY NoSnapshotAssumption DEF LeavesOthers, SetWriter, Persist, hostVars, TypeOK, SessionTypeOK
<1> QED
  BY <1>1, <1>2, <1>3, <1>4, <1>5, <1>6, <1>7, <1>8, <1>9, SessionStepInv
  DEF AtWork, Starting, Preparing, Mutating, Stopping, Over, Reverting

\* The first Persist: a true pre-state reaches the disk.
LEMMA PersistPreStateInv ==
    ASSUME IndInv, NEW s \in Sessions, PersistPreState(s), UNCHANGED lifeVars
    PROVE  IndInv'
<1> USE PlanNumbers DEF PersistPreState, Advance, IndInv
<1>1. HostTypeOK'
  BY DEF TypeOK, HostTypeOK, SessionTypeOK, Persist
<1>2. writer' \in [Sessions -> Snapshot]
  BY DEF TypeOK, SessionTypeOK
<1>3. CleanInv'
  BY NoSnapshotAssumption DEF CleanInv, Persist, TypeOK, SessionTypeOK
<1>4. DirtyInv'
  BY DEF DirtyInv, Persist, SessionInv, PrepareAt, Preparing, TruePreState, BackupMatches, CleanInv, lifeVars
<1>5. NoTunnelLoop'
  BY DEF NoTunnelLoop
<1>6. PrepareAt(s)'
  BY DEF PrepareAt, Preparing, TypeOK, SessionTypeOK
<1>7. PlanAt(s)'
  BY DEF PlanAt, SessionInv, PrepareAt, Preparing, TypeOK, SessionTypeOK
<1>8. MutateAt(s)'
  BY DEF MutateAt, Mutating, SessionInv, PrepareAt, Preparing, CleanInv, Persist, TypeOK, SessionTypeOK
<1>9. LeavesOthers(s)
  BY NoSnapshotAssumption DEF LeavesOthers, SetWriter, Persist, hostVars, TypeOK, SessionTypeOK
<1> QED
  BY <1>1, <1>2, <1>3, <1>4, <1>5, <1>6, <1>7, <1>8, <1>9, SessionStepInv
  DEF AtWork, Starting, Preparing, Mutating, Stopping, Over, Reverting

\* The first mutation happens under a snapshot.
LEMMA DisableIPv6Inv ==
    ASSUME IndInv, NEW s \in Sessions, DisableIPv6(s), UNCHANGED lifeVars
    PROVE  IndInv'
<1> USE PlanNumbers DEF DisableIPv6, Advance, IndInv
<1>1. HostTypeOK'
  BY DEF TypeOK, HostTypeOK
<1>2. writer' \in [Sessions -> Snapshot]
  BY DEF TypeOK, SessionTypeOK
<1>3. CleanInv'
  BY NoSnapshotAssumption DEF CleanInv, SessionInv, MutateAt, Mutating, TypeOK, SessionTypeOK
<1>4. DirtyInv'
  BY DEF DirtyInv, TruePreState, BackupMatches, lifeVars
<1>5. NoTunnelLoop'
  BY DEF NoTunnelLoop
<1>6. PrepareAt(s)'
  BY DEF PrepareAt, Preparing, TypeOK, SessionTypeOK
<1>7. PlanAt(s)'
  BY DEF PlanAt, SessionInv, TypeOK, SessionTypeOK
<1>8. MutateAt(s)'
  BY NoSnapshotAssumption DEF MutateAt, Mutating, SessionInv, TypeOK, SessionTypeOK
<1>9. LeavesOthers(s)
  BY NoSnapshotAssumption DEF LeavesOthers, SetWriter, Persist, hostVars, TypeOK, SessionTypeOK
<1> QED
  BY <1>1, <1>2, <1>3, <1>4, <1>5, <1>6, <1>7, <1>8, <1>9, SessionStepInv
  DEF AtWork, Starting, Preparing, Mutating, Stopping, Over, Reverting

\* The TUN is created under a snapshot.
LEMMA CreateTunInv ==
    ASSUME IndInv, NEW s \in Sessions, CreateTun(s), UNCHANGED lifeVars
    PROVE  IndInv'
<1> USE PlanNumbers DEF CreateTun, Advance, IndInv
<1>1. HostTypeOK'
  BY DEF TypeOK, HostTypeOK
<1>2. writer' \in [Sessions -> Snapshot]
  BY DEF TypeOK, SessionTypeOK
<1>3. CleanInv'
  BY NoSnapshotAssumption DEF CleanInv, SessionInv, MutateAt, Mutating, TypeOK, SessionTypeOK
<1>4. DirtyInv'
  BY DEF DirtyInv, TruePreState, BackupMatches, lifeVars
<1>5. NoTunnelLoop'
  BY DEF NoTunnelLoop
<1>6. PrepareAt(s)'
  BY DEF PrepareAt, Preparing, TypeOK, SessionTypeOK
<1>7. PlanAt(s)'
  BY DEF PlanAt, SessionInv, TypeOK, SessionTypeOK
<1>8. MutateAt(s)'
  BY NoSnapshotAssumption DEF MutateAt, Mutating, SessionInv, TypeOK, SessionTypeOK
<1>9. LeavesOthers(s)
  BY NoSnapshotAssumption DEF LeavesOthers, SetWriter, Persist, hostVars, TypeOK, SessionTypeOK
<1> QED
  BY <1>1, <1>2, <1>3, <1>4, <1>5, <1>6, <1>7, <1>8, <1>9, SessionStepInv
  DEF AtWork, Starting, Preparing, Mutating, Stopping, Over, Reverting

\* The symlink is removed under a snapshot that holds its target.
LEMMA UnlinkSymlinkInv ==
    ASSUME IndInv, NEW s \in Sessions, UnlinkSymlink(s), UNCHANGED lifeVars
    PROVE  IndInv'
<1> USE PlanNumbers DEF UnlinkSymlink, Advance, IndInv
<1>1. HostTypeOK'
  BY DEF TypeOK, HostTypeOK, ResolvFiles, AbsentFile, Kinds, Texts
<1>2. writer' \in [Sessions -> Snapshot]
  BY DEF TypeOK, SessionTypeOK
<1>3. CleanInv'
  BY NoSnapshotAssumption DEF CleanInv, SessionInv, MutateAt, Mutating, TypeOK, SessionTypeOK
<1>4. DirtyInv'
  BY DEF DirtyInv, TruePreState, BackupMatches, lifeVars
<1>5. NoTunnelLoop'
  BY DEF NoTunnelLoop
<1>6. PrepareAt(s)'
  BY DEF PrepareAt, Preparing, TypeOK, SessionTypeOK
<1>7. PlanAt(s)'
  BY DEF PlanAt, SessionInv, TypeOK, SessionTypeOK
<1>8. MutateAt(s)'
  BY NoSnapshotAssumption DEF MutateAt, Mutating, SessionInv, TypeOK, SessionTypeOK
<1>9. LeavesOthers(s)
  BY NoSnapshotAssumption DEF LeavesOthers, SetWriter, Persist, hostVars, TypeOK, SessionTypeOK
<1> QED
  BY <1>1, <1>2, <1>3, <1>4, <1>5, <1>6, <1>7, <1>8, <1>9, SessionStepInv
  DEF AtWork, Starting, Preparing, Mutating, Stopping, Over, Reverting

\* The temporary file is not part of what is restored.
LEMMA WriteResolvTmpInv ==
    ASSUME IndInv, NEW s \in Sessions, WriteResolvTmp(s), UNCHANGED lifeVars
    PROVE  IndInv'
<1> USE PlanNumbers DEF WriteResolvTmp, Advance, IndInv
<1>1. HostTypeOK'
  BY DEF TypeOK, HostTypeOK
<1>2. writer' \in [Sessions -> Snapshot]
  BY DEF TypeOK, SessionTypeOK
<1>3. CleanInv'
  BY NoSnapshotAssumption DEF CleanInv, SessionInv, MutateAt, Mutating, TypeOK, SessionTypeOK
<1>4. DirtyInv'
  BY DEF DirtyInv, TruePreState, BackupMatches, lifeVars
<1>5. NoTunnelLoop'
  BY DEF NoTunnelLoop
<1>6. PrepareAt(s)'
  BY DEF PrepareAt, Preparing, TypeOK, SessionTypeOK
<1>7. PlanAt(s)'
  BY DEF PlanAt, SessionInv, TypeOK, SessionTypeOK
<1>8. MutateAt(s)'
  BY NoSnapshotAssumption DEF MutateAt, Mutating, SessionInv, TypeOK, SessionTypeOK
<1>9. LeavesOthers(s)
  BY NoSnapshotAssumption DEF LeavesOthers, SetWriter, Persist, hostVars, TypeOK, SessionTypeOK
<1> QED
  BY <1>1, <1>2, <1>3, <1>4, <1>5, <1>6, <1>7, <1>8, <1>9, SessionStepInv
  DEF AtWork, Starting, Preparing, Mutating, Stopping, Over, Reverting

\* resolv.conf is replaced under a snapshot that holds the original.
LEMMA RenameResolvInv ==
    ASSUME IndInv, NEW s \in Sessions, RenameResolv(s), UNCHANGED lifeVars
    PROVE  IndInv'
<1> USE PlanNumbers DEF RenameResolv, Advance, IndInv
<1>1. HostTypeOK'
  BY DEF TypeOK, HostTypeOK, ResolvFiles, RegularFile, Kinds, Texts
<1>2. writer' \in [Sessions -> Snapshot]
  BY DEF TypeOK, SessionTypeOK
<1>3. CleanInv'
  BY NoSnapshotAssumption DEF CleanInv, SessionInv, MutateAt, Mutating, TypeOK, SessionTypeOK
<1>4. DirtyInv'
  BY DEF DirtyInv, TruePreState, BackupMatches, lifeVars
<1>5. NoTunnelLoop'
  BY DEF NoTunnelLoop
<1>6. PrepareAt(s)'
  BY DEF PrepareAt, Preparing, TypeOK, SessionTypeOK
<1>7. PlanAt(s)'
  BY DEF PlanAt, SessionInv, TypeOK, SessionTypeOK
<1>8. MutateAt(s)'
  BY NoSnapshotAssumption DEF MutateAt, Mutating, SessionInv, TypeOK, SessionTypeOK
<1>9. LeavesOthers(s)
  BY NoSnapshotAssumption DEF LeavesOthers, SetWriter, Persist, hostVars, TypeOK, SessionTypeOK
<1> QED
  BY <1>1, <1>2, <1>3, <1>4, <1>5, <1>6, <1>7, <1>8, <1>9, SessionStepInv
  DEF AtWork, Starting, Preparing, Mutating, Stopping, Over, Reverting

\* AppendAction and MarkLastDone keep the recorded pre-state.
LEMMA AppendedSnapshot ==
    ASSUME NEW w \in Snapshot, w.actions < LastAction
    PROVE  /\ \A d \in {TRUE, FALSE} : AppendAction(w, d) \in Snapshot
           /\ \A d : /\ AppendAction(w, d).resolv_conf = w.resolv_conf
                    /\ AppendAction(w, d).value_before = w.value_before
                    /\ AppendAction(w, d).actions = w.actions + 1
<1>1. w.done \cup {w.actions + 1} \subseteq 1 .. LastAction /\ w.actions + 1 \in 0 .. LastAction
  BY PlanNumbers DEF Snapshot
<1>2. AppendAction(w, TRUE) \in Snapshot
  BY <1>1 DEF AppendAction, Snapshot
<1>3. AppendAction(w, FALSE) \in Snapshot
  BY <1>1 DEF AppendAction, Snapshot
<1>4. \A d : /\ AppendAction(w, d).resolv_conf = w.resolv_conf
            /\ AppendAction(w, d).value_before = w.value_before
            /\ AppendAction(w, d).actions = w.actions + 1
  BY DEF AppendAction, Snapshot
<1> QED BY <1>2, <1>3, <1>4

\* Marking an action done leaves pre-state and actions alone.
LEMMA MarkedSnapshot ==
    ASSUME NEW w \in Snapshot
    PROVE  /\ MarkLastDone(w) \in Snapshot
           /\ MarkLastDone(w).resolv_conf = w.resolv_conf
           /\ MarkLastDone(w).value_before = w.value_before
           /\ MarkLastDone(w).actions = w.actions
BY PlanNumbers DEF MarkLastDone, Snapshot

\* A step that changes the writer and persists it: the pre-state stays, and what
\* is recorded only grows.
LEMMA PersistStepInv ==
    ASSUME IndInv, NEW s \in Sessions, pc[s] \in Mutating,
           NEW p \in Mutating \cup {"up"}, pc' = [pc EXCEPT ![s] = p],
           NEW w \in Snapshot, SetWriter(s, w), Persist(w),
           w.resolv_conf = writer[s].resolv_conf, w.value_before = writer[s].value_before,
           w.actions \in {writer[s].actions, writer[s].actions + 1},
           UNCHANGED <<ipv6, tun, routes, rules, resolv, resolvTmp, backup, faults>>,
           UNCHANGED panicVars, UNCHANGED lifeVars,
           PlanAt(s)', MutateAt(s)'
    PROVE  IndInv'
<1> USE DEF IndInv, Persist
<1>1. snapshot = writer[s] /\ snapshot \in Snapshot /\ snapshot # NoSnapshot
  BY NoSnapshotAssumption DEF TypeOK, SessionTypeOK, SessionInv, MutateAt
<1>2. HostTypeOK'
  BY DEF TypeOK, HostTypeOK
<1>3. writer' \in [Sessions -> Snapshot]
  BY DEF TypeOK, SessionTypeOK, SetWriter
<1>4. CleanInv'
  BY NoSnapshotAssumption DEF CleanInv
<1>5. DirtyInv'
  <2>1. RecordedPriorities(snapshot) \subseteq RecordedPriorities(w)
    BY <1>1, MoreRules DEF RecordedPriorities, Snapshot
  <2> QED BY <1>1, <2>1 DEF DirtyInv, TruePreState, BackupMatches, lifeVars
<1>6. NoTunnelLoop'
  BY DEF NoTunnelLoop
<1>7. PrepareAt(s)'
  BY DEF PrepareAt, Preparing, Mutating, TypeOK, SessionTypeOK
<1>8. LeavesOthers(s)
  BY NoSnapshotAssumption DEF LeavesOthers, SetWriter, Persist, hostVars, TypeOK, SessionTypeOK
<1>9. pc[s] \in AtWork /\ pc[s] \notin Stopping /\ p \in AtWork \cup Over \cup {"up"}
  BY DEF AtWork, Starting, Preparing, Mutating, Stopping
<1> QED BY <1>2, <1>3, <1>4, <1>5, <1>6, <1>7, <1>8, <1>9, SessionStepInv

\* sysctl_set is logged: no rule can exist yet.
LEMMA LogSysctlSetInv ==
    ASSUME IndInv, NEW s \in Sessions, LogSysctlSet(s), UNCHANGED lifeVars
    PROVE  IndInv'
<1> USE PlanNumbers DEF LogSysctlSet, Advance, AppendAndPersist, IndInv
<1> DEFINE w == AppendAction(writer[s], TRUE)
<1>1. writer[s] \in Snapshot /\ writer[s].actions \in 0 .. LastAction
  BY DEF TypeOK, SessionTypeOK, Snapshot
<1>2. PlanAt(s) /\ MutateAt(s) /\ pc[s] \in Mutating
  BY DEF SessionInv, Mutating
<1>3. writer[s].actions < LastAction
  BY <1>1, <1>2 DEF PlanAt
<1>4. /\ w \in Snapshot
      /\ w.resolv_conf = writer[s].resolv_conf /\ w.value_before = writer[s].value_before
      /\ w.actions = writer[s].actions + 1
  BY ONLY <1>1, <1>3, AppendedSnapshot
<1>5. snapshot' = w /\ writer'[s] = w /\ rules' = rules
  BY DEF Persist, SetWriter, TypeOK, SessionTypeOK
<1> HIDE DEF w
<1>6. PlanAt(s)'
  BY <1>1, <1>2, <1>4, <1>5 DEF PlanAt, TypeOK, SessionTypeOK
<1>7. MutateAt(s)'
  BY <1>1, <1>2, <1>4, <1>5 DEF MutateAt, PlanAt, Mutating, TypeOK, SessionTypeOK
<1> QED
  BY <1>2, <1>4, <1>6, <1>7, PersistStepInv DEF Mutating, w

\* tun_create is logged.
LEMMA LogTunCreateInv ==
    ASSUME IndInv, NEW s \in Sessions, LogTunCreate(s), UNCHANGED lifeVars
    PROVE  IndInv'
<1> USE PlanNumbers DEF LogTunCreate, Advance, AppendAndPersist, IndInv
<1> DEFINE w == AppendAction(writer[s], TRUE)
<1>1. writer[s] \in Snapshot /\ writer[s].actions \in 0 .. LastAction
  BY DEF TypeOK, SessionTypeOK, Snapshot
<1>2. PlanAt(s) /\ MutateAt(s) /\ pc[s] \in Mutating
  BY DEF SessionInv, Mutating
<1>3. writer[s].actions < LastAction
  BY <1>1, <1>2 DEF PlanAt
<1>4. /\ w \in Snapshot
      /\ w.resolv_conf = writer[s].resolv_conf /\ w.value_before = writer[s].value_before
      /\ w.actions = writer[s].actions + 1
  BY ONLY <1>1, <1>3, AppendedSnapshot
<1>5. snapshot' = w /\ writer'[s] = w /\ rules' = rules
  BY DEF Persist, SetWriter, TypeOK, SessionTypeOK
<1> HIDE DEF w
<1>6. PlanAt(s)'
  BY <1>1, <1>2, <1>4, <1>5 DEF PlanAt, TypeOK, SessionTypeOK
<1>7. MutateAt(s)'
  BY <1>1, <1>2, <1>4, <1>5 DEF MutateAt, PlanAt, Mutating, TypeOK, SessionTypeOK
<1> QED
  BY <1>2, <1>4, <1>6, <1>7, PersistStepInv DEF Mutating, w

\* resolv_write is announced.
LEMMA LogResolvIntentInv ==
    ASSUME IndInv, NEW s \in Sessions, LogResolvIntent(s), UNCHANGED lifeVars
    PROVE  IndInv'
<1> USE PlanNumbers DEF LogResolvIntent, Advance, AppendAndPersist, IndInv
<1> DEFINE w == AppendAction(writer[s], FALSE)
<1>1. writer[s] \in Snapshot /\ writer[s].actions \in 0 .. LastAction
  BY DEF TypeOK, SessionTypeOK, Snapshot
<1>2. PlanAt(s) /\ MutateAt(s) /\ pc[s] \in Mutating
  BY DEF SessionInv, Mutating
<1>3. writer[s].actions < LastAction
  BY <1>1, <1>2 DEF PlanAt
<1>4. /\ w \in Snapshot
      /\ w.resolv_conf = writer[s].resolv_conf /\ w.value_before = writer[s].value_before
      /\ w.actions = writer[s].actions + 1
  BY ONLY <1>1, <1>3, AppendedSnapshot
<1>5. snapshot' = w /\ writer'[s] = w /\ rules' = rules
  BY DEF Persist, SetWriter, TypeOK, SessionTypeOK
<1> HIDE DEF w
<1>6. PlanAt(s)'
  BY <1>1, <1>2, <1>4, <1>5 DEF PlanAt, TypeOK, SessionTypeOK
<1>7. MutateAt(s)'
  BY <1>1, <1>2, <1>4, <1>5 DEF MutateAt, PlanAt, Mutating, TypeOK, SessionTypeOK
<1> QED
  BY <1>2, <1>4, <1>6, <1>7, PersistStepInv DEF Mutating, w

\* resolv_write is done: the routes and rules come next, and none exists.
LEMMA LogResolvDoneInv ==
    ASSUME IndInv, NEW s \in Sessions, LogResolvDone(s), UNCHANGED lifeVars
    PROVE  IndInv'
<1> USE PlanNumbers DEF LogResolvDone, Advance, MarkAndPersist, IndInv
<1> DEFINE w == MarkLastDone(writer[s])
<1>1. writer[s] \in Snapshot /\ writer[s].actions \in 0 .. LastAction
  BY DEF TypeOK, SessionTypeOK, Snapshot
<1>2. PlanAt(s) /\ MutateAt(s) /\ pc[s] \in Mutating
  BY DEF SessionInv, Mutating
<1>3. /\ w \in Snapshot
      /\ w.resolv_conf = writer[s].resolv_conf /\ w.value_before = writer[s].value_before
      /\ w.actions = writer[s].actions
  BY ONLY <1>1, MarkedSnapshot
<1>4. snapshot' = w /\ writer'[s] = w /\ rules' = rules
  BY DEF Persist, SetWriter, TypeOK, SessionTypeOK
<1> HIDE DEF w
<1>5. PlanAt(s)'
  BY <1>1, <1>2, <1>3, <1>4 DEF PlanAt, TypeOK, SessionTypeOK
<1>6. RulesOf(FirstBypass, ResolvWrite) = {}
  BY NoRules
<1>7. MutateAt(s)'
  BY <1>1, <1>2, <1>3, <1>4, <1>6 DEF MutateAt, PlanAt, Mutating, TypeOK, SessionTypeOK
<1> QED
  BY <1>2, <1>3, <1>5, <1>7, PersistStepInv DEF Mutating, w

\* A route or rule is announced: the recorded rules include the next one.
LEMMA LogIntentInv ==
    ASSUME IndInv, NEW s \in Sessions, LogIntent(s), UNCHANGED lifeVars
    PROVE  IndInv'
<1> USE PlanNumbers DEF LogIntent, Advance, AppendAndPersist, IndInv
<1> DEFINE w == AppendAction(writer[s], FALSE)
<1>1. writer[s] \in Snapshot /\ writer[s].actions \in 0 .. LastAction
  BY DEF TypeOK, SessionTypeOK, Snapshot
<1>2. PlanAt(s) /\ MutateAt(s) /\ pc[s] \in Mutating
  BY DEF SessionInv, Mutating
<1>3. writer[s].actions < LastAction
  BY <1>1, <1>2 DEF PlanAt
<1>4. /\ w \in Snapshot
      /\ w.resolv_conf = writer[s].resolv_conf /\ w.value_before = writer[s].value_before
      /\ w.actions = writer[s].actions + 1
  BY ONLY <1>1, <1>3, AppendedSnapshot
<1>5. snapshot' = w /\ writer'[s] = w /\ rules' = rules
  BY DEF Persist, SetWriter, TypeOK, SessionTypeOK
<1> HIDE DEF w
<1>6. PlanAt(s)'
  BY <1>1, <1>2, <1>4, <1>5 DEF PlanAt, TypeOK, SessionTypeOK
<1>7. writer[s].actions = w.actions - 1
  BY <1>1, <1>4
<1>8. MutateAt(s)'
  BY <1>1, <1>2, <1>4, <1>5, <1>7 DEF MutateAt, PlanAt, Mutating, TypeOK, SessionTypeOK
<1> QED
  BY <1>2, <1>4, <1>6, <1>8, PersistStepInv DEF Mutating, w

\* A route or rule is done: exactly the rules of the recorded actions exist.
LEMMA LogAddedInv ==
    ASSUME IndInv, NEW s \in Sessions, LogAdded(s), UNCHANGED lifeVars
    PROVE  IndInv'
<1> USE PlanNumbers DEF LogAdded, Advance, MarkAndPersist, IndInv
<1> DEFINE w == MarkLastDone(writer[s])
<1>1. writer[s] \in Snapshot /\ writer[s].actions \in 0 .. LastAction
  BY DEF TypeOK, SessionTypeOK, Snapshot
<1>2. PlanAt(s) /\ MutateAt(s) /\ pc[s] \in Mutating
  BY DEF SessionInv, Mutating
<1>3. /\ w \in Snapshot
      /\ w.resolv_conf = writer[s].resolv_conf /\ w.value_before = writer[s].value_before
      /\ w.actions = writer[s].actions
  BY ONLY <1>1, MarkedSnapshot
<1>4. snapshot' = w /\ writer'[s] = w /\ rules' = rules
  BY DEF Persist, SetWriter, TypeOK, SessionTypeOK
<1> HIDE DEF w
<1>5. PlanAt(s)'
  BY <1>1, <1>2, <1>3, <1>4 DEF PlanAt, TypeOK, SessionTypeOK
<1>6. MutateAt(s)'
  BY <1>1, <1>2, <1>3, <1>4 DEF MutateAt, PlanAt, Mutating, TypeOK, SessionTypeOK
<1> QED
  BY <1>2, <1>3, <1>5, <1>6, PersistStepInv DEF Mutating, w

\* A route or rule is added: it is the one announced last.
LEMMA AddRouteOrRuleInv ==
    ASSUME IndInv, NEW s \in Sessions, AddRouteOrRule(s), UNCHANGED lifeVars
    PROVE  IndInv'
<1> USE PlanNumbers DEF AddRouteOrRule, Advance, IndInv
<1> DEFINE a == writer[s].actions
<1>1. a \in GwRoute .. LastAction /\ snapshot = writer[s] /\ snapshot # NoSnapshot
  BY NoSnapshotAssumption DEF SessionInv, PlanAt, MutateAt, Mutating, TypeOK, SessionTypeOK
<1>2. rules = RulesOf(FirstBypass, a - 1)
  BY DEF SessionInv, MutateAt
<1>3. a < FirstBypass => rules = {} /\ RulesOf(FirstBypass, a) = {}
  BY <1>1, <1>2, NoRules
<1>4. a >= FirstBypass =>
        /\ Prio(a) \in AllPriorities /\ Prio(a) \in RulesOf(FirstBypass, a)
        /\ RulesOf(FirstBypass, a - 1) \cup {Prio(a)} = RulesOf(FirstBypass, a)
  BY <1>1, OneRule, OneMoreRule
<1>5. \/ rules' = RulesOf(FirstBypass, a) /\ pc' = [pc EXCEPT ![s] = "added"]
      \/ UNCHANGED <<routes, rules>> /\ pc' = [pc EXCEPT ![s] = "cleanup"]
  <2>1. CASE pc' = [pc EXCEPT ![s] = "cleanup"] /\ UNCHANGED <<routes, rules>>
    BY <2>1
  <2>2. CASE /\ pc' = [pc EXCEPT ![s] = "added"]
             /\ rules' = IF a < FirstBypass THEN rules ELSE rules \cup {Prio(a)}
    <3>1. CASE a < FirstBypass
      BY <2>2, <3>1, <1>3
    <3>2. CASE a >= FirstBypass
      <4>1. ~(a < FirstBypass)
        BY <3>2, <1>1
      <4> QED BY <2>2, <3>2, <4>1, <1>2, <1>4
    <3> QED BY <1>1, <3>1, <3>2
  <2> QED BY <2>1, <2>2
<1>6. HostTypeOK'
  <2>1. routes' \subseteq {GwRoute, DefRoute}
    <3>1. a < FirstBypass => a \in {GwRoute, DefRoute}
      BY <1>1
    <3> QED BY <3>1 DEF TypeOK, HostTypeOK
  <2>2. rules' \subseteq AllPriorities
    BY <1>1, <1>4 DEF TypeOK, HostTypeOK
  <2> QED BY <2>1, <2>2 DEF TypeOK, HostTypeOK
<1>7. CleanInv'
  BY <1>1 DEF CleanInv
<1>8. DirtyInv'
  <2>1. rules' \subseteq {RulePriority} \cup RecordedPriorities(snapshot)
    BY <1>1, <1>5 DEF DirtyInv, RecordedPriorities
  <2> QED BY <2>1 DEF DirtyInv, TruePreState, BackupMatches, lifeVars
<1>9. NoTunnelLoop'
  <2>1. a < LastAction => RulePriority \notin RulesOf(FirstBypass, a)
    BY <1>1, CatchallIsLast
  <2>2. a = LastAction => Bypasses \subseteq RulesOf(FirstBypass, a)
    BY <1>4 DEF Bypasses
  <2> QED BY <1>1, <1>5, <2>1, <2>2 DEF NoTunnelLoop
<1>10. PrepareAt(s)'
  BY <1>5 DEF PrepareAt, Preparing, TypeOK, SessionTypeOK
<1>11. PlanAt(s)'
  BY <1>1, <1>5 DEF PlanAt, TypeOK, SessionTypeOK
<1>12. MutateAt(s)'
  BY <1>1, <1>5 DEF MutateAt, Mutating, TypeOK, SessionTypeOK
<1>13. LeavesOthers(s)
  BY NoSnapshotAssumption DEF LeavesOthers, SetWriter, Persist, hostVars, TypeOK, SessionTypeOK
<1> QED
  BY <1>5, <1>6, <1>7, <1>8, <1>9, <1>10, <1>11, <1>12, <1>13, SessionStepInv
  DEF AtWork, Starting, Mutating, Stopping, Over, Reverting, TypeOK, SessionTypeOK

\* An error return of Start, before or after the first Persist.
LEMMA StartFailsInv ==
    ASSUME IndInv, NEW s \in Sessions, StartFails(s), UNCHANGED lifeVars
    PROVE  IndInv'
<1> USE DEF StartFails, IndInv
<1>1. PrepareAt(s) /\ PlanAt(s) /\ MutateAt(s)
  BY DEF SessionInv
<1>2. PICK p \in {"failed", "cleanup"} :
        /\ pc' = [pc EXCEPT ![s] = p]
        /\ p = "cleanup" <=> pc[s] \in Mutating
  BY DEF Starting, Preparing, Mutating
<1>3. HostTypeOK'
  <2>1. resolvTmp' \in BOOLEAN
    BY DEF TypeOK, HostTypeOK
  <2>2. backup' \in Texts \cup {BadBackup} /\ faults' \in 0 .. MaxFaults
    BY MaxFaultsAssumption DEF TypeOK, HostTypeOK, Fault
  <2> QED BY <2>1, <2>2 DEF TypeOK, HostTypeOK
<1>4. CleanInv'
  BY DEF CleanInv, RestoredResolv, lifeVars
<1>5. pc[s] = "record" => snapshot = NoSnapshot
  BY <1>1 DEF PrepareAt, Preparing
<1>6. DirtyInv'
  BY <1>5 DEF DirtyInv, TruePreState, BackupMatches, lifeVars
<1>7. NoTunnelLoop'
  BY DEF NoTunnelLoop
<1>8. PrepareAt(s)' /\ PlanAt(s)'
  BY <1>2 DEF PrepareAt, PlanAt, Preparing, TypeOK, SessionTypeOK
<1>9. MutateAt(s)'
  BY <1>1, <1>2, NoSnapshotAssumption DEF MutateAt, Mutating, TypeOK, SessionTypeOK
<1>10. LeavesOthers(s)
  BY NoSnapshotAssumption DEF LeavesOthers, SetWriter, Persist, hostVars, TypeOK, SessionTypeOK
<1> QED
  BY <1>2, <1>3, <1>4, <1>6, <1>7, <1>8, <1>9, <1>10, SessionStepInv
  DEF AtWork, Starting, Preparing, Mutating, Stopping, Over, Reverting, TypeOK, SessionTypeOK

-----------------------------------------------------------------------------
(***************************************************************************)
(* Close and cleanupOnFailure.                                             *)
(***************************************************************************)

\* Closing the TUN descriptor of s: the interface goes, unless it is not ours.
LEMMA ClosedTun ==
    ASSUME IndInv, NEW s \in Sessions, CloseTun(s), faults' \in 0 .. MaxFaults,
           UNCHANGED <<ipv6, rules, resolv, resolvTmp, backup, snapshot>>, UNCHANGED lifeVars
    PROVE  HostTypeOK' /\ CleanInv' /\ DirtyInv' /\ NoTunnelLoop'
<1> USE DEF IndInv, CloseTun, lifeVars
<1>1. HostTypeOK'
  BY DEF TypeOK, HostTypeOK
<1>2. CleanInv'
  BY TunAssumption DEF CleanInv, RestoredResolv, TypeOK, LifecycleTypeOK, Originals
<1>3. DirtyInv'
  BY DEF DirtyInv, TruePreState, BackupMatches
<1>4. NoTunnelLoop'
  BY DEF NoTunnelLoop
<1> QED BY <1>1, <1>2, <1>3, <1>4

\* The script cannot be started: the snapshot stays.
LEMMA RevertCannotStartInv ==
    ASSUME IndInv, NEW s \in Sessions, RevertCannotStart(s), UNCHANGED lifeVars
    PROVE  IndInv'
<1> USE DEF RevertCannotStart, IndInv
<1>1. HostTypeOK' /\ CleanInv' /\ DirtyInv' /\ NoTunnelLoop'
  <2>1. faults' \in 0 .. MaxFaults
    BY MaxFaultsAssumption DEF Fault, TypeOK, HostTypeOK
  <2> QED BY <2>1, ClosedTun
<1>2. PICK p \in {"failed", "close_failed"} : pc' = [pc EXCEPT ![s] = p]
  BY DEF TypeOK, SessionTypeOK
<1>3. PrepareAt(s)' /\ PlanAt(s)' /\ MutateAt(s)'
  BY <1>2, RestingSession DEF Resting, Over, TypeOK, SessionTypeOK
<1>4. LeavesOthers(s)
  BY NoSnapshotAssumption DEF LeavesOthers, SetWriter, Persist, hostVars, TypeOK, SessionTypeOK
<1> QED
  BY <1>1, <1>2, <1>3, <1>4, SessionStepInv DEF AtWork, Stopping, Over, Reverting, TypeOK, SessionTypeOK

\* The descriptor is closed and the script launched.
LEMMA RevertStartsInv ==
    ASSUME IndInv, NEW s \in Sessions, RevertStarts(s), UNCHANGED lifeVars
    PROVE  IndInv'
<1> USE DEF RevertStarts, Launch, IndInv
<1>1. HostTypeOK' /\ CleanInv' /\ DirtyInv' /\ NoTunnelLoop'
  <2>1. faults' \in 0 .. MaxFaults
    BY DEF TypeOK, HostTypeOK
  <2> QED BY <2>1, ClosedTun
<1>2. PICK p \in Reverting : pc' = [pc EXCEPT ![s] = p]
  BY DEF TypeOK, SessionTypeOK, Reverting
<1>3. s \in Runners /\ Active(s) /\ \A r \in Runners : ~Running(r)
  BY ScriptsIdle DEF AtWork, Active, Runners
<1>4. TypeOK'
  <2>1. PanicTypeOK'
    BY DEF TypeOK, PanicTypeOK, Commands
  <2>2. SessionTypeOK' /\ LifecycleTypeOK'
    BY <1>2 DEF TypeOK, SessionTypeOK, LifecycleTypeOK, lifeVars
  <2> QED BY <1>1, <2>1, <2>2 DEF TypeOK
<1>5. SerialInv'
  <2>1. /\ pc'[s] \in Reverting /\ \A t \in Sessions \ {s} : pc'[t] = pc[t]
        /\ \A r \in Runners \ {s} : script'[r] = script[r]
        /\ snapshot' = snapshot /\ daemon' = daemon
    BY <1>2, <1>3 DEF TypeOK, SessionTypeOK, PanicTypeOK, lifeVars
  <2>2. pc'[s] \notin Starting \cup {"up"} /\ pc[s] \notin Over
    BY <2>1 DEF Reverting, Starting, Preparing, Mutating, Stopping, Over
  <2>3. \A t \in Sessions \ {s} : ~Active(t) /\ ~Active(t)'
    BY <1>3, <2>1 DEF SerialInv, Active, Running, Runners
  <2>4. \A r \in Runners \ {s} : ~Running(r)'
    BY <1>3, <2>1 DEF Running
  <2>5. \A t \in Sessions : pc'[t] = "start" => pc[t] = "start" /\ snapshot' # NoSnapshot
    BY <1>3, <2>1, <2>2 DEF SerialInv, Starting, Preparing
  <2>6. \A t \in Sessions : script'[t] # "idle" => pc'[t] \in Reverting
    BY <2>1 DEF SerialInv, Runners
  <2>7. daemon' \notin {"dead", "stop_post", "stopped"}
    BY <2>1, <2>2 DEF SerialInv
  <2> QED BY <2>1, <2>2, <2>3, <2>4, <2>5, <2>6, <2>7 DEF SerialInv
<1>6. SessionInv'
  BY <1>2, <1>3, OneSession, RestingSession DEF Resting, TypeOK, SessionTypeOK
<1>7. ScriptInv'
  <2>1. ScriptAt(s)'
    BY <1>3 DEF Running, ScriptInv, ScriptAt, ReadAt, BeforeSysctl, OnResolv, Commands, Exits, TypeOK, PanicTypeOK
  <2>2. ASSUME NEW r \in Runners \ {s} PROVE ScriptAt(r)'
    <3>1. script'[r] = script[r] /\ script[r] \notin Commands /\ ScriptAt(r)
      BY <1>3 DEF TypeOK, PanicTypeOK, Running, ScriptInv
    <3>2. failed'[r] = failed[r] /\ idx'[r] = idx[r]
      BY DEF TypeOK, PanicTypeOK
    <3> QED BY <3>1, <3>2 DEF ScriptAt, ReadAt, BeforeSysctl, OnResolv, Commands
  <2> QED BY <2>1, <2>2 DEF ScriptInv
<1> QED BY <1>1, <1>4, <1>5, <1>6, <1>7

\* The script of a session has exited.
LEMMA RevertEndsInv ==
    ASSUME IndInv, NEW s \in Sessions, RevertEnds(s), UNCHANGED lifeVars
    PROVE  IndInv'
<1> USE DEF RevertEnds, Reap, IndInv
<1>1. HostTypeOK' /\ CleanInv' /\ DirtyInv' /\ NoTunnelLoop'
  BY HostUnchanged
<1>2. PICK p \in Over : pc' = [pc EXCEPT ![s] = p]
  BY DEF TypeOK, SessionTypeOK, Over
<1>3. s \in Runners /\ script[s] # "idle" /\ ~Running(s)
  BY DEF Runners, Running, Commands, Exits
<1>4. TypeOK'
  <2>1. PanicTypeOK'
    BY DEF TypeOK, PanicTypeOK
  <2>2. SessionTypeOK' /\ LifecycleTypeOK'
    BY <1>2 DEF TypeOK, SessionTypeOK, LifecycleTypeOK, lifeVars
  <2> QED BY <1>1, <2>1, <2>2 DEF TypeOK
<1>5. SerialInv'
  <2>1. /\ pc'[s] \in Over /\ \A t \in Sessions \ {s} : pc'[t] = pc[t]
        /\ script'[s] = "idle" /\ \A r \in Runners \ {s} : script'[r] = script[r]
        /\ snapshot' = snapshot /\ daemon' = daemon
    BY <1>2, <1>3 DEF TypeOK, SessionTypeOK, PanicTypeOK, lifeVars, hostVars
  <2>2. pc'[s] \notin Starting \cup Stopping \cup Reverting \cup {"up"} /\ pc[s] \notin Over
    BY <2>1 DEF Reverting, Starting, Preparing, Mutating, Stopping, Over
  <2>3. ~Active(s)' /\ \A t \in Sessions \ {s} : Active(t)' <=> Active(t)
    BY <2>1, <2>2 DEF Active, Running, Runners
  <2>4. ~Running(s)' /\ \A r \in Runners \ {s} : Running(r)' <=> Running(r)
    BY <2>1 DEF Running, Commands
  <2>5. \A t \in Sessions : pc'[t] = "start" => t # s
    BY <2>2 DEF Starting, Preparing
  <2>6. daemon' \notin {"dead", "stop_post", "stopped"}
    BY <2>1, <2>2 DEF SerialInv
  <2>7. \A t \in Sessions \ {s} : script'[t] = script[t]
    BY <2>1 DEF Runners
  <2> QED BY <2>1, <2>2, <2>3, <2>4, <2>5, <2>6, <2>7 DEF SerialInv
<1>6. SessionInv'
  <2>1. PrepareAt(s)' /\ PlanAt(s)' /\ MutateAt(s)'
    BY <1>2, RestingSession DEF Resting, TypeOK, SessionTypeOK
  <2>2. \A t \in Sessions \ {s} : PrepareAt(t)' /\ PlanAt(t)' /\ MutateAt(t)'
    BY <1>2, SameSessions DEF TypeOK, SessionTypeOK, lifeVars
  <2> QED BY <2>1, <2>2 DEF SessionInv
<1>7. ScriptInv'
  <2>1. ScriptAt(s)'
    BY <1>3 DEF ScriptInv, ScriptAt, ReadAt, BeforeSysctl, OnResolv, Commands, Exits, TypeOK, PanicTypeOK
  <2>2. \A r \in Runners \ {s} : ScriptAt(r)'
    BY SameScripts DEF TypeOK, PanicTypeOK, lifeVars
  <2> QED BY <2>1, <2>2 DEF ScriptInv
<1> QED BY <1>1, <1>4, <1>5, <1>6, <1>7

-----------------------------------------------------------------------------
(***************************************************************************)
(* The script.                                                             *)
(***************************************************************************)

\* A command of the script preserves the invariant if it keeps the host in order
\* and establishes what is claimed of the script's next command.
LEMMA ScriptStepInv ==
    ASSUME IndInv, NEW r \in Runners, Running(r),
           NEW x, x # "idle", script' = [script EXCEPT ![r] = x],
           snapshot' = NoSnapshot => snapshot = NoSnapshot \/ x \notin Commands,
           \A q \in Runners \ {r} : failed'[q] = failed[q] /\ idx'[q] = idx[q] /\ want'[q] = want[q],
           UNCHANGED sessionVars, UNCHANGED lifeVars,
           PanicTypeOK', HostTypeOK', CleanInv', DirtyInv', NoTunnelLoop', ScriptAt(r)'
    PROVE  IndInv'
<1> USE DEF IndInv
<1>1. TypeOK'
  BY DEF TypeOK, SessionTypeOK, LifecycleTypeOK, sessionVars, lifeVars
<1>2. SerialInv'
  BY SerialScript DEF sessionVars, lifeVars
<1>3. SessionInv'
  BY SessionsRest
<1>4. ScriptInv'
  BY OneScript
<1> QED BY <1>1, <1>2, <1>3, <1>4

\* A snapshot on disk makes the first half of the invariant vacuous.
LEMMA StillDirty == ASSUME snapshot' # NoSnapshot PROVE CleanInv'
BY DEF CleanInv

\* A command that only reads, and the end of a script, leave the host in order.
LEMMA ReadInv ==
    ASSUME IndInv, NEW r \in Runners, Running(r),
           NEW x, x # "idle", script' = [script EXCEPT ![r] = x],
           \A q \in Runners \ {r} : failed'[q] = failed[q] /\ idx'[q] = idx[q] /\ want'[q] = want[q],
           UNCHANGED hostVars, UNCHANGED sessionVars, UNCHANGED lifeVars,
           PanicTypeOK', ScriptAt(r)'
    PROVE  IndInv'
<1>1. HostTypeOK' /\ CleanInv' /\ DirtyInv' /\ NoTunnelLoop'
  BY HostUnchanged
<1>2. snapshot' = snapshot
  BY DEF hostVars
<1> QED BY <1>1, <1>2, ScriptStepInv

\* The script looks whether there is a snapshot, for its version and marks, how many
\* settings it records, whether our interface exists and whether there was a resolv.conf.
LEMMA LooksInv ==
    ASSUME IndInv, NEW r \in Runners, UNCHANGED <<sessionVars, lifeVars>>,
           Check(r) \/ Parse(r) \/ CountSysctls(r) \/ ShowTun(r) \/ ReadExisted(r)
    PROVE  IndInv'
<1> USE DEF Check, Parse, CountSysctls, ShowTun, ReadExisted, Goto, IndInv
<1>1. /\ UNCHANGED <<failed, idx, count, want>> /\ UNCHANGED hostVars
      /\ ScriptAt(r) /\ script[r] \in Commands
  BY DEF ScriptInv, Commands
<1>2. PICK x \in Commands \cup Exits : script' = [script EXCEPT ![r] = x]
  BY DEF Commands, Exits
<1>3. PanicTypeOK'
  BY <1>1, <1>2 DEF TypeOK, PanicTypeOK
<1>4. UNCHANGED <<ipv6, tun, routes, rules, resolv, snapshot, original>>
  BY <1>1 DEF hostVars, lifeVars
<1>5. script'[r] = x
  BY <1>2 DEF TypeOK, PanicTypeOK
<1>6. ScriptAt(r)'
  <2>1. CASE Check(r) \/ Parse(r) \/ CountSysctls(r)
    BY <2>1, <1>1, <1>4 DEF ScriptAt, ReadAt, BeforeSysctl, OnResolv, Commands, Exits, TypeOK, PanicTypeOK
  <2>2. CASE ShowTun(r)
    BY <2>2, <1>1, <1>4 DEF ScriptAt, ReadAt, BeforeSysctl, OnResolv, Commands, Exits, TypeOK, PanicTypeOK
  <2>3. CASE ReadExisted(r)
    BY <2>3, <1>1, <1>4 DEF ScriptAt, ReadAt, BeforeSysctl, OnResolv, Commands, Exits, TypeOK, PanicTypeOK
  <2> QED BY <2>1, <2>2, <2>3
<1>7. Running(r) /\ x # "idle"
  BY <1>1, <1>2 DEF Running, Commands, Exits
<1> QED BY <1>1, <1>2, <1>3, <1>6, <1>7, ReadInv

\* The value to restore is the one the administrator had.
LEMMA ReadSysctlInv ==
    ASSUME IndInv, NEW r \in Runners, ReadSysctl(r), UNCHANGED <<sessionVars, lifeVars>>
    PROVE  IndInv'
<1> USE DEF ReadSysctl, Goto, IndInv
<1>1. ScriptAt(r) /\ snapshot # NoSnapshot /\ snapshot \in Snapshot
  BY DEF ScriptInv, ScriptAt, ReadAt, BeforeSysctl, OnResolv, Commands, TypeOK, HostTypeOK
<1>2. want' = [want EXCEPT ![r].value = original.ipv6] /\ original.ipv6 \in {"0", "1"}
  BY <1>1 DEF DirtyInv, TruePreState, TypeOK, LifecycleTypeOK, Originals
<1>3. PanicTypeOK'
  BY <1>2 DEF TypeOK, PanicTypeOK, Commands, Wants
<1>4. /\ script'[r] = "write" /\ want'[r].value = original.ipv6
      /\ want'[r].kind = want[r].kind /\ want'[r].text = want[r].text
  BY <1>2 DEF TypeOK, PanicTypeOK, Wants
<1>5. ScriptAt(r)'
  BY <1>1, <1>4 DEF ScriptAt, ReadAt, BeforeSysctl, OnResolv, Commands, Exits, hostVars, lifeVars
<1>6. Running(r)
  BY DEF Running, Commands
<1> QED BY <1>3, <1>5, <1>6, ReadInv DEF TypeOK, PanicTypeOK

\* The sysctl has its original value, or FAILED is set.
LEMMA WriteSysctlInv ==
    ASSUME IndInv, NEW r \in Runners, WriteSysctl(r), UNCHANGED <<sessionVars, lifeVars>>
    PROVE  IndInv'
<1> USE DEF WriteSysctl, Goto, SetFailed, IndInv
<1>1. ScriptAt(r) /\ snapshot # NoSnapshot /\ want[r].value = original.ipv6
  BY DEF ScriptInv, ScriptAt, ReadAt, BeforeSysctl, OnResolv, Commands
<1>2. HostTypeOK'
  BY <1>1, MaxFaultsAssumption DEF TypeOK, HostTypeOK, Fault, LifecycleTypeOK, Originals
<1>3. PanicTypeOK'
  BY DEF TypeOK, PanicTypeOK, Commands
<1>4. CleanInv'
  BY <1>1, StillDirty
<1>5. DirtyInv' /\ NoTunnelLoop'
  BY DEF DirtyInv, TruePreState, BackupMatches, NoTunnelLoop, lifeVars
<1>6. ScriptAt(r)'
  BY <1>1
  DEF ScriptAt, ReadAt, BeforeSysctl, OnResolv, Commands, Exits, TypeOK, PanicTypeOK, lifeVars
<1>7. Running(r) /\ (snapshot' = NoSnapshot => snapshot = NoSnapshot)
  BY DEF Running, Commands, hostVars
<1> QED BY <1>2, <1>3, <1>4, <1>5, <1>6, <1>7, ScriptStepInv DEF TypeOK, PanicTypeOK

\* The catchall goes first.
LEMMA DeleteCatchallInv ==
    ASSUME SafeConfig, IndInv, NEW r \in Runners, DeleteCatchall(r),
           UNCHANGED <<sessionVars, lifeVars>>
    PROVE  IndInv'
<1> USE DEF DeleteCatchall, Goto, IndInv
<1>1. ScriptAt(r) /\ snapshot # NoSnapshot
  BY DEF ScriptInv, ScriptAt, ReadAt, BeforeSysctl, OnResolv, Commands
<1>2. rules' = rules \ {RulePriority} /\ UNCHANGED faults
  BY DEF SafeConfig, SoftFault
<1>3. HostTypeOK'
  BY <1>2 DEF TypeOK, HostTypeOK
<1>4. PanicTypeOK'
  BY DEF TypeOK, PanicTypeOK, Commands
<1>5. CleanInv'
  BY <1>1, StillDirty
<1>6. DirtyInv'
  BY <1>2 DEF DirtyInv, TruePreState, BackupMatches, lifeVars
<1>7. NoTunnelLoop'
  BY <1>2 DEF NoTunnelLoop
<1>8. ScriptAt(r)'
  BY <1>1, <1>2 DEF ScriptAt, ReadAt, BeforeSysctl, OnResolv, Commands, Exits, TypeOK, PanicTypeOK, lifeVars
<1>9. Running(r) /\ (snapshot' = NoSnapshot => snapshot = NoSnapshot)
  BY DEF Running, Commands, hostVars
<1> QED BY <1>3, <1>4, <1>5, <1>6, <1>7, <1>8, <1>9, ScriptStepInv DEF TypeOK, PanicTypeOK

\* The loop will cover every recorded rule.
LEMMA CountRulesInv ==
    ASSUME IndInv, NEW r \in Runners, CountRules(r), UNCHANGED <<sessionVars, lifeVars>>
    PROVE  IndInv'
<1> USE PlanNumbers DEF CountRules, Goto, IndInv
<1>1. ScriptAt(r) /\ snapshot # NoSnapshot /\ snapshot \in Snapshot
  BY DEF ScriptInv, ScriptAt, ReadAt, BeforeSysctl, OnResolv, Commands, TypeOK, HostTypeOK
<1>2. HostTypeOK' /\ CleanInv' /\ DirtyInv' /\ NoTunnelLoop'
  BY HostUnchanged
<1>3. RuleCount(snapshot) \in 0 .. NumBypasses + 1
  BY <1>1, Numbers DEF RuleCount, Snapshot, LastAction, Catchall
<1>4. PanicTypeOK'
  BY <1>1, <1>3 DEF TypeOK, PanicTypeOK, Commands
<1>5. rules \subseteq RulesOf(FirstBypass + 0, snapshot.actions)
  BY <1>1 DEF ScriptAt, ReadAt, BeforeSysctl, OnResolv, DirtyInv, RecordedPriorities
<1>6. ScriptAt(r)'
  BY <1>1, <1>5 DEF ScriptAt, ReadAt, BeforeSysctl, OnResolv, Commands, Exits, TypeOK, PanicTypeOK, hostVars, lifeVars
<1>7. Running(r) /\ (snapshot' = NoSnapshot => snapshot = NoSnapshot)
  BY DEF Running, Commands, hostVars
<1> QED BY <1>2, <1>4, <1>6, <1>7, ScriptStepInv DEF TypeOK, PanicTypeOK

\* One more recorded rule is gone.
LEMMA DeleteRuleInv ==
    ASSUME SafeConfig, IndInv, NEW r \in Runners, DeleteRule(r),
           UNCHANGED <<sessionVars, lifeVars>>
    PROVE  IndInv'
<1> DEFINE P == Prio(FirstBypass + idx[r])
<1> USE PlanNumbers DEF DeleteRule, Goto, IndInv
<1>1. ScriptAt(r) /\ snapshot # NoSnapshot /\ snapshot.actions \in Int
  BY DEF ScriptInv, ScriptAt, ReadAt, BeforeSysctl, OnResolv, Commands, TypeOK, HostTypeOK, Snapshot
<1>2. idx[r] \in 0 .. NumBypasses + 1 /\ count[r] \in 0 .. NumBypasses + 1
  BY DEF TypeOK, PanicTypeOK
<1>3. P >= 1000
  BY <1>2, Numbers DEF SafeConfig, Prio, Catchall, FirstBypass
<1>4. rules' = rules \ {P} /\ UNCHANGED faults
  BY <1>1, <1>3 DEF SafeConfig, SoftFault
<1>5. HostTypeOK'
  BY <1>4 DEF TypeOK, HostTypeOK
<1>6. PanicTypeOK'
  BY <1>2, Numbers DEF TypeOK, PanicTypeOK, Commands
<1>7. CleanInv'
  BY <1>1, StillDirty
<1>8. DirtyInv'
  BY <1>4 DEF DirtyInv, TruePreState, BackupMatches, lifeVars
<1>9. RulePriority \notin rules'
  BY <1>1, <1>4 DEF ScriptAt, ReadAt, BeforeSysctl, OnResolv
<1>10. NoTunnelLoop'
  BY <1>9 DEF NoTunnelLoop
<1>11. rules' \subseteq RulesOf(FirstBypass + (idx[r] + 1), snapshot.actions)
  <2>1. rules \subseteq RulesOf(FirstBypass + idx[r], snapshot.actions)
    BY <1>1 DEF ScriptAt, ReadAt, BeforeSysctl, OnResolv
  <2>2. FirstBypass + idx[r] \in Int /\ FirstBypass + (idx[r] + 1) = FirstBypass + idx[r] + 1
    BY <1>2
  <2>3. rules \ {P} \subseteq RulesOf(FirstBypass + idx[r] + 1, snapshot.actions)
    BY ONLY <1>1, <2>1, <2>2, DropFirstRule
  <2> QED BY ONLY <1>4, <2>2, <2>3
<1>12. ScriptAt(r)'
  <2>1. script'[r] = "rules" /\ idx'[r] = idx[r] + 1
    BY DEF TypeOK, PanicTypeOK
  <2> QED BY <1>1, <1>9, <1>11, <2>1 DEF ScriptAt, ReadAt, BeforeSysctl, OnResolv, Commands, Exits, lifeVars
<1>13. Running(r) /\ (snapshot' = NoSnapshot => snapshot = NoSnapshot)
  BY DEF Running, Commands, hostVars
<1> QED
  BY <1>5, <1>6, <1>7, <1>8, <1>10, <1>12, <1>13, ScriptStepInv DEF TypeOK, PanicTypeOK

\* The loop has ended: no rule is left.
LEMMA RulesDeletedInv ==
    ASSUME IndInv, NEW r \in Runners, RulesDeleted(r), UNCHANGED <<sessionVars, lifeVars>>
    PROVE  IndInv'
<1> USE PlanNumbers DEF RulesDeleted, Goto, IndInv
<1>1. ScriptAt(r) /\ snapshot # NoSnapshot /\ snapshot.actions \in Int
  BY DEF ScriptInv, ScriptAt, ReadAt, BeforeSysctl, OnResolv, Commands, TypeOK, HostTypeOK, Snapshot
<1>2. HostTypeOK' /\ CleanInv' /\ DirtyInv' /\ NoTunnelLoop'
  BY HostUnchanged
<1>3. PanicTypeOK'
  BY DEF TypeOK, PanicTypeOK, Commands
<1>4. rules = {}
  <2>1. idx[r] \in Int /\ idx[r] >= 0 /\ idx[r] >= RuleCount(snapshot)
    BY <1>1 DEF ScriptAt, ReadAt, BeforeSysctl, OnResolv, TypeOK, PanicTypeOK
  <2>2. snapshot.actions < FirstBypass + idx[r]
    BY <1>1, <2>1 DEF RuleCount
  <2>3. RulesOf(FirstBypass + idx[r], snapshot.actions) = {}
    BY <1>1, <2>1, <2>2, NoRules
  <2> QED BY <1>1, <2>3 DEF ScriptAt, ReadAt, BeforeSysctl, OnResolv
<1>5. ScriptAt(r)'
  BY <1>1, <1>4 DEF ScriptAt, ReadAt, BeforeSysctl, OnResolv, Commands, Exits, TypeOK, PanicTypeOK, hostVars, lifeVars
<1>6. Running(r) /\ (snapshot' = NoSnapshot => snapshot = NoSnapshot)
  BY DEF Running, Commands, hostVars
<1> QED BY <1>2, <1>3, <1>5, <1>6, ScriptStepInv DEF TypeOK, PanicTypeOK

\* Our table is empty.
LEMMA FlushRoutesInv ==
    ASSUME SafeConfig, IndInv, NEW r \in Runners, FlushRoutes(r),
           UNCHANGED <<sessionVars, lifeVars>>
    PROVE  IndInv'
<1> USE DEF FlushRoutes, Goto, IndInv
<1>1. ScriptAt(r) /\ snapshot # NoSnapshot
  BY DEF ScriptInv, ScriptAt, ReadAt, BeforeSysctl, OnResolv, Commands
<1>2. routes' = {} /\ UNCHANGED faults
  BY DEF SafeConfig, SoftFault
<1>3. HostTypeOK'
  BY <1>2 DEF TypeOK, HostTypeOK
<1>4. PanicTypeOK'
  BY DEF TypeOK, PanicTypeOK, Commands
<1>5. CleanInv'
  BY <1>1, StillDirty
<1>6. DirtyInv' /\ NoTunnelLoop'
  BY DEF DirtyInv, TruePreState, BackupMatches, NoTunnelLoop, lifeVars
<1>7. ScriptAt(r)'
  BY <1>1, <1>2 DEF ScriptAt, ReadAt, BeforeSysctl, OnResolv, Commands, Exits, TypeOK, PanicTypeOK, lifeVars
<1>8. Running(r) /\ (snapshot' = NoSnapshot => snapshot = NoSnapshot)
  BY DEF Running, Commands, hostVars
<1> QED BY <1>3, <1>4, <1>5, <1>6, <1>7, <1>8, ScriptStepInv DEF TypeOK, PanicTypeOK

\* The TUN is gone, or FAILED is set.
LEMMA DeleteTunInv ==
    ASSUME IndInv, NEW r \in Runners, DeleteTun(r), UNCHANGED <<sessionVars, lifeVars>>
    PROVE  IndInv'
<1> USE DEF DeleteTun, Goto, RemoveTun, SetFailed, IndInv
<1>1. ScriptAt(r) /\ snapshot # NoSnapshot
  BY DEF ScriptInv, ScriptAt, ReadAt, BeforeSysctl, OnResolv, Commands
<1>2. HostTypeOK'
  BY MaxFaultsAssumption DEF TypeOK, HostTypeOK, Fault
<1>3. PanicTypeOK'
  BY DEF TypeOK, PanicTypeOK, Commands
<1>4. CleanInv'
  BY <1>1, StillDirty
<1>5. DirtyInv' /\ NoTunnelLoop'
  BY DEF DirtyInv, TruePreState, BackupMatches, NoTunnelLoop, lifeVars
<1>6. ScriptAt(r)'
  BY <1>1 DEF ScriptAt, ReadAt, BeforeSysctl, OnResolv, Commands, Exits, TypeOK, PanicTypeOK, lifeVars
<1>7. Running(r) /\ (snapshot' = NoSnapshot => snapshot = NoSnapshot)
  BY DEF Running, Commands, hostVars
<1> QED BY <1>2, <1>3, <1>4, <1>5, <1>6, <1>7, ScriptStepInv DEF TypeOK, PanicTypeOK

\* What the administrator had, as RecordResolvConf records it.
LEMMA ForeignResolv ==
    ASSUME TypeOK
    PROVE  /\ original.resolv.kind \in Kinds
           /\ original.resolv.text \in Texts
           /\ original.resolv.kind = "absent" => original.resolv.text = NoText
BY DEF TypeOK, LifecycleTypeOK, Originals, ForeignResolvFiles, AbsentFile, RegularFile,
       Symlink, Kinds, Texts

\* The script knows what there was: a regular file or a symlink.
LEMMA ReadKindInv ==
    ASSUME IndInv, NEW r \in Runners, ReadKind(r), UNCHANGED <<sessionVars, lifeVars>>
    PROVE  IndInv'
<1> USE DEF ReadKind, Goto, IndInv
<1>1. ScriptAt(r) /\ snapshot # NoSnapshot /\ snapshot \in Snapshot /\ script[r] = "kind"
  BY DEF ScriptInv, ScriptAt, ReadAt, BeforeSysctl, OnResolv, Commands, TypeOK, HostTypeOK
<1>2. snapshot.resolv_conf.kind \in Kinds
  BY <1>1 DEF Snapshot, ResolvConfState
<1>3. PanicTypeOK'
  BY <1>1, <1>2 DEF TypeOK, PanicTypeOK, Commands, Wants
<1>4. CASE snapshot.resolv_conf.kind = "absent"
  <2>1. script' = [script EXCEPT ![r] = "retire"] /\ script'[r] = "retire" /\ failed'[r] = 1
    BY <1>4 DEF TypeOK, PanicTypeOK
  <2>2. ScriptAt(r)'
    BY <1>1, <2>1 DEF ScriptAt, ReadAt, BeforeSysctl, OnResolv, Commands, Exits, hostVars
  <2>3. Running(r)
    BY DEF Running, Commands
  <2> QED BY <1>3, <2>1, <2>2, <2>3, ReadInv DEF TypeOK, PanicTypeOK
<1>5. CASE snapshot.resolv_conf.kind # "absent"
  <2>1. /\ script' = [script EXCEPT ![r] = "detail"] /\ script'[r] = "detail"
        /\ failed'[r] = failed[r] /\ want'[r].kind = snapshot.resolv_conf.kind
    BY <1>1, <1>5 DEF TypeOK, PanicTypeOK, Wants
  <2>2. ScriptAt(r)'
    BY <1>1, <1>5, <2>1
    DEF ScriptAt, ReadAt, BeforeSysctl, OnResolv, Commands, Exits, hostVars, lifeVars
  <2>3. Running(r)
    BY DEF Running, Commands
  <2> QED BY <1>3, <2>1, <2>2, <2>3, ReadInv DEF TypeOK, PanicTypeOK
<1> QED BY <1>4, <1>5

\* The script knows the content or the target.
LEMMA ReadDetailInv ==
    ASSUME IndInv, NEW r \in Runners, ReadDetail(r), UNCHANGED <<sessionVars, lifeVars>>
    PROVE  IndInv'
<1> USE DEF ReadDetail, Goto, IndInv
<1>1. /\ ScriptAt(r) /\ snapshot # NoSnapshot /\ snapshot \in Snapshot
      /\ want[r].kind = snapshot.resolv_conf.kind
  BY DEF ScriptInv, ScriptAt, ReadAt, Commands, TypeOK, HostTypeOK
<1>2. want' = [want EXCEPT ![r].text = snapshot.resolv_conf.text]
  BY <1>1
<1>3. PanicTypeOK'
  BY <1>1, <1>2 DEF TypeOK, PanicTypeOK, Commands, Wants, Snapshot, ResolvConfState
<1>4. /\ script'[r] = "verify"
      /\ want'[r].kind = want[r].kind /\ want'[r].text = snapshot.resolv_conf.text
  BY <1>2 DEF TypeOK, PanicTypeOK, Wants
<1>5. ScriptAt(r)'
  BY <1>1, <1>4 DEF ScriptAt, ReadAt, BeforeSysctl, OnResolv, Commands, Exits, hostVars, lifeVars
<1>6. Running(r)
  BY DEF Running, Commands
<1> QED BY <1>3, <1>5, <1>6, ReadInv DEF TypeOK, PanicTypeOK

\* The script goes on to replace resolv.conf, or FAILED is set.
LEMMA VerifyBackupInv ==
    ASSUME IndInv, NEW r \in Runners, VerifyBackup(r), UNCHANGED <<sessionVars, lifeVars>>
    PROVE  IndInv'
<1> USE DEF VerifyBackup, Goto, SetFailed, IndInv
<1>1. ScriptAt(r) /\ snapshot # NoSnapshot /\ script[r] = "verify"
  BY DEF ScriptInv, ScriptAt, ReadAt, BeforeSysctl, OnResolv, Commands
<1>2. PICK x \in {"remove", "retire"} :
        script' = [script EXCEPT ![r] = x] /\ (x = "retire" => failed'[r] # 0)
  BY DEF TypeOK, PanicTypeOK
<1>3. PanicTypeOK'
  BY <1>2 DEF TypeOK, PanicTypeOK, Commands
<1>4. script'[r] = x /\ want' = want /\ idx' = idx /\ (failed'[r] = 0 => failed[r] = 0)
  BY <1>2 DEF TypeOK, PanicTypeOK
<1>5. ScriptAt(r)'
  BY <1>1, <1>2, <1>4 DEF ScriptAt, ReadAt, BeforeSysctl, OnResolv, Commands, Exits, hostVars, lifeVars
<1>6. Running(r)
  BY DEF Running, Commands
<1> QED BY <1>2, <1>3, <1>5, <1>6, ReadInv DEF TypeOK, PanicTypeOK

\* resolv.conf is removed; that is all if there was none.
LEMMA RemoveResolvInv ==
    ASSUME SafeConfig, IndInv, NEW r \in Runners, RemoveResolv(r),
           UNCHANGED <<sessionVars, lifeVars>>
    PROVE  IndInv'
<1> USE DEF RemoveResolv, Goto, IndInv
<1>1. ScriptAt(r) /\ snapshot # NoSnapshot /\ want[r].kind = snapshot.resolv_conf.kind
  BY DEF ScriptInv, ScriptAt, ReadAt, Commands
<1>2. resolv' = AbsentFile /\ UNCHANGED faults
  BY DEF SafeConfig, SoftFault
<1>3. HostTypeOK'
  BY <1>2 DEF TypeOK, HostTypeOK, ResolvFiles, AbsentFile, Kinds, Texts
<1>4. PanicTypeOK'
  BY DEF TypeOK, PanicTypeOK, Commands
<1>5. CleanInv'
  BY <1>1, StillDirty
<1>6. DirtyInv' /\ NoTunnelLoop'
  BY DEF DirtyInv, TruePreState, BackupMatches, NoTunnelLoop, lifeVars
<1>7. script'[r] = IF want[r].kind = "absent" THEN "retire" ELSE "put"
  BY DEF TypeOK, PanicTypeOK
<1>8. want[r].kind = "absent" => RestoredResolv'
  BY <1>1, <1>2, ForeignResolv DEF DirtyInv, TruePreState, RestoredResolv, AbsentFile, lifeVars
<1>9. ScriptAt(r)'
  BY <1>1, <1>7, <1>8 DEF ScriptAt, ReadAt, BeforeSysctl, OnResolv, Commands, Exits, lifeVars
<1>10. Running(r) /\ (snapshot' = NoSnapshot => snapshot = NoSnapshot)
  BY DEF Running, Commands
<1> QED BY <1>3, <1>4, <1>5, <1>6, <1>9, <1>10, ScriptStepInv DEF TypeOK, PanicTypeOK

\* resolv.conf is what it was, or FAILED is set.
LEMMA PutResolvInv ==
    ASSUME IndInv, NEW r \in Runners, PutResolv(r), UNCHANGED <<sessionVars, lifeVars>>
    PROVE  IndInv'
<1> USE DEF Goto, IndInv
<1>1. script[r] = "put" /\ ScriptAt(r) /\ snapshot # NoSnapshot
  BY DEF PutResolv, ScriptInv, ScriptAt, ReadAt, BeforeSysctl, OnResolv, Commands
<1>2. /\ want[r].kind = original.resolv.kind /\ want[r].text = original.resolv.text
      /\ want[r].kind \in {"file", "symlink"}
      /\ want[r].kind = "file" => backup = want[r].text
      /\ want[r].text \in Texts
  BY <1>1, ForeignResolv DEF ScriptAt, ReadAt, DirtyInv, TruePreState, BackupMatches, Kinds
<1>3. /\ script' = [script EXCEPT ![r] = "retire"]
      /\ UNCHANGED <<idx, count, want, ipv6, tun, routes, rules, resolvTmp, backup, snapshot>>
      /\ \/ /\ UNCHANGED <<failed, faults>>
            /\ resolv' \in {Symlink(original.resolv.text), RegularFile(original.resolv.text, "0600")}
            /\ resolv'.kind = original.resolv.kind
         \/ /\ failed' = [failed EXCEPT ![r] = 1] /\ UNCHANGED resolv
            /\ UNCHANGED faults \/ Fault
  <2>1. /\ script' = [script EXCEPT ![r] = "retire"]
        /\ UNCHANGED <<idx, count, want, ipv6, tun, routes, rules, resolvTmp, backup, snapshot>>
    BY DEF PutResolv
  <2>2. CASE Fault /\ SetFailed(r) /\ UNCHANGED resolv
    BY <2>1, <2>2 DEF SetFailed
  <2>3. CASE want[r].kind = "symlink" /\ resolv # AbsentFile
    BY <2>1, <2>2, <2>3 DEF PutResolv
  <2>4. CASE want[r].kind = "symlink" /\ resolv = AbsentFile
    BY <1>2, <2>1, <2>2, <2>4 DEF PutResolv, Symlink, TypeOK, PanicTypeOK
  <2>5. CASE want[r].kind = "file"
    <3>1. backup # BadBackup /\ want[r].kind # "symlink"
      BY <1>2, <2>5, TextAssumption
    <3> QED BY <1>2, <2>1, <2>2, <2>5, <3>1 DEF PutResolv, RegularFile, TypeOK, PanicTypeOK
  <2> QED BY <1>2, <2>3, <2>4, <2>5
<1>4. HostTypeOK'
  BY <1>3, MaxFaultsAssumption, ForeignResolv
  DEF TypeOK, HostTypeOK, ResolvFiles, Symlink, RegularFile, Kinds, Fault
<1>5. PanicTypeOK'
  BY <1>3 DEF TypeOK, PanicTypeOK, Commands
<1>6. CleanInv'
  BY <1>1, <1>3, StillDirty
<1>7. DirtyInv' /\ NoTunnelLoop'
  BY <1>3 DEF DirtyInv, TruePreState, BackupMatches, NoTunnelLoop, lifeVars
<1>8. failed'[r] = 0 => failed[r] = 0 /\ RestoredResolv'
  BY <1>3 DEF RestoredResolv, Symlink, RegularFile, lifeVars, TypeOK, PanicTypeOK
<1>9. ScriptAt(r)'
  BY <1>1, <1>3, <1>8
  DEF ScriptAt, ReadAt, BeforeSysctl, OnResolv, Commands, Exits, TypeOK, PanicTypeOK, lifeVars
<1>10. Running(r) /\ (snapshot' = NoSnapshot => snapshot = NoSnapshot)
  BY <1>1, <1>3 DEF Running, Commands
<1> QED BY <1>1, <1>3, <1>4, <1>5, <1>6, <1>7, <1>9, <1>10, ScriptStepInv DEF TypeOK, PanicTypeOK

\* A process that has read nothing is of the right type.
LEMMA NothingReadTyped == NothingRead \in Wants /\ 0 \in 0 .. NumBypasses + 1
BY Numbers DEF NothingRead, Wants, Kinds, Texts

\* The script dies for want of a target: its variables are gone.
LEMMA NoTargetInv ==
    ASSUME IndInv, NEW r \in Runners, NoTarget(r), UNCHANGED <<sessionVars, lifeVars>>
    PROVE  IndInv'
<1> USE DEF NoTarget, Goto, Forget, IndInv
<1>1. PanicTypeOK'
  BY NothingReadTyped DEF TypeOK, PanicTypeOK, Exits
<1>2. script'[r] = "exit2" /\ failed'[r] = 0 /\ idx'[r] = 0 /\ want'[r] = NothingRead
  BY DEF TypeOK, PanicTypeOK
<1>3. ScriptAt(r)'
  BY <1>2 DEF ScriptAt, ReadAt, BeforeSysctl, OnResolv, NothingRead, Commands, Exits
<1>4. Running(r)
  BY DEF Running, Commands
<1> QED BY <1>1, <1>3, <1>4, ReadInv DEF TypeOK, PanicTypeOK

\* The snapshot is only removed over a host that is what it was.
LEMMA RetireInv ==
    ASSUME IndInv, NEW r \in Runners, Retire(r), UNCHANGED <<sessionVars, lifeVars>>
    PROVE  IndInv'
<1> USE DEF Retire, Goto, Forget, IndInv
<1>1. ScriptAt(r) /\ snapshot # NoSnapshot
  BY DEF ScriptInv, ScriptAt, ReadAt, BeforeSysctl, OnResolv, Commands
<1>2. HostTypeOK'
  BY MaxFaultsAssumption DEF TypeOK, HostTypeOK, Fault
<1>3. PanicTypeOK'
  BY NothingReadTyped DEF TypeOK, PanicTypeOK, Exits
<1>4. CleanInv'
  <2>1. CASE failed[r] = 0
    <3>1. ipv6 = original.ipv6 /\ rules = {} /\ routes = {} /\ tun = NoTun /\ RestoredResolv
      BY <1>1, <2>1 DEF ScriptAt, ReadAt, BeforeSysctl, OnResolv, Commands
    <3>2. original.tun = NoTun
      BY <1>1 DEF DirtyInv
    <3> QED BY <3>1, <3>2 DEF CleanInv, RestoredResolv, lifeVars
  <2>2. CASE failed[r] # 0
    BY <1>1, <2>2, StillDirty
  <2> QED BY <2>1, <2>2
<1>5. DirtyInv' /\ NoTunnelLoop'
  BY DEF DirtyInv, TruePreState, BackupMatches, NoTunnelLoop, lifeVars
<1>6. ScriptAt(r)'
  BY DEF ScriptAt, ReadAt, BeforeSysctl, OnResolv, NothingRead, Commands, Exits, TypeOK, PanicTypeOK
<1>7. Running(r) /\ "exit0" \notin Commands /\ "exit1" \notin Commands
  BY DEF Running, Commands
<1> QED BY <1>2, <1>3, <1>4, <1>5, <1>6, <1>7, ScriptStepInv DEF TypeOK, PanicTypeOK

\* The script dies or is killed: the snapshot stays.
LEMMA ScriptFailsInv ==
    ASSUME IndInv, NEW r \in Runners, ScriptFails(r)
    PROVE  IndInv'
<1> USE DEF ScriptFails, IndInv
<1>1. /\ script[r] # "idle" /\ faults' \in 0 .. MaxFaults
      /\ UNCHANGED <<ipv6, tun, routes, rules, resolv, resolvTmp, backup, snapshot, sessionVars, lifeVars>>
  BY MaxFaultsAssumption
  DEF Die, Killed, Goto, Running, Commands, Fault, TypeOK, HostTypeOK
<1>2. PICK x \in Exits : script' = [script EXCEPT ![r] = x]
  BY DEF Die, Killed, Goto, Exits
<1>3. failed'[r] = 0 /\ idx'[r] = 0 /\ want'[r].kind = "absent"
  <2>1. CASE Die(r)
    BY <2>1 DEF Die, Goto, ScriptInv, ScriptAt, ReadAt, BeforeSysctl
  <2>2. CASE Killed(r)
    BY <2>2 DEF Killed, Forget, NothingRead, TypeOK, PanicTypeOK
  <2> QED BY <2>1, <2>2
<1>4. HostTypeOK'
  BY <1>1 DEF TypeOK, HostTypeOK
<1>5. PanicTypeOK'
  <2>1. CASE Die(r)
    BY <1>2, <2>1 DEF Die, TypeOK, PanicTypeOK
  <2>2. CASE Killed(r)
    BY <1>2, <2>2, NothingReadTyped DEF Killed, Forget, TypeOK, PanicTypeOK
  <2> QED BY <2>1, <2>2
<1>6. CleanInv' /\ DirtyInv' /\ NoTunnelLoop'
  BY <1>1 DEF CleanInv, RestoredResolv, DirtyInv, TruePreState, BackupMatches, NoTunnelLoop, lifeVars
<1>7. ScriptAt(r)'
  BY <1>2, <1>3 DEF ScriptAt, ReadAt, BeforeSysctl, OnResolv, Commands, Exits, TypeOK, PanicTypeOK
<1>8. \A q \in Runners \ {r} : failed'[q] = failed[q] /\ idx'[q] = idx[q] /\ want'[q] = want[q]
  BY DEF Die, Killed, Forget, TypeOK, PanicTypeOK
<1>9. Running(r) /\ \A y \in Exits : y # "idle"
  BY DEF Die, Killed, Goto, Running, Commands, Exits
<1> QED BY <1>1, <1>2, <1>4, <1>5, <1>6, <1>7, <1>8, <1>9, ScriptStepInv

-----------------------------------------------------------------------------
(***************************************************************************)
(* The client, the service, the user and the machine.                      *)
(***************************************************************************)

\* What Idle means for the sessions and the scripts.
LEMMA IdleMeans ==
    ASSUME TypeOK, Idle
    PROVE  /\ \A s \in Sessions : pc[s] \in Over \cup {"up"}
           /\ \A r \in Runners : script[r] = "idle" /\ ~Running(r)
           /\ ~Connected => \A s \in Sessions : pc[s] \in Over /\ ~Active(s)
BY DEF Idle, Busy, Connected, Running, Commands, Active, Over, Starting, Preparing, Mutating, Stopping, Reverting

\* The host is as it was, and so is what the scripts know of it.
LEMMA HostAlone ==
    ASSUME IndInv, UNCHANGED hostVars, UNCHANGED panicVars, original' = original
    PROVE  /\ HostTypeOK' /\ PanicTypeOK' /\ CleanInv' /\ DirtyInv' /\ NoTunnelLoop'
           /\ ScriptInv'
<1> USE DEF IndInv
<1>1. HostTypeOK' /\ PanicTypeOK'
  BY DEF TypeOK, HostTypeOK, PanicTypeOK, hostVars, panicVars
<1>2. CleanInv' /\ DirtyInv' /\ NoTunnelLoop'
  BY DEF CleanInv, RestoredResolv, DirtyInv, TruePreState, BackupMatches, NoTunnelLoop, hostVars
<1>3. ScriptInv'
  BY SameScripts DEF ScriptInv, panicVars
<1> QED BY <1>1, <1>2, <1>3

\* A Start begins: nobody else starts or is up, and if there is no snapshot nobody works
\* on the host.
LEMMA StartsInv ==
    ASSUME IndInv, NEW s \in Sessions, pc[s] \in Over,
           \A t \in Sessions : pc[t] \notin Starting \cup {"up"},
           snapshot = NoSnapshot =>
               (\A t \in Sessions : ~Active(t)) /\ (\A r \in Runners : ~Running(r)),
           pc' = [pc EXCEPT ![s] = "start"], writer' = [writer EXCEPT ![s] = NewWriter],
           daemon \in {"running", "signalled", "stopping"}, daemon' = daemon, original' = original,
           meddled' \in BOOLEAN, UNCHANGED panicVars, UNCHANGED hostVars
    PROVE  IndInv'
<1> USE DEF IndInv
<1>1. /\ HostTypeOK' /\ PanicTypeOK' /\ CleanInv' /\ DirtyInv' /\ NoTunnelLoop'
      /\ ScriptInv'
  BY HostAlone
<1>2. TypeOK'
  <2>1. NewWriter \in Snapshot
    BY PlanNumbers DEF NewWriter, Snapshot, ResolvConfState, Kinds, Texts
  <2>2. SessionTypeOK' /\ LifecycleTypeOK'
    BY <2>1 DEF TypeOK, SessionTypeOK, LifecycleTypeOK, Starting, Preparing
  <2> QED BY <1>1, <2>2 DEF TypeOK
<1>3. pc'[s] = "start" /\ \A t \in Sessions \ {s} : pc'[t] = pc[t] /\ writer'[t] = writer[t]
  BY DEF TypeOK, SessionTypeOK
<1>4. SerialInv'
  <2>1. script' = script /\ snapshot' = snapshot
    BY DEF panicVars, hostVars
  <2>2. \A r \in Runners : Running(r)' <=> Running(r)
    BY <2>1 DEF Running
  <2>3. ~Active(s) /\ ~Active(s)' /\ \A t \in Sessions \ {s} : Active(t)' <=> Active(t)
    BY <1>3, <2>1 DEF Active, Running, Over, Starting, Preparing, Mutating, Stopping, Reverting
  <2>4. "start" \in Starting /\ (script[s] = "idle")
    BY DEF SerialInv, Starting, Preparing, Over, Reverting
  <2> QED BY <1>3, <2>1, <2>2, <2>3, <2>4 DEF SerialInv
<1>5. SessionInv'
  <2>1. PrepareAt(s)' /\ PlanAt(s)' /\ MutateAt(s)'
    BY <1>3 DEF PrepareAt, PlanAt, MutateAt, NewWriter, Preparing, Mutating, TypeOK, SessionTypeOK
  <2>2. \A t \in Sessions \ {s} : PrepareAt(t)' /\ PlanAt(t)' /\ MutateAt(t)'
    BY <1>3, SameSessions
  <2> QED BY <2>1, <2>2 DEF SessionInv
<1> QED BY <1>1, <1>2, <1>4, <1>5

\* A Close begins, while no script runs.
LEMMA ClosesInv ==
    ASSUME IndInv, NEW s \in Sessions, pc[s] = "up", \A r \in Runners : ~Running(r),
           pc' = [pc EXCEPT ![s] = "closing"], UNCHANGED writer,
           UNCHANGED lifeVars, UNCHANGED panicVars, UNCHANGED hostVars
    PROVE  IndInv'
<1> USE DEF IndInv
<1>1. /\ HostTypeOK' /\ PanicTypeOK' /\ CleanInv' /\ DirtyInv' /\ NoTunnelLoop'
      /\ ScriptInv'
  BY HostAlone DEF lifeVars
<1>2. TypeOK'
  BY <1>1 DEF TypeOK, SessionTypeOK, LifecycleTypeOK, Stopping, lifeVars
<1>3. pc'[s] = "closing" /\ \A t \in Sessions \ {s} : pc'[t] = pc[t] /\ writer'[t] = writer[t]
  BY DEF TypeOK, SessionTypeOK
<1>4. SerialInv'
  <2>1. script' = script /\ snapshot' = snapshot /\ daemon' = daemon
    BY DEF panicVars, hostVars, lifeVars
  <2>2. \A r \in Runners : ~Running(r)'
    BY <2>1 DEF Running
  <2>3. Active(s) /\ \A t \in Sessions \ {s} : ~Active(t) /\ ~Active(t)'
    BY <1>3, <2>1 DEF SerialInv, Active, Running
  <2>4. \A t \in Sessions : pc[t] # "start"
    BY DEF SerialInv
  <2>5. script[s] = "idle" /\ daemon \notin {"dead", "stop_post", "stopped"}
    BY DEF SerialInv, Reverting, Over
  <2> QED BY <1>3, <2>1, <2>2, <2>3, <2>4, <2>5 DEF SerialInv
<1>5. SessionInv'
  <2>1. PrepareAt(s)' /\ PlanAt(s)' /\ MutateAt(s)'
    BY <1>3, RestingSession DEF Resting
  <2>2. \A t \in Sessions \ {s} : PrepareAt(t)' /\ PlanAt(t)' /\ MutateAt(t)'
    BY <1>3, SameSessions DEF lifeVars
  <2> QED BY <2>1, <2>2 DEF SessionInv
<1> QED BY <1>1, <1>2, <1>4, <1>5

\* A client connects.
LEMMA ConnectInv ==
    ASSUME IndInv, NEW s \in Sessions, Connect(s)
    PROVE  IndInv'
<1>1. Idle /\ ~Connected /\ TypeOK
  BY DEF Connect, IndInv
<1>2. /\ \A t \in Sessions : pc[t] \in Over /\ ~Active(t)
      /\ \A r \in Runners : ~Running(r)
  BY <1>1, IdleMeans
<1>3. \A t \in Sessions : pc[t] \notin Starting \cup {"up"}
  BY <1>2 DEF Over, Starting, Preparing, Mutating
<1>4. meddled' \in BOOLEAN
  BY DEF Connect
<1> QED BY <1>2, <1>3, <1>4, StartsInv DEF Connect, Serving

\* A client disconnects, or the daemon shuts down.
LEMMA DisconnectInv ==
    ASSUME IndInv, NEW s \in Sessions, Disconnect(s) \/ Shutdown(s)
    PROVE  IndInv'
<1>1. \A r \in Runners : ~Running(r)
  BY IdleMeans DEF IndInv, Disconnect, Shutdown
<1> QED BY <1>1, ClosesInv DEF Disconnect, Shutdown, Advance

\* The script is launched over idle sessions and scripts.
LEMMA LaunchInv ==
    ASSUME IndInv, Idle, NEW r \in Runners \ Sessions, Launch(r),
           daemon' \in {daemon, "stop_post"}, daemon' # daemon => daemon = "dead",
           original' = original, meddled' \in BOOLEAN,
           UNCHANGED sessionVars, UNCHANGED hostVars
    PROVE  IndInv'
<1> USE DEF IndInv, Launch
<1>1. /\ \A t \in Sessions : pc[t] \in Over \cup {"up"}
      /\ \A q \in Runners : script[q] = "idle" /\ ~Running(q)
  BY IdleMeans
<1>2. CleanInv' /\ DirtyInv' /\ NoTunnelLoop'
  BY DEF CleanInv, RestoredResolv, DirtyInv, TruePreState, BackupMatches, NoTunnelLoop, hostVars
<1>3. TypeOK'
  <2>1. HostTypeOK' /\ SessionTypeOK' /\ LifecycleTypeOK'
    BY DEF TypeOK, HostTypeOK, SessionTypeOK, LifecycleTypeOK, hostVars, sessionVars
  <2>2. PanicTypeOK'
    BY DEF TypeOK, PanicTypeOK, Commands
  <2> QED BY <2>1, <2>2 DEF TypeOK
<1>4. SerialInv'
  <2>1. pc' = pc /\ script'[r] = "check" /\ \A q \in Runners \ {r} : script'[q] = "idle"
    BY <1>1 DEF sessionVars, TypeOK, PanicTypeOK
  <2>2. \A q \in Runners \ {r} : ~Running(q)'
    BY <2>1 DEF Running, Commands
  <2>3. \A t \in Sessions : (Active(t)' => pc[t] = "up") /\ pc[t] # "start" /\ script'[t] = "idle"
    BY <1>1, <2>1 DEF Active, Runners, Over, Starting, Preparing, Mutating, Stopping, Reverting
  <2>4. \A t \in Sessions : Active(t)' => Active(t)
    BY <2>3 DEF Active
  <2> QED BY <2>1, <2>2, <2>3, <2>4 DEF SerialInv
<1>5. SessionInv'
  BY <1>1, RestingSession DEF SessionInv, Resting, sessionVars
<1>6. ScriptInv'
  BY <1>1 DEF ScriptInv, ScriptAt, ReadAt, BeforeSysctl, OnResolv, Commands, Exits, TypeOK, PanicTypeOK
<1> QED BY <1>2, <1>3, <1>4, <1>5, <1>6

\* A script that no session waits for is reaped.
LEMMA ReapInv ==
    ASSUME IndInv, NEW r \in Runners, Reap(r),
           daemon' \in {daemon, "stopped"}, daemon' # daemon => daemon = "stop_post",
           original' = original, meddled' = meddled,
           UNCHANGED sessionVars, UNCHANGED hostVars
    PROVE  IndInv'
<1> USE DEF IndInv, Reap
<1>1. /\ failed[r] = 0 /\ idx[r] = 0 /\ want[r].kind = "absent" /\ ~Running(r)
      /\ script'[r] = "idle" /\ \A q \in Runners \ {r} : script'[q] = script[q]
  BY DEF ScriptInv, ScriptAt, ReadAt, BeforeSysctl, OnResolv, Exits, Running, Commands, TypeOK, PanicTypeOK
<1>2. CleanInv' /\ DirtyInv' /\ NoTunnelLoop'
  BY DEF CleanInv, RestoredResolv, DirtyInv, TruePreState, BackupMatches, NoTunnelLoop, hostVars
<1>3. TypeOK'
  <2>1. HostTypeOK' /\ SessionTypeOK' /\ LifecycleTypeOK'
    BY DEF TypeOK, HostTypeOK, SessionTypeOK, LifecycleTypeOK, hostVars, sessionVars
  <2>2. PanicTypeOK'
    BY DEF TypeOK, PanicTypeOK
  <2> QED BY <2>1, <2>2 DEF TypeOK
<1>4. SerialInv'
  <2>1. \A q \in Runners : Running(q)' <=> Running(q)
    BY <1>1 DEF Running, Commands
  <2>2. pc' = pc /\ snapshot' = snapshot /\ \A t \in Sessions : Active(t)' <=> Active(t)
    BY <2>1 DEF Active, Runners, sessionVars, hostVars
  <2>3. \A t \in Sessions : script'[t] # "idle" => script[t] # "idle"
    BY <1>1 DEF Runners
  <2> QED BY <2>1, <2>2, <2>3 DEF SerialInv
<1>5. SessionInv'
  BY SameSessions DEF SessionInv, sessionVars
<1>6. ScriptInv'
  <2>1. ScriptAt(r)'
    BY <1>1 DEF ScriptAt, ReadAt, BeforeSysctl, OnResolv, Commands, Exits
  <2>2. \A q \in Runners \ {r} : ScriptAt(q)'
    BY <1>1, SameScripts
  <2> QED BY <2>1, <2>2 DEF ScriptInv
<1> QED BY <1>2, <1>3, <1>4, <1>5, <1>6

\* Only the state of the service changes.
LEMMA ServiceInv ==
    ASSUME IndInv, (Terminate /\ UNCHANGED panicVars) \/ Drained \/ Exit \/ StartDaemon
    PROVE  IndInv'
<1> USE DEF IndInv, Terminate, Drained, Exit, StartDaemon
<1>1. UNCHANGED <<original, meddled, pc, writer, script, failed, idx, count, want, hostVars>>
  BY DEF sessionVars, panicVars
<1>2. CleanInv' /\ DirtyInv' /\ NoTunnelLoop'
  BY <1>1 DEF CleanInv, RestoredResolv, DirtyInv, TruePreState, BackupMatches, NoTunnelLoop, hostVars
<1>3. TypeOK'
  <2>1. HostTypeOK' /\ PanicTypeOK' /\ SessionTypeOK'
    BY <1>1 DEF TypeOK, HostTypeOK, PanicTypeOK, SessionTypeOK, hostVars
  <2>2. LifecycleTypeOK'
    BY <1>1 DEF TypeOK, LifecycleTypeOK
  <2> QED BY <2>1, <2>2 DEF TypeOK
<1>4. SerialInv'
  <2>1. daemon' = "dead" => \A s \in Sessions : pc[s] \in Over
    BY IdleMeans DEF Connected
  <2> QED BY <1>1, <2>1 DEF SerialInv, Active, Running, hostVars
<1>5. SessionInv'
  BY <1>1 DEF SessionInv, PrepareAt, PlanAt, MutateAt, BackupMatches, hostVars
<1>6. ScriptInv'
  BY <1>1 DEF ScriptInv, ScriptAt, ReadAt, BeforeSysctl, OnResolv, RestoredResolv, hostVars
<1> QED BY <1>2, <1>3, <1>4, <1>5, <1>6

\* A signal ends scripts of which nothing but their exit code is left.
LEMMA KillScriptsInv ==
    ASSUME IndInv, NEW R \in SUBSET Runners, KillScripts(R),
           daemon = "running", daemon' \in {"running", "signalled", "stopping"},
           UNCHANGED <<original, meddled, sessionVars, hostVars>>
    PROVE  IndInv'
<1> USE DEF IndInv
<1>1. \A r \in Runners :
        \/ /\ script'[r] = script[r] /\ failed'[r] = failed[r] /\ idx'[r] = idx[r]
           /\ count'[r] = count[r] /\ want'[r] = want[r]
        \/ /\ Running(r) /\ script'[r] = "exit1" /\ failed'[r] = 0 /\ idx'[r] = 0
           /\ want'[r] = NothingRead
  BY DEF KillScripts
<1>2. CleanInv' /\ DirtyInv' /\ NoTunnelLoop'
  BY DEF CleanInv, RestoredResolv, DirtyInv, TruePreState, BackupMatches, NoTunnelLoop, hostVars
<1>3. TypeOK'
  <2>1. HostTypeOK' /\ SessionTypeOK' /\ LifecycleTypeOK'
    BY DEF TypeOK, HostTypeOK, SessionTypeOK, LifecycleTypeOK, hostVars, sessionVars
  <2>2. PanicTypeOK'
    BY NothingReadTyped DEF KillScripts, TypeOK, PanicTypeOK, Exits
  <2> QED BY <2>1, <2>2 DEF TypeOK
<1>4. SerialInv'
  <2>1. \A r \in Runners : Running(r)' => Running(r)
    BY <1>1 DEF Running
  <2>2. pc' = pc /\ snapshot' = snapshot /\ \A s \in Sessions : Active(s)' => Active(s)
    BY <2>1 DEF Active, Runners, sessionVars, hostVars
  <2>3. \A s \in Sessions : script'[s] # "idle" => script[s] # "idle"
    BY <1>1 DEF Running, Commands, Runners
  <2> QED BY <2>1, <2>2, <2>3 DEF SerialInv
<1>5. SessionInv'
  BY SameSessions DEF SessionInv, sessionVars
<1>6. ScriptInv'
  <2> SUFFICES ASSUME NEW r \in Runners PROVE ScriptAt(r)'
    BY DEF ScriptInv
  <2>1. CASE script'[r] = "exit1" /\ failed'[r] = 0 /\ idx'[r] = 0 /\ want'[r] = NothingRead
    BY <2>1 DEF ScriptAt, ReadAt, BeforeSysctl, OnResolv, NothingRead, Commands, Exits
  <2> QED BY <1>1, <2>1, SameScripts
<1> QED BY <1>2, <1>3, <1>4, <1>5, <1>6

\* The processes are gone; their variables have their types.
LEMMA ProcessesTyped ==
    ASSUME TypeOK, NEW R \in SUBSET Runners, Sessions \subseteq R, ProcessesDie(R)
    PROVE  PanicTypeOK' /\ SessionTypeOK'
<1> USE DEF ProcessesDie
<1>1. NewWriter \in Snapshot
  BY PlanNumbers DEF NewWriter, Snapshot, ResolvConfState, Kinds, Texts
<1>2. PanicTypeOK'
  BY NothingReadTyped DEF TypeOK, PanicTypeOK
<1>3. SessionTypeOK'
  BY <1>1 DEF SessionTypeOK, Over
<1> QED BY <1>2, <1>3

\* The processes are gone; the scripts that live on know what they knew.
LEMMA ProcessesGone ==
    ASSUME TypeOK, SerialInv, NEW R \in SUBSET Runners, Sessions \subseteq R, ProcessesDie(R)
    PROVE  PanicTypeOK' /\ SessionTypeOK' /\ SerialInv' /\ SessionInv'
<1> USE DEF ProcessesDie
<1>1. PanicTypeOK' /\ SessionTypeOK'
  BY ProcessesTyped
<1>2. SerialInv'
  <2>1. \A s \in Sessions : pc'[s] = "new" /\ script'[s] = "idle" /\ ~Active(s)'
    BY DEF Active, Starting, Preparing, Mutating, Stopping, Reverting, Runners
  <2>2. \A r \in Runners : Running(r)' => Running(r)
    BY DEF Running, Commands
  <2> QED BY <2>1, <2>2 DEF SerialInv, Over
<1>3. SessionInv'
  BY RestingSession DEF SessionInv, Resting, Over
<1> QED BY <1>1, <1>2, <1>3

\* The daemon dies with its scripts.
LEMMA CrashInv ==
    ASSUME IndInv, Crash
    PROVE  IndInv'
<1> USE DEF IndInv, Crash
<1>1. PanicTypeOK' /\ SessionTypeOK' /\ SerialInv' /\ SessionInv'
  BY ProcessesGone DEF Runners
<1>2. tun' = (IF tun \in Sessions THEN NoTun ELSE tun) /\ (routes = {} => routes' = {})
  OBVIOUS
<1>3. HostTypeOK'
  BY MaxFaultsAssumption DEF TypeOK, HostTypeOK, Fault
<1>4. LifecycleTypeOK'
  BY DEF TypeOK, LifecycleTypeOK
<1>5. CleanInv'
  BY TunAssumption DEF CleanInv, RestoredResolv, TypeOK, LifecycleTypeOK, Originals
<1>6. DirtyInv' /\ NoTunnelLoop'
  BY DEF DirtyInv, TruePreState, BackupMatches, NoTunnelLoop
<1>7. ScriptInv'
  <2> SUFFICES ASSUME NEW r \in Runners PROVE ScriptAt(r)'
    BY DEF ScriptInv
  <2>1. ScriptAt(r)
    BY DEF ScriptInv
  <2>2. CASE r \in Sessions \cup {Standalone}
    BY <2>2 DEF ProcessesDie, ScriptAt, ReadAt, BeforeSysctl, OnResolv, NothingRead, Commands, Exits
  <2>3. CASE r \notin Sessions \cup {Standalone}
    <3>1. /\ script'[r] = script[r] /\ failed'[r] = failed[r] /\ idx'[r] = idx[r]
          /\ count'[r] = count[r] /\ want'[r] = want[r]
      BY <2>3 DEF ProcessesDie
    <3> QED BY <1>2, <2>1, <3>1, TunAssumption DEF ScriptAt, ReadAt, BeforeSysctl, OnResolv, RestoredResolv
  <2> QED BY <2>2, <2>3
<1> QED BY <1>1, <1>3, <1>4, <1>5, <1>6, <1>7 DEF TypeOK

\* A reboot: kernel state is gone, the snapshot and the files stay.
LEMMA RebootInv ==
    ASSUME IndInv, Reboot
    PROVE  IndInv'
<1> USE DEF IndInv, Reboot, RemoveTun
<1>1. PanicTypeOK' /\ SessionTypeOK' /\ SerialInv' /\ SessionInv'
  BY ProcessesGone DEF Runners
<1>2. /\ original' \in Originals /\ original'.tun = NoTun
      /\ original'.ipv6 = original.ipv6 /\ original'.resolv = original.resolv
  BY DEF TypeOK, LifecycleTypeOK, Originals
<1>3. HostTypeOK'
  BY MaxFaultsAssumption DEF TypeOK, HostTypeOK, LifecycleTypeOK, Originals, Fault
<1>4. LifecycleTypeOK'
  BY <1>2 DEF TypeOK, LifecycleTypeOK
<1>5. CleanInv'
  BY <1>2 DEF CleanInv, RestoredResolv
<1>6. DirtyInv' /\ NoTunnelLoop'
  BY <1>2 DEF DirtyInv, TruePreState, BackupMatches, NoTunnelLoop
<1>7. ScriptInv'
  BY DEF ProcessesDie, ScriptInv, ScriptAt, ReadAt, BeforeSysctl, OnResolv, NothingRead, Commands, Exits
<1> QED BY <1>1, <1>3, <1>4, <1>5, <1>6, <1>7 DEF TypeOK

\* The administrator edits a host of which we own nothing.
LEMMA AdminEditInv ==
    ASSUME IndInv, AdminEdit
    PROVE  IndInv'
<1> USE DEF IndInv, AdminEdit
<1>1. /\ \A s \in Sessions : pc[s] \in Over
      /\ \A r \in Runners : ~Running(r)
  BY IdleMeans
<1>2. UNCHANGED <<pc, writer, script, failed, idx, count, want>>
  BY DEF sessionVars, panicVars
<1>3. HostTypeOK'
  BY DEF TypeOK, HostTypeOK, Originals, ForeignResolvFiles, ResolvFiles, AbsentFile,
         RegularFile, Symlink, Kinds, Texts
<1>4. PanicTypeOK' /\ SessionTypeOK' /\ LifecycleTypeOK'
  BY <1>2 DEF TypeOK, PanicTypeOK, SessionTypeOK, LifecycleTypeOK
<1>5. CleanInv'
  BY DEF CleanInv, RestoredResolv
<1>6. DirtyInv' /\ NoTunnelLoop'
  BY DEF DirtyInv, NoTunnelLoop
<1>7. SerialInv'
  BY <1>2 DEF SerialInv, Active, Running
<1>8. SessionInv'
  BY <1>1, <1>2, RestingSession DEF SessionInv, Resting
<1>9. ScriptInv'
  BY <1>1, NoScriptRuns
<1> QED BY <1>3, <1>4, <1>5, <1>6, <1>7, <1>8, <1>9 DEF TypeOK

-----------------------------------------------------------------------------
(***************************************************************************)
(* The theorems.                                                           *)
(***************************************************************************)

\* The invariant holds initially.
LEMMA InitInv == Init => IndInv
<1> SUFFICES ASSUME Init PROVE IndInv
  OBVIOUS
<1> USE DEF Init, PanicInit, SessionInit
<1>1. HostTypeOK
  <2>1. original \in Originals /\ ForeignResolvFiles \subseteq ResolvFiles
    BY DEF ForeignResolvFiles, ResolvFiles, AbsentFile, RegularFile, Symlink, Kinds, Texts
  <2>2. resolv \in ResolvFiles /\ ipv6 \in {"0", "1"} /\ tun \in {NoTun, ForeignTun}
    BY <2>1 DEF Originals
  <2>3. faults \in 0 .. MaxFaults
    BY MaxFaultsAssumption
  <2> QED BY <2>2, <2>3 DEF HostTypeOK
<1>2. PanicTypeOK
  BY NothingReadTyped DEF PanicTypeOK
<1>3. SessionTypeOK
  BY PlanNumbers DEF SessionTypeOK, Over, NewWriter, Snapshot, ResolvConfState, Kinds, Texts
<1>4. LifecycleTypeOK
  BY DEF LifecycleTypeOK
<1>5. CleanInv /\ DirtyInv /\ NoTunnelLoop
  BY DEF CleanInv, RestoredResolv, DirtyInv, NoTunnelLoop
<1>6. SerialInv
  <2>1. \A s \in Sessions : pc[s] = "new" /\ script[s] = "idle"
    BY DEF Runners
  <2>2. \A r \in Runners : ~Running(r)
    BY DEF Running, Commands
  <2>3. \A s \in Sessions : ~Active(s)
    BY <2>1 DEF Active, Starting, Preparing, Mutating, Stopping, Reverting
  <2> QED BY <2>1, <2>2, <2>3 DEF SerialInv, Over
<1>7. SessionInv
  BY DEF SessionInv, PrepareAt, PlanAt, MutateAt, Preparing, Mutating
<1>8. ScriptInv
  BY DEF ScriptInv, ScriptAt, ReadAt, BeforeSysctl, OnResolv, NothingRead, Commands, Exits
<1> QED BY <1>1, <1>2, <1>3, <1>4, <1>5, <1>6, <1>7, <1>8 DEF IndInv, TypeOK

\* Every step of the service, of a session, of the script and of the
\* environment preserves the invariant.
LEMMA NextInv ==
    ASSUME SafeConfig, IndInv, Next
    PROVE  IndInv'
<1>1. CASE \E s \in Sessions : Connect(s) \/ Disconnect(s) \/ Shutdown(s)
  BY <1>1, ConnectInv, DisconnectInv
<1>2. ASSUME NEW s \in Sessions, SessionRuns(s) PROVE IndInv'
  <2>1. CASE StartStep(s)
    BY <1>2, <2>1, CheckSnapshotInv, RecordResolvConfInv, RecordSysctlInv, CheckTunInv,
       PersistPreStateInv, DisableIPv6Inv, LogSysctlSetInv, BuildDeviceInv, CreateTunInv,
       LogTunCreateInv, UnlinkSymlinkInv, LogResolvIntentInv, WriteResolvTmpInv,
       RenameResolvInv, LogResolvDoneInv, LogIntentInv, AddRouteOrRuleInv, LogAddedInv
    DEF StartStep, SessionRuns
  <2>2. CASE RevertStarts(s) \/ RevertEnds(s)
    BY <1>2, <2>2, RevertStartsInv, RevertEndsInv DEF SessionRuns
  <2> QED BY <1>2, <2>1, <2>2 DEF SessionRuns, SessionStep
<1>3. ASSUME NEW s \in Sessions, SessionFails(s) PROVE IndInv'
  BY <1>3, StartFailsInv, RevertCannotStartInv DEF SessionFails, SessionFailure
<1>4. ASSUME NEW r \in Runners, ScriptRuns(r) PROVE IndInv'
  BY <1>4, LooksInv, ReadSysctlInv, WriteSysctlInv, DeleteCatchallInv, CountRulesInv,
     DeleteRuleInv, RulesDeletedInv, FlushRoutesInv, DeleteTunInv, ReadKindInv, ReadDetailInv,
     VerifyBackupInv, RemoveResolvInv, PutResolvInv, NoTargetInv, RetireInv
  DEF ScriptRuns, Command
<1>5. ASSUME NEW r \in Runners, ScriptFails(r) PROVE IndInv'
  BY <1>5, ScriptFailsInv
<1>6. meddled \in BOOLEAN
  BY DEF IndInv, TypeOK, LifecycleTypeOK
<1>7. CASE Undo \/ StopPostStarts \/ ManualPanic
  <2>1. Standalone \in Runners \ Sessions /\ StopPost \in Runners \ Sessions /\ Manual \in Runners \ Sessions
    BY RunnerAssumption DEF Runners
  <2>2. CASE Undo
    BY <1>6, <2>1, <2>2, LaunchInv DEF Undo, lifeVars
  <2>3. CASE StopPostStarts
    BY <1>6, <2>1, <2>3, LaunchInv DEF StopPostStarts
  <2>4. CASE ManualPanic
    BY <2>1, <2>4, LaunchInv DEF ManualPanic
  <2> QED BY <1>7, <2>2, <2>3, <2>4
<1>8. CASE UndoEnds \/ StopPostEnds \/ ManualEnds
  BY <1>8, ReapInv DEF UndoEnds, StopPostEnds, ManualEnds, Runners, lifeVars
<1>9. CASE Terminate \/ Drained \/ Exit \/ StartDaemon
  <2>1. Sessions \cup {Standalone} \in SUBSET Runners
    BY DEF Runners
  <2>2. ASSUME Terminate, KillScripts(Sessions \cup {Standalone}) PROVE IndInv'
    BY <2>1, <2>2, KillScriptsInv DEF Terminate
  <2> QED BY <1>9, <2>2, ServiceInv DEF Terminate
<1>10. CASE Crash \/ Reboot \/ AdminEdit
  BY <1>10, CrashInv, RebootInv, AdminEditInv
<1> QED
  BY <1>1, <1>2, <1>3, <1>4, <1>5, <1>7, <1>8, <1>9, <1>10 DEF Next

\* A stuttering step preserves the invariant.
LEMMA StutterInv ==
    ASSUME IndInv, UNCHANGED vars
    PROVE  IndInv'
<1> USE DEF IndInv, vars, hostVars, panicVars, sessionVars, lifeVars
<1>1. TypeOK'
  <2>1. HostTypeOK' /\ PanicTypeOK' /\ SessionTypeOK'
    BY DEF TypeOK, HostTypeOK, PanicTypeOK, SessionTypeOK
  <2>2. LifecycleTypeOK'
    BY DEF TypeOK, LifecycleTypeOK
  <2> QED BY <2>1, <2>2 DEF TypeOK
<1>2. CleanInv' /\ DirtyInv' /\ NoTunnelLoop'
  BY DEF CleanInv, RestoredResolv, DirtyInv, TruePreState, BackupMatches, NoTunnelLoop
<1>3. SerialInv'
  BY DEF SerialInv, Active, Running
<1>4. SessionInv'
  BY DEF SessionInv, PrepareAt, PlanAt, MutateAt, BackupMatches
<1>5. ScriptInv'
  BY DEF ScriptInv, ScriptAt, ReadAt, BeforeSysctl, OnResolv, RestoredResolv
<1> QED BY <1>1, <1>2, <1>3, <1>4, <1>5

\* The invariant of the whole life of a host: what each step of Session.Start,
\* Close and ouf-panic relies on when the next one runs, or does not run.
THEOREM Invariance == ASSUME SafeConfig PROVE Spec => []IndInv
<1>1. IndInv /\ [Next]_vars => IndInv'
  BY NextInv, StutterInv
<1> QED BY <1>1, InitInv, PTL DEF Spec

\* The invariant makes the script able to restore the host.
LEMMA InvRevertible == ASSUME SafeConfig, IndInv PROVE AlwaysRevertible
<1> USE DEF IndInv, AlwaysRevertible, RevertOutcome, OriginalState
<1>1. CASE snapshot = NoSnapshot
  BY <1>1 DEF CleanInv, RestoredResolv
<1>2. CASE snapshot # NoSnapshot
  <2>1. snapshot \in Snapshot
    BY <1>2 DEF TypeOK, HostTypeOK
  <2>2. /\ snapshot.value_before = original.ipv6 /\ original.tun = NoTun
        /\ snapshot.resolv_conf = [kind |-> original.resolv.kind, text |-> original.resolv.text]
        /\ Restorable(snapshot)
    BY <1>2, <2>1 DEF DirtyInv, TruePreState, BackupMatches, Restorable, Snapshot, ResolvConfState
  <2>3. \A p \in RecordedPriorities(snapshot) : p >= 1000
    BY <2>1, Numbers DEF SafeConfig, RecordedPriorities, RulesOf, Prio, Catchall, FirstBypass, Snapshot
  <2>4. rules \ Deletable(snapshot) = {}
    BY <1>2, <2>3 DEF DirtyInv, Deletable
  <2> QED BY <1>2, <2>2, <2>4
<1> QED BY <1>1, <1>2

\* Whatever call of Session.Start, Close or ouf-panic a crash, a reboot, a failure
\* or a kill comes after, one undisturbed run of ouf-panic restores the host.
THEOREM Revertible == ASSUME SafeConfig PROVE Spec => []AlwaysRevertible
<1>1. IndInv => AlwaysRevertible
  BY InvRevertible
<1> QED BY <1>1, Invariance, PTL

\* The catchall rule never exists without the bypass rules, neither while
\* installRouting adds them nor while ouf-panic deletes them.
THEOREM LoopFree == ASSUME SafeConfig PROVE Spec => []NoTunnelLoop
<1>1. IndInv => NoTunnelLoop
  BY DEF IndInv
<1> QED BY <1>1, Invariance, PTL
=============================================================================

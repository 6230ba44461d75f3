--------------------------- MODULE PowerLossProof ---------------------------
(***************************************************************************)
(* Proofs about Lifecycle and PowerLoss without a proviso on the           *)
(* configuration: soft deletions may fail and priorities may be refused.   *)
(***************************************************************************)
EXTENDS PowerLossInv, LifecycleProof

-----------------------------------------------------------------------------
(***************************************************************************)
(* Frames: what the steps of one component leave alone.                    *)
(***************************************************************************)

\* A session that is starting, or about to close its descriptor, is alone.
LEMMA StrictIdle ==
    ASSUME StrictInv, NEW s \in Sessions, pc[s] \notin Over \cup Reverting \cup {"up"}
    PROVE  \A r \in Runners : script[r] = "idle"
BY DEF StrictInv, Busy

\* A step of the one busy session keeps commands serial.
LEMMA StrictSession ==
    ASSUME TypeOK, StrictInv, NEW s \in Sessions, NEW p,
           pc[s] \notin Over \cup Reverting \cup {"up"},
           pc' = [pc EXCEPT ![s] = p], script' = script, daemon' = daemon
    PROVE  StrictInv'
BY StrictIdle DEF StrictInv, Busy, TypeOK, SessionTypeOK

\* A step of the one running script keeps commands serial.
LEMMA StrictScript ==
    ASSUME TypeOK, StrictInv, NEW r \in Runners, script[r] # "idle", NEW x,
           script' = [script EXCEPT ![r] = x], pc' = pc, daemon' = daemon
    PROVE  StrictInv'
BY DEF StrictInv, Busy, TypeOK, PanicTypeOK

\* Nothing is claimed about the writer of a session that rests.
LEMMA SoftResting ==
    ASSUME NEW s \in Sessions, pc'[s] \in Resting
    PROVE  SoftSessionAt(s)'
BY DEF Resting, Over, Reverting, Preparing, Mutating, SoftSessionAt, SoftPrepareAt, PlanAt,
       SoftMutateAt

\* Nor about a script that has not begun, or has ended.
LEMMA SoftScriptOut ==
    ASSUME NEW r \in Runners, script'[r] \in {"idle", "check"} \cup Exits,
           want'[r].kind = "absent"
    PROVE  SoftScriptAt(r)'
BY DEF SoftScriptAt, ReadAt, BeforeSysctl, OnResolv, Commands, Exits

\* A script that has not begun, or has ended, has read nothing of resolv.conf.
LEMMA SoftScriptWant ==
    ASSUME SoftInv, NEW r \in Runners, script[r] \in {"idle", "check"} \cup Exits
    PROVE  want[r].kind = "absent"
BY DEF SoftInv, SoftScriptAt, ReadAt, Exits

\* A step of a session preserves the invariant if it keeps the host in order and
\* establishes what is claimed of the session's new program counter.
LEMMA SoftSessionStep ==
    ASSUME SoftInv, NEW s \in Sessions, pc[s] \notin Over \cup Reverting \cup {"up"},
           NEW p \in Starting \cup Stopping \cup Over \cup {"up"},
           pc' = [pc EXCEPT ![s] = p], writer' \in [Sessions -> Snapshot],
           UNCHANGED panicVars, UNCHANGED lifeVars,
           HostTypeOK', SoftClean', SoftDirty', SoftSessionAt(s)'
    PROVE  SoftInv'
<1> USE DEF SoftInv
<1>1. TypeOK'
  <2>1. PanicTypeOK' /\ LifecycleTypeOK'
    BY DEF TypeOK, PanicTypeOK, LifecycleTypeOK, panicVars, lifeVars
  <2>2. SessionTypeOK'
    BY DEF TypeOK, SessionTypeOK
  <2> QED BY <2>1, <2>2 DEF TypeOK
<1>2. StrictInv'
  BY StrictSession DEF panicVars, lifeVars
<1>3. ASSUME NEW t \in Sessions, t # s PROVE SoftSessionAt(t)'
  <2>1. pc'[t] \in Resting
    BY <1>3 DEF StrictInv, TypeOK, SessionTypeOK, Resting
  <2> QED BY <2>1, SoftResting
<1>4. ASSUME NEW r \in Runners PROVE SoftScriptAt(r)'
  BY StrictIdle, SoftScriptOut, SoftScriptWant DEF panicVars
<1> QED BY <1>1, <1>2, <1>3, <1>4

\* A command of the script preserves the invariant if it keeps the host in order and
\* establishes what is claimed of the script's next command.
LEMMA SoftScriptStep ==
    ASSUME SoftInv, NEW r \in Runners, script[r] # "idle",
           NEW x, script' = [script EXCEPT ![r] = x],
           \A q \in Runners \ {r} : want'[q] = want[q],
           UNCHANGED sessionVars, UNCHANGED lifeVars,
           PanicTypeOK', HostTypeOK', SoftClean', SoftDirty', SoftScriptAt(r)'
    PROVE  SoftInv'
<1> USE DEF SoftInv
<1>1. TypeOK'
  BY DEF TypeOK, SessionTypeOK, LifecycleTypeOK, sessionVars, lifeVars
<1>2. StrictInv'
  BY StrictScript DEF sessionVars, lifeVars
<1>3. ASSUME NEW s \in Sessions PROVE SoftSessionAt(s)'
  <2>1. pc'[s] \in Resting
    BY DEF StrictInv, Busy, Resting, sessionVars
  <2> QED BY <2>1, SoftResting
<1>4. ASSUME NEW q \in Runners, q # r PROVE SoftScriptAt(q)'
  <2>1. script'[q] = "idle"
    BY <1>4 DEF StrictInv, TypeOK, PanicTypeOK
  <2>2. script[q] = "idle"
    BY <1>4 DEF StrictInv
  <2> QED BY <1>4, <2>1, <2>2, SoftScriptOut, SoftScriptWant
<1> QED BY <1>1, <1>2, <1>3, <1>4

\* The host side of the invariant says nothing of the rules, of the temporary file or
\* of the number of faults.
LEMMA SoftHostSame ==
    ASSUME SoftInv, UNCHANGED <<ipv6, tun, routes, resolv, backup, snapshot>>, original' = original
    PROVE  SoftClean' /\ SoftDirty'
BY DEF SoftInv, SoftClean, RoutesNeedTun, SoftDirty, Undoes, Resolved, IsOriginal

\* A step under a snapshot that it leaves alone.
LEMMA SoftStillDirty ==
    ASSUME SoftInv, snapshot # NoSnapshot, UNCHANGED <<snapshot, backup>>, original' = original,
           RoutesNeedTun'
    PROVE  SoftClean' /\ SoftDirty'
BY DEF SoftInv, SoftClean, RoutesNeedTun, SoftDirty, Undoes, Resolved, IsOriginal

-----------------------------------------------------------------------------
(***************************************************************************)
(* Session.Start.                                                          *)
(***************************************************************************)

\* The steps that leave the host and the writer alone, or only read the sysctl.
LEMMA SoftReadingStep ==
    ASSUME SoftInv, NEW s \in Sessions,
           CheckSnapshot(s) \/ RecordSysctl(s) \/ CheckTun(s) \/ BuildDevice(s),
           UNCHANGED lifeVars
    PROVE  SoftInv'
<1> USE DEF SoftInv, CheckSnapshot, RecordSysctl, CheckTun, BuildDevice, Advance
<1>1. UNCHANGED hostVars /\ UNCHANGED panicVars
  OBVIOUS
<1>2. HostTypeOK'
  BY <1>1 DEF TypeOK, HostTypeOK, hostVars
<1>3. SoftClean' /\ SoftDirty'
  BY <1>1, SoftHostSame DEF hostVars, lifeVars
<1>4. writer' \in [Sessions -> Snapshot]
  <2>1. writer \in [Sessions -> Snapshot] /\ ipv6 \in {"0", "1"}
    BY DEF TypeOK, SessionTypeOK, HostTypeOK
  <2>2. [writer[s] EXCEPT !.value_before = ipv6] \in Snapshot
    BY <2>1 DEF Snapshot
  <2>3. writer' \in {writer, [writer EXCEPT ![s] = [writer[s] EXCEPT !.value_before = ipv6]]}
    BY DEF SetWriter
  <2> QED BY <2>1, <2>2, <2>3
<1>5. PICK p \in {"record", "failed", "tun_check", "persist", "tun"} :
        /\ pc' = [pc EXCEPT ![s] = p] /\ pc'[s] = p
        /\ p = "record" => pc[s] = "start" /\ snapshot = NoSnapshot /\ writer' = writer
        /\ p = "tun_check" => /\ pc[s] = "sysctl"
                              /\ writer'[s] = [writer[s] EXCEPT !.value_before = ipv6]
        /\ p = "persist" => pc[s] = "tun_check" /\ tun = NoTun /\ writer' = writer
        /\ p = "tun" => pc[s] = "device" /\ writer' = writer
  BY DEF SetWriter, TypeOK, SessionTypeOK
<1>6. SoftSessionAt(s) /\ writer[s] \in Snapshot
  BY DEF TypeOK, SessionTypeOK
<1>7. SoftPrepareAt(s)'
  BY <1>1, <1>5, <1>6
  DEF SoftSessionAt, SoftPrepareAt, Preparing, SoftClean, RoutesNeedTun, BackupMatches, Resolved, IsOriginal,
      Snapshot, hostVars, lifeVars
<1>8. PlanAt(s)' /\ SoftMutateAt(s)'
  BY <1>1, <1>5, <1>6 DEF SoftSessionAt, PlanAt, SoftMutateAt, Mutating, hostVars
<1> QED
  BY <1>1, <1>2, <1>3, <1>4, <1>5, <1>7, <1>8, SoftSessionStep
  DEF SoftSessionAt, Starting, Preparing, Mutating, Stopping, Over, Reverting

\* The resolv.conf recorded is the administrator's, if there is one, and its backup
\* matches.
LEMMA SoftRecordResolvConf ==
    ASSUME SoftInv, NEW s \in Sessions, RecordResolvConf(s), UNCHANGED lifeVars
    PROVE  SoftInv'
<1> USE DEF SoftInv, RecordResolvConf, Advance
<1> DEFINE state == [kind |-> resolv.kind, text |-> resolv.text]
           w     == [NewWriter EXCEPT !.resolv_conf = state]
<1>1. snapshot = NoSnapshot /\ snapshot' = NoSnapshot
  BY DEF SoftSessionAt, SoftPrepareAt, Preparing
<1>2. HostTypeOK'
  BY DEF TypeOK, HostTypeOK, ResolvFiles
<1>3. SoftClean' /\ SoftDirty'
  BY <1>1 DEF SoftClean, RoutesNeedTun, SoftDirty, Resolved, IsOriginal, lifeVars
<1>4. w \in Snapshot /\ w.actions = 0 /\ w.resolv_conf = state
  <2>1. state \in ResolvConfState
    BY DEF TypeOK, HostTypeOK, ResolvFiles, ResolvConfState
  <2> HIDE DEF state
  <2> QED BY <2>1, PlanNumbers DEF NewWriter, Snapshot
<1>5. writer' = [writer EXCEPT ![s] = w]
  BY DEF SetWriter
<1> HIDE DEF w
<1>6. writer' \in [Sessions -> Snapshot] /\ writer'[s] = w /\ pc'[s] = "sysctl"
  BY <1>4, <1>5 DEF TypeOK, SessionTypeOK
<1>7. SoftPrepareAt(s)'
  BY <1>1, <1>4, <1>6
  DEF SoftPrepareAt, Preparing, SoftClean, RoutesNeedTun, BackupMatches, Resolved, IsOriginal, lifeVars
<1>8. PlanAt(s)' /\ SoftMutateAt(s)'
  BY <1>6 DEF PlanAt, SoftMutateAt, Mutating
<1> QED
  BY <1>2, <1>3, <1>6, <1>7, <1>8, SoftSessionStep
  DEF SoftSessionAt, Starting, Preparing, Over, Reverting

\* The first Persist.
LEMMA SoftPersistPreState ==
    ASSUME SoftInv, NEW s \in Sessions, PersistPreState(s), UNCHANGED lifeVars
    PROVE  SoftInv'
<1> USE DEF SoftInv, PersistPreState, Advance, Persist
<1>1. SoftPrepareAt(s) /\ writer[s] \in Snapshot /\ writer[s] # NoSnapshot
  BY NoSnapshotAssumption DEF SoftSessionAt, TypeOK, SessionTypeOK
<1>2. HostTypeOK'
  BY <1>1 DEF TypeOK, HostTypeOK
<1>3. original.tun = NoTun
  BY <1>1 DEF SoftPrepareAt, Preparing, SoftClean, RoutesNeedTun
<1>4. SoftClean' /\ SoftDirty'
  BY <1>1, <1>3
  DEF SoftClean, RoutesNeedTun, SoftDirty, Undoes, SoftPrepareAt, Resolved, IsOriginal, BackupMatches, lifeVars
<1>5. writer' \in [Sessions -> Snapshot] /\ writer'[s] = writer[s] /\ pc'[s] = "ipv6"
  BY DEF TypeOK, SessionTypeOK
<1>6. SoftSessionAt(s)'
  BY <1>1, <1>5 DEF SoftSessionAt, SoftPrepareAt, PlanAt, SoftMutateAt, Preparing, Mutating
<1> QED
  BY <1>2, <1>4, <1>5, <1>6, SoftSessionStep
  DEF Starting, Preparing, Mutating, Over, Reverting

\* A step that changes the host under the snapshot and leaves the files of the state
\* directory alone.
LEMMA SoftMutationStep ==
    ASSUME SoftInv, NEW s \in Sessions, pc[s] \in Mutating,
           NEW p \in Mutating \cup {"cleanup"}, pc' = [pc EXCEPT ![s] = p],
           UNCHANGED <<writer, snapshot, backup>>, UNCHANGED panicVars, UNCHANGED lifeVars,
           HostTypeOK', RoutesNeedTun', PlanAt(s)'
    PROVE  SoftInv'
<1> USE DEF SoftInv
<1>1. snapshot = writer[s] /\ snapshot # NoSnapshot
  BY NoSnapshotAssumption DEF SoftSessionAt, SoftMutateAt, TypeOK, SessionTypeOK
<1>2. SoftClean' /\ SoftDirty'
  BY <1>1, SoftStillDirty DEF lifeVars
<1>3. pc'[s] = p /\ writer' \in [Sessions -> Snapshot]
  BY DEF TypeOK, SessionTypeOK
<1>4. SoftSessionAt(s)'
  BY <1>1, <1>3 DEF SoftSessionAt, SoftPrepareAt, SoftMutateAt, Preparing, Mutating
<1> QED
  BY <1>2, <1>3, <1>4, SoftSessionStep
  DEF Starting, Preparing, Mutating, Stopping, Over, Reverting

\* The mutations of Start before installRouting.
LEMMA SoftMutation ==
    ASSUME SoftInv, NEW s \in Sessions,
           \/ DisableIPv6(s) \/ CreateTun(s) \/ UnlinkSymlink(s)
           \/ WriteResolvTmp(s) \/ RenameResolv(s),
           UNCHANGED lifeVars
    PROVE  SoftInv'
<1> USE DEF SoftInv, DisableIPv6, CreateTun, UnlinkSymlink, WriteResolvTmp, RenameResolv, Advance
<1>1. PICK p \in Mutating \cup {"cleanup"} : pc' = [pc EXCEPT ![s] = p] /\ pc'[s] = p
  BY DEF Mutating, TypeOK, SessionTypeOK
<1>2. pc[s] \in Mutating /\ UNCHANGED <<writer, snapshot, backup>> /\ UNCHANGED panicVars
  BY DEF Mutating
<1>3. AbsentFile \in ResolvFiles /\ RegularFile(OurContent, "0644") \in ResolvFiles
  BY DEF AbsentFile, RegularFile, ResolvFiles, Kinds, Texts
<1>4. HostTypeOK'
  BY <1>3 DEF TypeOK, HostTypeOK
<1>5. PlanAt(s)'
  BY <1>1, <1>2 DEF SoftSessionAt, PlanAt, TypeOK, SessionTypeOK
<1>6. RoutesNeedTun'
  BY TunAssumption DEF SoftClean, RoutesNeedTun
<1> QED BY <1>1, <1>2, <1>4, <1>5, <1>6, SoftMutationStep

\* A route or rule is added, or Start fails since it exists already: a soft deletion
\* may have left it.
LEMMA SoftAddRouteOrRule ==
    ASSUME SoftInv, NEW s \in Sessions, AddRouteOrRule(s), UNCHANGED lifeVars
    PROVE  SoftInv'
<1> USE PlanNumbers DEF SoftInv, AddRouteOrRule, Advance
<1> DEFINE a == writer[s].actions
<1>1. a \in GwRoute .. LastAction
  BY DEF SoftSessionAt, PlanAt
<1>2. PICK p \in {"added", "cleanup"} : pc' = [pc EXCEPT ![s] = p] /\ pc'[s] = p
  BY DEF TypeOK, SessionTypeOK
<1>3. HostTypeOK'
  <2>1. a < FirstBypass => a \in {GwRoute, DefRoute}
    BY <1>1
  <2>2. a >= FirstBypass => Prio(a) \in AllPriorities
    BY <1>1, OneRule
  <2>3. /\ routes' = routes \/ (a < FirstBypass /\ routes' = routes \cup {a})
        /\ rules' = rules \/ (~(a < FirstBypass) /\ rules' = rules \cup {Prio(a)})
        /\ UNCHANGED <<ipv6, tun, resolv, resolvTmp, backup, snapshot, faults>>
    OBVIOUS
  <2>4. a \in Int /\ FirstBypass \in Int
    BY <1>1
  <2> HIDE DEF a
  <2> QED BY ONLY SoftInv, <2>1, <2>2, <2>3, <2>4 DEF SoftInv, TypeOK, HostTypeOK
<1>4. PlanAt(s)'
  BY <1>1, <1>2 DEF PlanAt
<1>5. RoutesNeedTun'
  <2>1. tun' = tun /\ (routes' = routes \/ tun = s)
    BY DEF Addable
  <2> QED BY ONLY <2>1, SoftInv, TunAssumption DEF SoftInv, SoftClean, RoutesNeedTun
<1> QED BY <1>2, <1>3, <1>4, <1>5, SoftMutationStep DEF Mutating

\* A step that changes the writer and persists it.
LEMMA SoftPersistStep ==
    ASSUME SoftInv, NEW s \in Sessions, pc[s] \in Mutating,
           NEW p \in Mutating \cup {"up"}, pc' = [pc EXCEPT ![s] = p],
           NEW w \in Snapshot, SetWriter(s, w), Persist(w),
           w.resolv_conf = writer[s].resolv_conf, w.value_before = writer[s].value_before,
           UNCHANGED <<ipv6, tun, routes, rules, resolv, resolvTmp, backup, faults>>,
           UNCHANGED panicVars, UNCHANGED lifeVars,
           PlanAt(s)'
    PROVE  SoftInv'
<1> USE DEF SoftInv, Persist
<1>1. snapshot = writer[s] /\ snapshot # NoSnapshot /\ w # NoSnapshot
  BY NoSnapshotAssumption DEF SoftSessionAt, SoftMutateAt, TypeOK, SessionTypeOK
<1>2. HostTypeOK'
  BY DEF TypeOK, HostTypeOK
<1>3. writer' \in [Sessions -> Snapshot] /\ writer'[s] = w /\ pc'[s] = p
  BY DEF TypeOK, SessionTypeOK, SetWriter
<1>4. SoftClean' /\ SoftDirty'
  BY <1>1 DEF SoftClean, RoutesNeedTun, SoftDirty, Undoes, Resolved, IsOriginal, lifeVars
<1>5. SoftSessionAt(s)'
  BY <1>3 DEF SoftSessionAt, SoftPrepareAt, SoftMutateAt, Preparing, Mutating
<1> QED
  BY <1>2, <1>3, <1>4, <1>5, SoftSessionStep
  DEF Starting, Mutating, Over, Reverting

\* An action is appended to the snapshot: there is room for it.
LEMMA SoftAppend ==
    ASSUME SoftInv, NEW s \in Sessions,
           LogSysctlSet(s) \/ LogTunCreate(s) \/ LogResolvIntent(s) \/ LogIntent(s),
           UNCHANGED lifeVars
    PROVE  SoftInv'
<1> USE PlanNumbers
    DEF SoftInv, LogSysctlSet, LogTunCreate, LogResolvIntent, LogIntent, Advance, AppendAndPersist
<1>1. writer[s] \in Snapshot /\ writer[s].actions \in 0 .. LastAction
  BY DEF TypeOK, SessionTypeOK, Snapshot
<1>2. PlanAt(s) /\ pc[s] \in Mutating
  BY DEF SoftSessionAt, Mutating
<1>3. writer[s].actions < LastAction
  <2>1. pc[s] \in {"ipv6_log", "tun_log", "resolv_intent", "intent"}
    OBVIOUS
  <2> QED BY ONLY <1>1, <1>2, <2>1, PlanNumbers DEF PlanAt
<1>4. PICK d \in {TRUE, FALSE} :
        SetWriter(s, AppendAction(writer[s], d)) /\ Persist(AppendAction(writer[s], d))
  OBVIOUS
<1> DEFINE w == AppendAction(writer[s], d)
<1>5. /\ w \in Snapshot
      /\ w.resolv_conf = writer[s].resolv_conf /\ w.value_before = writer[s].value_before
      /\ w.actions = writer[s].actions + 1
  BY ONLY <1>1, <1>3, AppendedSnapshot
<1> HIDE DEF w
<1>6. writer'[s] = w
  BY <1>4 DEF SetWriter, TypeOK, SessionTypeOK, w
<1>7. PICK p \in {"device", "unlink", "resolv_tmp", "add"} :
        /\ pc' = [pc EXCEPT ![s] = p] /\ pc'[s] = p
        /\ p = "device" => pc[s] = "ipv6_log"
        /\ p = "unlink" => pc[s] = "tun_log"
        /\ p = "resolv_tmp" => pc[s] = "resolv_intent"
        /\ p = "add" => pc[s] = "intent"
  BY DEF TypeOK, SessionTypeOK
<1>8. PlanAt(s)'
  BY <1>1, <1>2, <1>5, <1>6, <1>7 DEF PlanAt
<1>9. /\ UNCHANGED <<ipv6, tun, routes, rules, resolv, resolvTmp, backup, faults>>
      /\ UNCHANGED panicVars
  OBVIOUS
<1> QED
  BY <1>2, <1>4, <1>5, <1>7, <1>8, <1>9, SoftPersistStep DEF Mutating, w

\* The last action is marked done.
LEMMA SoftMark ==
    ASSUME SoftInv, NEW s \in Sessions, LogResolvDone(s) \/ LogAdded(s), UNCHANGED lifeVars
    PROVE  SoftInv'
<1> USE PlanNumbers DEF SoftInv, LogResolvDone, LogAdded, Advance, MarkAndPersist
<1> DEFINE w == MarkLastDone(writer[s])
<1>1. writer[s] \in Snapshot /\ writer[s].actions \in 0 .. LastAction
  BY DEF TypeOK, SessionTypeOK, Snapshot
<1>2. PlanAt(s) /\ pc[s] \in Mutating
  BY DEF SoftSessionAt, Mutating
<1>3. /\ w \in Snapshot
      /\ w.resolv_conf = writer[s].resolv_conf /\ w.value_before = writer[s].value_before
      /\ w.actions = writer[s].actions
  BY ONLY <1>1, MarkedSnapshot
<1>4. SetWriter(s, w) /\ Persist(w)
  OBVIOUS
<1> HIDE DEF w
<1>5. writer'[s] = w
  BY <1>4 DEF SetWriter, TypeOK, SessionTypeOK
<1>6. PICK p \in {"intent", "up"} :
        /\ pc' = [pc EXCEPT ![s] = p] /\ pc'[s] = p
        /\ p = "intent" => pc[s] = "resolv_done" \/ (pc[s] = "added" /\ writer[s].actions # LastAction)
  BY DEF TypeOK, SessionTypeOK
<1>7. PlanAt(s)'
  BY <1>1, <1>2, <1>3, <1>5, <1>6 DEF PlanAt
<1> QED
  BY <1>2, <1>3, <1>4, <1>6, <1>7, SoftPersistStep DEF Mutating

\* An error return of Start.
LEMMA SoftStartFails ==
    ASSUME SoftInv, NEW s \in Sessions, StartFails(s), UNCHANGED lifeVars
    PROVE  SoftInv'
<1> USE DEF StartFails, SoftInv
<1>1. SoftPrepareAt(s) /\ SoftMutateAt(s) /\ writer[s] # NoSnapshot
  BY NoSnapshotAssumption DEF SoftSessionAt, TypeOK, SessionTypeOK
<1>2. PICK p \in {"failed", "cleanup"} :
        /\ pc' = [pc EXCEPT ![s] = p] /\ pc'[s] = p
        /\ p = "cleanup" <=> pc[s] \in Mutating
  BY DEF Starting, Preparing, Mutating, TypeOK, SessionTypeOK
<1>3. HostTypeOK'
  <2>1. resolvTmp' \in BOOLEAN
    BY DEF TypeOK, HostTypeOK
  <2>2. backup' \in Texts \cup {BadBackup} /\ faults' \in 0 .. MaxFaults
    BY MaxFaultsAssumption DEF TypeOK, HostTypeOK, Fault
  <2> QED BY <2>1, <2>2 DEF TypeOK, HostTypeOK
<1>4. pc[s] = "record" => snapshot = NoSnapshot
  BY <1>1 DEF SoftPrepareAt, Preparing
<1>5. SoftClean' /\ SoftDirty'
  BY <1>4 DEF SoftClean, RoutesNeedTun, SoftDirty, Undoes, Resolved, IsOriginal, lifeVars
<1>6. SoftSessionAt(s)'
  BY <1>1, <1>2 DEF SoftSessionAt, SoftPrepareAt, PlanAt, SoftMutateAt, Preparing, Mutating
<1> QED
  BY <1>2, <1>3, <1>5, <1>6, SoftSessionStep
  DEF Starting, Preparing, Mutating, Stopping, Over, Reverting, TypeOK, SessionTypeOK

-----------------------------------------------------------------------------
(***************************************************************************)
(* Close and cleanupOnFailure.                                             *)
(***************************************************************************)

\* Closing the TUN descriptor of s: the interface goes, unless it is not ours.
LEMMA SoftClosedTun ==
    ASSUME SoftInv, NEW s \in Sessions, CloseTun(s), faults' \in 0 .. MaxFaults,
           UNCHANGED <<ipv6, rules, resolv, resolvTmp, backup, snapshot>>, UNCHANGED lifeVars
    PROVE  HostTypeOK' /\ SoftClean' /\ SoftDirty'
<1> USE DEF SoftInv, CloseTun, lifeVars
<1>1. HostTypeOK'
  BY DEF TypeOK, HostTypeOK
<1>2. SoftClean'
  BY TunAssumption DEF SoftClean, RoutesNeedTun, Resolved, IsOriginal, TypeOK, LifecycleTypeOK, Originals
<1>3. SoftDirty'
  BY DEF SoftDirty, Undoes, Resolved, IsOriginal
<1> QED BY <1>1, <1>2, <1>3

\* The script cannot be started.
LEMMA SoftRevertCannotStart ==
    ASSUME SoftInv, NEW s \in Sessions, RevertCannotStart(s), UNCHANGED lifeVars
    PROVE  SoftInv'
<1> USE DEF RevertCannotStart, SoftInv
<1>1. HostTypeOK' /\ SoftClean' /\ SoftDirty'
  <2>1. faults' \in 0 .. MaxFaults
    BY MaxFaultsAssumption DEF Fault, TypeOK, HostTypeOK
  <2> QED BY <2>1, SoftClosedTun
<1>2. PICK p \in {"failed", "close_failed"} : pc' = [pc EXCEPT ![s] = p] /\ pc'[s] = p
  BY DEF TypeOK, SessionTypeOK
<1>3. SoftSessionAt(s)'
  BY <1>2, SoftResting DEF Resting, Over
<1> QED
  BY <1>1, <1>2, <1>3, SoftSessionStep DEF Stopping, Over, Reverting, TypeOK, SessionTypeOK

\* The descriptor is closed and the script launched.
LEMMA SoftRevertStarts ==
    ASSUME SoftInv, NEW s \in Sessions, RevertStarts(s), UNCHANGED lifeVars
    PROVE  SoftInv'
<1> USE DEF RevertStarts, Launch, SoftInv
<1>1. HostTypeOK' /\ SoftClean' /\ SoftDirty'
  <2>1. faults' \in 0 .. MaxFaults
    BY DEF TypeOK, HostTypeOK
  <2> QED BY <2>1, SoftClosedTun
<1>2. PICK p \in Reverting : pc' = [pc EXCEPT ![s] = p]
  BY DEF TypeOK, SessionTypeOK, Reverting
<1>3. s \in Runners /\ \A r \in Runners : script[r] = "idle"
  BY StrictIdle DEF Stopping, Over, Reverting, Runners
<1>4. TypeOK'
  <2>1. PanicTypeOK'
    BY DEF TypeOK, PanicTypeOK, Commands
  <2>2. SessionTypeOK' /\ LifecycleTypeOK'
    BY <1>2 DEF TypeOK, SessionTypeOK, LifecycleTypeOK, lifeVars
  <2> QED BY <1>1, <2>1, <2>2 DEF TypeOK
<1>5. StrictInv'
  BY <1>2, <1>3 DEF StrictInv, Busy, Stopping, Over, Reverting, TypeOK, SessionTypeOK, PanicTypeOK, lifeVars
<1>6. ASSUME NEW t \in Sessions PROVE SoftSessionAt(t)'
  <2>1. pc'[t] \in Resting
    BY <1>2 DEF StrictInv, Resting, Stopping, Over, TypeOK, SessionTypeOK
  <2> QED BY <2>1, SoftResting
<1>7. ASSUME NEW r \in Runners PROVE SoftScriptAt(r)'
  BY <1>3, SoftScriptOut, SoftScriptWant DEF TypeOK, PanicTypeOK
<1> QED BY <1>1, <1>4, <1>5, <1>6, <1>7

\* The script of a session has exited.
LEMMA SoftRevertEnds ==
    ASSUME SoftInv, NEW s \in Sessions, RevertEnds(s), UNCHANGED lifeVars
    PROVE  SoftInv'
<1> USE DEF RevertEnds, Reap, SoftInv
<1>1. HostTypeOK'
  BY DEF TypeOK, HostTypeOK, hostVars
<1>2. SoftClean' /\ SoftDirty'
  BY SoftHostSame DEF hostVars, lifeVars
<1>3. PICK p \in Over : pc' = [pc EXCEPT ![s] = p]
  BY DEF TypeOK, SessionTypeOK, Over
<1>4. s \in Runners /\ script[s] # "idle"
  BY DEF Runners, Exits
<1>5. TypeOK'
  <2>1. PanicTypeOK'
    BY DEF TypeOK, PanicTypeOK
  <2>2. SessionTypeOK' /\ LifecycleTypeOK'
    BY <1>3 DEF TypeOK, SessionTypeOK, LifecycleTypeOK, lifeVars
  <2> QED BY <1>1, <2>1, <2>2 DEF TypeOK
<1>6. StrictInv'
  BY <1>3, <1>4 DEF StrictInv, Busy, TypeOK, SessionTypeOK, PanicTypeOK, lifeVars
<1>7. ASSUME NEW t \in Sessions PROVE SoftSessionAt(t)'
  <2>1. pc'[t] \in Resting
    BY <1>3 DEF StrictInv, Resting, Reverting, Over, TypeOK, SessionTypeOK
  <2> QED BY <2>1, SoftResting
<1>8. ASSUME NEW r \in Runners PROVE SoftScriptAt(r)'
  <2>1. script'[r] = "idle"
    BY <1>4 DEF StrictInv, TypeOK, PanicTypeOK
  <2>2. script[r] \in {"idle"} \cup Exits
    BY <1>4 DEF StrictInv
  <2> QED BY <2>1, <2>2, SoftScriptOut, SoftScriptWant
<1> QED BY <1>2, <1>5, <1>6, <1>7, <1>8

-----------------------------------------------------------------------------
(***************************************************************************)
(* The script.                                                             *)
(***************************************************************************)

\* A script past its first command has a snapshot.
LEMMA SoftRunning ==
    ASSUME SoftInv, NEW r \in Runners, script[r] \in Commands \ {"check"}
    PROVE  SoftScriptAt(r) /\ snapshot # NoSnapshot /\ snapshot \in Snapshot /\ Undoes(snapshot, backup)
BY DEF SoftInv, SoftScriptAt, SoftDirty, TypeOK, HostTypeOK

\* The script looks at the host or at the snapshot, and leaves everything alone.
LEMMA SoftLook ==
    ASSUME SoftInv, NEW r \in Runners,
           Check(r) \/ Parse(r) \/ CountSysctls(r) \/ ShowTun(r) \/ ReadExisted(r),
           UNCHANGED <<sessionVars, lifeVars>>
    PROVE  SoftInv'
<1> USE DEF Check, Parse, CountSysctls, ShowTun, ReadExisted, Goto, SoftInv
<1>1. HostTypeOK' /\ SoftClean' /\ SoftDirty'
  BY SoftHostSame DEF TypeOK, HostTypeOK, hostVars, lifeVars
<1>2. PICK x \in {"exit0", "parse", "exit2", "sysctl", "catchall", "value",
                  "resolv", "link", "retire", "remove", "kind"} :
        script' = [script EXCEPT ![r] = x] /\ script'[r] = x
  BY DEF TypeOK, PanicTypeOK
<1>3. PanicTypeOK'
  BY <1>2 DEF TypeOK, PanicTypeOK, Commands, Exits
<1>4. SoftScriptAt(r) /\ RoutesNeedTun /\ UNCHANGED <<failed, idx, count, want, hostVars>>
  BY DEF SoftClean
<1>5. script[r] \in Commands \ {"check"} => snapshot # NoSnapshot
  BY SoftRunning
<1>6. SoftScriptAt(r)'
  BY <1>2, <1>4, <1>5
  DEF SoftScriptAt, ReadAt, BeforeSysctl, OnResolv, RoutesNeedTun, Commands, Exits, Resolved,
      IsOriginal, hostVars, lifeVars
<1>7. script[r] # "idle"
  OBVIOUS
<1> QED BY <1>1, <1>2, <1>3, <1>4, <1>6, <1>7, SoftScriptStep

\* The value to restore is the administrator's.
LEMMA SoftReadSysctl ==
    ASSUME SoftInv, NEW r \in Runners, ReadSysctl(r), UNCHANGED <<sessionVars, lifeVars>>
    PROVE  SoftInv'
<1> USE DEF ReadSysctl, Goto, SoftInv
<1>1. SoftScriptAt(r) /\ snapshot # NoSnapshot /\ snapshot \in Snapshot /\ Undoes(snapshot, backup)
  BY SoftRunning DEF Commands
<1>2. HostTypeOK' /\ SoftClean' /\ SoftDirty'
  BY SoftHostSame DEF TypeOK, HostTypeOK, hostVars, lifeVars
<1>3. want[r] \in Wants
  BY DEF TypeOK, PanicTypeOK
<1>4. /\ script'[r] = "write"
      /\ want'[r] = [want[r] EXCEPT !.value = original.ipv6]
      /\ want' = [want EXCEPT ![r] = [want[r] EXCEPT !.value = original.ipv6]]
  BY <1>1 DEF Undoes, TypeOK, PanicTypeOK
<1>5. [want[r] EXCEPT !.value = original.ipv6] \in Wants
  BY <1>3 DEF Wants, TypeOK, LifecycleTypeOK, Originals
<1>6. PanicTypeOK'
  BY <1>4, <1>5 DEF TypeOK, PanicTypeOK, Commands
<1>7. SoftScriptAt(r)'
  BY <1>1, <1>3, <1>4
  DEF SoftScriptAt, ReadAt, BeforeSysctl, OnResolv, Commands, Exits, Wants, hostVars, lifeVars
<1>8. \A q \in Runners \ {r} : want'[q] = want[q]
  BY <1>4 DEF TypeOK, PanicTypeOK
<1> QED BY <1>2, <1>6, <1>7, <1>8, SoftScriptStep

\* The sysctl has its original value, or FAILED is set.
LEMMA SoftWriteSysctl ==
    ASSUME SoftInv, NEW r \in Runners, WriteSysctl(r), UNCHANGED <<sessionVars, lifeVars>>
    PROVE  SoftInv'
<1> USE DEF WriteSysctl, Goto, SetFailed, SoftInv
<1>1. SoftScriptAt(r) /\ snapshot # NoSnapshot /\ SoftClean
  BY SoftRunning DEF Commands
<1>2. want[r].value = original.ipv6 /\ original.ipv6 \in {"0", "1"}
  BY <1>1 DEF SoftScriptAt, TypeOK, LifecycleTypeOK, Originals
<1>3. HostTypeOK'
  BY <1>2, MaxFaultsAssumption DEF TypeOK, HostTypeOK, Fault
<1>4. PanicTypeOK'
  BY DEF TypeOK, PanicTypeOK, Commands
<1>5. SoftClean' /\ SoftDirty'
  BY <1>1, SoftStillDirty DEF SoftClean, RoutesNeedTun, lifeVars
<1>6. SoftScriptAt(r)'
  BY <1>1, <1>2
  DEF SoftScriptAt, ReadAt, BeforeSysctl, OnResolv, Commands, Exits, TypeOK, PanicTypeOK, lifeVars
<1> QED BY <1>3, <1>4, <1>5, <1>6, SoftScriptStep

\* Rules are deleted, or not; nothing else changes.
LEMMA SoftRules ==
    ASSUME SoftInv, NEW r \in Runners,
           DeleteCatchall(r) \/ CountRules(r) \/ DeleteRule(r) \/ RulesDeleted(r),
           UNCHANGED <<sessionVars, lifeVars>>
    PROVE  SoftInv'
<1> USE DEF DeleteCatchall, CountRules, DeleteRule, RulesDeleted, Goto, SoftInv
<1>1. /\ SoftScriptAt(r) /\ snapshot # NoSnapshot /\ snapshot \in Snapshot
      /\ script[r] \in {"catchall", "count", "rules"}
  BY SoftRunning DEF Commands
<1>2. PICK x \in {"count", "rules", "flush"} : script' = [script EXCEPT ![r] = x]
  OBVIOUS
<1>3. UNCHANGED <<failed, want, ipv6, tun, routes, resolv, resolvTmp, backup, snapshot>>
  BY DEF hostVars
<1>4. HostTypeOK'
  <2>1. rules' \subseteq rules
    BY DEF hostVars
  <2>2. faults' \in 0 .. MaxFaults
    BY MaxFaultsAssumption DEF hostVars, SoftFault, Fault, TypeOK, HostTypeOK
  <2> QED BY <1>3, <2>1, <2>2 DEF TypeOK, HostTypeOK
<1>5. PanicTypeOK'
  <2>1. RuleCount(snapshot) \in 0 .. NumBypasses + 1
    BY <1>1, Numbers, PlanNumbers DEF RuleCount, Snapshot, LastAction, Catchall
  <2>2. count' \in [Runners -> 0 .. NumBypasses + 1]
    BY <1>1, <2>1 DEF TypeOK, PanicTypeOK
  <2>3. idx' \in [Runners -> 0 .. NumBypasses + 1]
    <3>1. idx[r] < count[r] => idx[r] + 1 \in 0 .. NumBypasses + 1
      BY Numbers DEF TypeOK, PanicTypeOK
    <3> QED BY <3>1 DEF TypeOK, PanicTypeOK
  <2> QED BY <1>2, <1>3, <2>2, <2>3 DEF TypeOK, PanicTypeOK, Commands
<1>6. SoftClean' /\ SoftDirty'
  BY <1>1, <1>3, SoftStillDirty DEF SoftClean, RoutesNeedTun, lifeVars
<1>7. SoftScriptAt(r)'
  BY <1>1, <1>2, <1>3 DEF SoftScriptAt, ReadAt, BeforeSysctl, OnResolv, Commands, TypeOK, PanicTypeOK, lifeVars
<1> QED BY <1>1, <1>2, <1>4, <1>5, <1>6, <1>7, SoftScriptStep

\* Routes that a flush leaves behind go with the TUN, or FAILED is set.
LEMMA SoftFlushAndDelete ==
    ASSUME SoftInv, NEW r \in Runners, FlushRoutes(r) \/ DeleteTun(r),
           UNCHANGED <<sessionVars, lifeVars>>
    PROVE  SoftInv'
<1> USE DEF FlushRoutes, DeleteTun, Goto, RemoveTun, SetFailed, SoftInv
<1>1. SoftScriptAt(r) /\ snapshot # NoSnapshot /\ RoutesNeedTun
  BY SoftRunning DEF Commands, SoftClean
<1>2. HostTypeOK'
  BY MaxFaultsAssumption DEF TypeOK, HostTypeOK, SoftFault, Fault
<1>3. PanicTypeOK'
  BY DEF TypeOK, PanicTypeOK, Commands
<1>4. SoftClean' /\ SoftDirty'
  BY <1>1, SoftStillDirty DEF RoutesNeedTun, lifeVars
<1>5. PICK x \in {"tun", "resolv"} :
        /\ script' = [script EXCEPT ![r] = x] /\ script'[r] = x
        /\ x = "tun" => script[r] = "flush" /\ failed' = failed
        /\ x = "resolv" => script[r] = "link"
                           /\ (failed'[r] = 0 => failed[r] = 0 /\ tun' = NoTun /\ routes' = {})
  BY DEF TypeOK, PanicTypeOK
<1>6. SoftScriptAt(r)'
  BY <1>1, <1>5 DEF SoftScriptAt, ReadAt, BeforeSysctl, OnResolv, Commands, Exits, lifeVars
<1> QED BY <1>2, <1>3, <1>4, <1>5, <1>6, SoftScriptStep

\* The script reads what it needs to restore resolv.conf: what the snapshot records.
LEMMA SoftReadResolv ==
    ASSUME SoftInv, NEW r \in Runners, ReadKind(r) \/ ReadDetail(r),
           UNCHANGED <<sessionVars, lifeVars>>
    PROVE  SoftInv'
<1> USE DEF ReadKind, ReadDetail, Goto, SoftInv
<1>1. SoftScriptAt(r) /\ snapshot # NoSnapshot /\ snapshot \in Snapshot
  BY SoftRunning DEF Commands
<1>2. HostTypeOK' /\ SoftClean' /\ SoftDirty'
  BY SoftHostSame DEF TypeOK, HostTypeOK, hostVars, lifeVars
<1>3. want[r] \in Wants /\ snapshot.resolv_conf \in ResolvConfState
  BY <1>1 DEF TypeOK, PanicTypeOK, Snapshot
<1>4. PICK x \in {"detail", "retire", "verify"}, k \in Kinds, m \in Texts, f \in {0, 1} :
        /\ script' = [script EXCEPT ![r] = x] /\ script'[r] = x
        /\ want' = [want EXCEPT ![r] = [want[r] EXCEPT !.kind = k, !.text = m]]
        /\ failed' = [failed EXCEPT ![r] = f]
        /\ x = "detail" => script[r] = "kind" /\ k = snapshot.resolv_conf.kind /\ k # "absent"
                           /\ f = failed[r]
        /\ x = "retire" => f = 1
        /\ x = "verify" => /\ script[r] = "detail" /\ f = failed[r]
                           /\ k = snapshot.resolv_conf.kind /\ k # "absent"
                           /\ m = snapshot.resolv_conf.text
  <2>1. CASE ReadKind(r)
    <3>1. CASE snapshot.resolv_conf.kind = "absent"
      <4>1. want' = [want EXCEPT ![r] = [want[r] EXCEPT !.kind = want[r].kind, !.text = want[r].text]]
        BY <1>1, <2>1, <3>1, <1>3 DEF Wants, TypeOK, PanicTypeOK
      <4>2. script' = [script EXCEPT ![r] = "retire"] /\ failed' = [failed EXCEPT ![r] = 1]
        BY <1>1, <2>1, <3>1
      <4> QED BY <1>3, <4>1, <4>2 DEF Wants, TypeOK, PanicTypeOK
    <3>2. CASE snapshot.resolv_conf.kind # "absent"
      <4> DEFINE k == snapshot.resolv_conf.kind
      <4>1. want' = [want EXCEPT ![r] = [want[r] EXCEPT !.kind = k, !.text = want[r].text]]
        BY <1>1, <2>1, <3>2, <1>3 DEF Wants, TypeOK, PanicTypeOK
      <4>2. script' = [script EXCEPT ![r] = "detail"] /\ failed' = [failed EXCEPT ![r] = failed[r]]
        BY <1>1, <2>1, <3>2
      <4>3. k \in Kinds /\ want[r].text \in Texts /\ failed[r] \in {0, 1}
        BY <1>3 DEF ResolvConfState, Wants, TypeOK, PanicTypeOK
      <4>4. script[r] = "kind" /\ script'[r] = "detail" /\ k # "absent"
        BY <2>1, <3>2, <4>2 DEF TypeOK, PanicTypeOK
      <4> QED BY <4>1, <4>2, <4>3, <4>4
    <3> QED BY <3>1, <3>2
  <2>2. CASE ReadDetail(r)
    <3> DEFINE k == snapshot.resolv_conf.kind
               m == snapshot.resolv_conf.text
    <3>1. want[r].kind = k /\ k # "absent"
      BY <1>1, <2>2 DEF SoftScriptAt, ReadAt
    <3>2. want' = [want EXCEPT ![r] = [want[r] EXCEPT !.kind = k, !.text = m]]
      BY <1>1, <1>3, <2>2, <3>1 DEF Wants, TypeOK, PanicTypeOK
    <3>3. script' = [script EXCEPT ![r] = "verify"] /\ failed' = [failed EXCEPT ![r] = failed[r]]
      BY <2>2 DEF TypeOK, PanicTypeOK
    <3>4. k \in Kinds /\ m \in Texts /\ failed[r] \in {0, 1}
      BY <1>3 DEF ResolvConfState, TypeOK, PanicTypeOK
    <3> QED BY <2>2, <3>1, <3>2, <3>3, <3>4 DEF TypeOK, PanicTypeOK
  <2> QED BY <2>1, <2>2
<1>5. [want[r] EXCEPT !.kind = k, !.text = m] \in Wants
  BY <1>3 DEF Wants
<1>6. PanicTypeOK'
  BY <1>4, <1>5 DEF TypeOK, PanicTypeOK, Commands
<1>7. want'[r].kind = k /\ want'[r].text = m /\ failed'[r] = f
  BY <1>3, <1>4 DEF Wants, TypeOK, PanicTypeOK
<1>8. SoftScriptAt(r)'
  BY <1>1, <1>4, <1>7
  DEF SoftScriptAt, ReadAt, BeforeSysctl, OnResolv, Commands, Exits, hostVars, lifeVars
<1>9. \A q \in Runners \ {r} : want'[q] = want[q]
  BY <1>4 DEF TypeOK, PanicTypeOK
<1>10. script[r] # "idle"
  OBVIOUS
<1> QED BY <1>2, <1>4, <1>6, <1>8, <1>9, <1>10, SoftScriptStep

\* A backup that the script refuses sets FAILED.
LEMMA SoftVerifyBackup ==
    ASSUME SoftInv, NEW r \in Runners, VerifyBackup(r), UNCHANGED <<sessionVars, lifeVars>>
    PROVE  SoftInv'
<1> USE DEF VerifyBackup, Goto, SetFailed, SoftInv
<1>1. SoftScriptAt(r) /\ script[r] = "verify"
  OBVIOUS
<1>2. HostTypeOK' /\ SoftClean' /\ SoftDirty'
  BY SoftHostSame DEF TypeOK, HostTypeOK, hostVars, lifeVars
<1>3. PICK x \in {"remove", "retire"} :
        /\ script' = [script EXCEPT ![r] = x] /\ script'[r] = x
        /\ failed' = failed \/ failed'[r] = 1
        /\ x = "retire" => failed'[r] = 1
  BY DEF TypeOK, PanicTypeOK
<1>4. PanicTypeOK'
  BY <1>3 DEF TypeOK, PanicTypeOK, Commands
<1>5. SoftScriptAt(r)'
  BY <1>1, <1>3
  DEF SoftScriptAt, ReadAt, BeforeSysctl, OnResolv, Commands, Exits, hostVars, lifeVars
<1> QED BY <1>1, <1>2, <1>3, <1>4, <1>5, SoftScriptStep

\* resolv.conf will be put back, or the administrator had none.
LEMMA SoftRemoveResolv ==
    ASSUME SoftInv, NEW r \in Runners, RemoveResolv(r), UNCHANGED <<sessionVars, lifeVars>>
    PROVE  SoftInv'
<1> USE DEF RemoveResolv, Goto, SoftInv
<1>1. SoftScriptAt(r) /\ snapshot # NoSnapshot /\ Undoes(snapshot, backup) /\ RoutesNeedTun
  BY SoftRunning DEF Commands, SoftClean
<1>2. HostTypeOK'
  BY MaxFaultsAssumption
  DEF TypeOK, HostTypeOK, ResolvFiles, AbsentFile, Kinds, Texts, SoftFault, Fault
<1>3. PanicTypeOK'
  BY DEF TypeOK, PanicTypeOK, Commands
<1>4. SoftClean' /\ SoftDirty'
  BY <1>1, SoftStillDirty DEF RoutesNeedTun, lifeVars
<1>5. script'[r] = IF want[r].kind = "absent" THEN "retire" ELSE "put"
  BY DEF TypeOK, PanicTypeOK
<1>6. want[r].kind = snapshot.resolv_conf.kind
  BY <1>1 DEF SoftScriptAt, ReadAt
<1>7. Resolved => want[r].kind # "absent"
  BY <1>1, <1>6 DEF Undoes, Resolved, IsOriginal
<1>8. SoftScriptAt(r)'
  BY <1>1, <1>5, <1>7
  DEF SoftScriptAt, ReadAt, BeforeSysctl, OnResolv, Commands, Exits, Resolved, lifeVars
<1> QED BY <1>2, <1>3, <1>4, <1>8, SoftScriptStep

\* resolv.conf is the administrator's, if there was one, or FAILED is set.
LEMMA SoftPutResolv ==
    ASSUME SoftInv, NEW r \in Runners, PutResolv(r), UNCHANGED <<sessionVars, lifeVars>>
    PROVE  SoftInv'
<1> USE DEF Goto, SoftInv
<1>1. /\ script[r] = "put" /\ SoftScriptAt(r) /\ RoutesNeedTun
      /\ snapshot # NoSnapshot /\ Undoes(snapshot, backup)
  BY SoftRunning DEF PutResolv, Commands, SoftClean
<1>2. /\ want[r].kind = snapshot.resolv_conf.kind /\ want[r].text = snapshot.resolv_conf.text
      /\ want[r].kind \in {"file", "symlink"} /\ want[r].text \in Texts
  BY <1>1 DEF SoftScriptAt, ReadAt, TypeOK, PanicTypeOK, Wants, Kinds
<1>3. /\ script' = [script EXCEPT ![r] = "retire"]
      /\ UNCHANGED <<idx, count, want, ipv6, tun, routes, rules, resolvTmp, backup, snapshot>>
  BY DEF PutResolv
<1>4. PICK copy \in Texts :
        /\ backup \in {copy, BadBackup} \/ resolv' = resolv
        /\ \/ /\ failed' = [failed EXCEPT ![r] = failed[r]] /\ UNCHANGED faults
              /\ \/ want[r].kind = "symlink" /\ resolv' = Symlink(want[r].text)
                 \/ want[r].kind = "file" /\ resolv' = RegularFile(copy, "0600")
                    /\ backup \in {copy, BadBackup}
           \/ /\ failed' = [failed EXCEPT ![r] = 1] /\ UNCHANGED resolv
              /\ UNCHANGED faults \/ Fault
  <2>1. NoText \in Texts
    BY DEF Texts
  <2>2. CASE Fault /\ SetFailed(r) /\ UNCHANGED resolv
    BY <2>1, <2>2 DEF SetFailed
  <2>3. CASE want[r].kind = "symlink" /\ resolv # AbsentFile
    BY <2>1, <2>2, <2>3 DEF PutResolv
  <2>4. CASE want[r].kind = "symlink" /\ resolv = AbsentFile
    BY <2>1, <2>2, <2>4 DEF PutResolv
  <2>5. CASE want[r].kind = "file"
    BY <2>2, <2>5 DEF PutResolv
  <2> QED BY <1>2, <2>3, <2>4, <2>5
<1>5. HostTypeOK'
  BY <1>2, <1>3, <1>4, MaxFaultsAssumption
  DEF TypeOK, HostTypeOK, ResolvFiles, Symlink, RegularFile, Kinds, Fault
<1>6. PanicTypeOK'
  BY <1>3, <1>4 DEF TypeOK, PanicTypeOK, Commands
<1>7. SoftClean' /\ SoftDirty'
  BY <1>1, <1>3, SoftStillDirty DEF RoutesNeedTun, lifeVars
<1>8. failed'[r] = 0 =>
        /\ failed[r] = 0 /\ resolv'.kind = want[r].kind
        /\ \/ want[r].kind = "symlink" /\ resolv'.text = want[r].text
           \/ want[r].kind = "file" /\ resolv'.text = copy /\ backup \in {copy, BadBackup}
  BY <1>4 DEF Symlink, RegularFile, TypeOK, PanicTypeOK
<1>9. failed'[r] = 0 /\ Resolved => IsOriginal(resolv')
  <2> SUFFICES ASSUME failed'[r] = 0, Resolved PROVE IsOriginal(resolv')
    OBVIOUS
  <2>1. want[r].kind = original.resolv.kind /\ want[r].text = original.resolv.text
    BY <1>1, <1>2 DEF Undoes, IsOriginal
  <2>2. want[r].kind = "file" => backup = want[r].text /\ backup # BadBackup
    BY <1>1, <1>2, <2>1, TextAssumption DEF Undoes
  <2> QED BY <1>3, <1>8, <2>1, <2>2 DEF IsOriginal
<1>10. SoftScriptAt(r)'
  <2>1. script'[r] = "retire" /\ (failed'[r] = 0 => failed[r] = 0)
    BY <1>3, <1>8 DEF TypeOK, PanicTypeOK
  <2>2. failed'[r] = 0 => (Resolved' => IsOriginal(resolv)')
    BY <1>9 DEF Resolved, IsOriginal, lifeVars
  <2> QED
    BY <1>1, <1>3, <2>1, <2>2
    DEF SoftScriptAt, ReadAt, BeforeSysctl, OnResolv, Commands, Exits, lifeVars
<1> QED BY <1>1, <1>3, <1>5, <1>6, <1>7, <1>10, SoftScriptStep

\* A script without a target dies, and leaves the snapshot.
LEMMA SoftNoTarget ==
    ASSUME SoftInv, NEW r \in Runners, NoTarget(r), UNCHANGED <<sessionVars, lifeVars>>
    PROVE  SoftInv'
<1> USE DEF NoTarget, Goto, Forget, SoftInv
<1>1. HostTypeOK' /\ SoftClean' /\ SoftDirty'
  BY SoftHostSame DEF TypeOK, HostTypeOK, hostVars, lifeVars
<1>2. PanicTypeOK'
  BY NothingReadTyped DEF TypeOK, PanicTypeOK, Exits
<1>3. script'[r] = "exit2" /\ want'[r].kind = "absent"
      /\ \A q \in Runners \ {r} : want'[q] = want[q]
  BY DEF NothingRead, TypeOK, PanicTypeOK
<1>4. SoftScriptAt(r)'
  BY <1>3, SoftScriptOut DEF Exits
<1> QED BY <1>1, <1>2, <1>3, <1>4, SoftScriptStep

\* The snapshot is only removed over a host whose noticed parts are what they were.
LEMMA SoftRetire ==
    ASSUME SoftInv, NEW r \in Runners, Retire(r), UNCHANGED <<sessionVars, lifeVars>>
    PROVE  SoftInv'
<1> USE DEF Retire, Goto, Forget, SoftInv
<1>1. SoftScriptAt(r) /\ snapshot # NoSnapshot /\ Undoes(snapshot, backup)
  BY SoftRunning DEF Commands
<1>2. HostTypeOK'
  BY MaxFaultsAssumption DEF TypeOK, HostTypeOK, Fault
<1>3. PanicTypeOK'
  BY NothingReadTyped DEF TypeOK, PanicTypeOK, Exits
<1>4. SoftClean' /\ SoftDirty'
  <2>1. CASE failed[r] = 0 /\ snapshot' = NoSnapshot
    <3>1. /\ ipv6 = original.ipv6 /\ routes = {} /\ tun = NoTun /\ original.tun = NoTun
          /\ Resolved => IsOriginal(resolv)
      BY <1>1, <2>1 DEF SoftScriptAt, ReadAt, BeforeSysctl, OnResolv, Commands, Undoes
    <3> QED BY <2>1, <3>1 DEF SoftClean, RoutesNeedTun, SoftDirty, Resolved, IsOriginal, lifeVars
  <2>2. CASE snapshot' = snapshot
    BY <1>1, <2>2, SoftStillDirty DEF SoftClean, RoutesNeedTun, lifeVars
  <2> QED BY <2>1, <2>2
<1>5. script'[r] \in Exits /\ want'[r].kind = "absent"
      /\ \A q \in Runners \ {r} : want'[q] = want[q]
  BY DEF Exits, NothingRead, TypeOK, PanicTypeOK
<1>6. SoftScriptAt(r)'
  BY <1>5, SoftScriptOut
<1> QED BY <1>2, <1>3, <1>4, <1>5, <1>6, SoftScriptStep

\* The script dies or is killed: the snapshot stays.
LEMMA SoftScriptFails ==
    ASSUME SoftInv, NEW r \in Runners, ScriptFails(r)
    PROVE  SoftInv'
<1> USE DEF ScriptFails, SoftInv
<1>1. /\ script[r] # "idle" /\ faults' \in 0 .. MaxFaults
      /\ UNCHANGED <<ipv6, tun, routes, rules, resolv, resolvTmp, backup, snapshot, sessionVars, lifeVars>>
  BY MaxFaultsAssumption
  DEF Die, Killed, Goto, Running, Commands, Fault, TypeOK, HostTypeOK
<1>2. PICK x \in Exits : script' = [script EXCEPT ![r] = x] /\ script'[r] = x
  BY DEF Die, Killed, Goto, Exits, TypeOK, PanicTypeOK
<1>3. HostTypeOK'
  BY <1>1 DEF TypeOK, HostTypeOK
<1>4. PanicTypeOK'
  <2>1. CASE Die(r)
    BY <1>2, <2>1 DEF Die, TypeOK, PanicTypeOK
  <2>2. CASE Killed(r)
    BY <1>2, <2>2, NothingReadTyped DEF Killed, Forget, TypeOK, PanicTypeOK
  <2> QED BY <2>1, <2>2
<1>5. SoftClean' /\ SoftDirty'
  BY <1>1, SoftHostSame DEF lifeVars
<1>6. SoftScriptAt(r)'
  <2>1. want'[r].kind = "absent"
    BY DEF Die, Killed, Goto, Forget, NothingRead, SoftScriptAt, ReadAt, TypeOK, PanicTypeOK
  <2> QED BY <1>2, <2>1, SoftScriptOut
<1>7. \A q \in Runners \ {r} : want'[q] = want[q]
  BY DEF Die, Killed, Goto, Forget, TypeOK, PanicTypeOK
<1> QED BY <1>1, <1>2, <1>3, <1>4, <1>5, <1>6, <1>7, SoftScriptStep

-----------------------------------------------------------------------------
(***************************************************************************)
(* The client, the service, the user and the machine.                      *)
(***************************************************************************)

\* A command starts: one session moves on and the scripts stay idle.
LEMMA SoftCommand ==
    ASSUME SoftInv, NEW s \in Sessions, Connect(s) \/ Disconnect(s) \/ Shutdown(s)
    PROVE  SoftInv'
<1> USE DEF SoftInv, Connect, Disconnect, Shutdown, Advance, Serving
<1>1. /\ \A t \in Sessions : pc[t] \in Over \cup {"up"}
      /\ \A r \in Runners : script[r] = "idle"
      /\ daemon \in {"running", "signalled", "stopping"}
  BY IdleMeans
<1>2. /\ daemon' = daemon /\ original' = original /\ meddled' \in BOOLEAN
      /\ UNCHANGED panicVars /\ UNCHANGED hostVars
  BY DEF lifeVars, TypeOK, LifecycleTypeOK
<1>3. PICK p \in {"start", "closing"} :
        /\ pc' = [pc EXCEPT ![s] = p] /\ pc'[s] = p
        /\ p = "start" => ~Connected /\ writer'[s] = NewWriter
        /\ p = "closing" => pc[s] = "up"
  BY DEF TypeOK, SessionTypeOK
<1>4. SoftClean' /\ SoftDirty'
  BY <1>2, SoftHostSame DEF hostVars
<1>5. TypeOK'
  <2>1. HostTypeOK' /\ PanicTypeOK' /\ LifecycleTypeOK'
    BY <1>2 DEF TypeOK, HostTypeOK, PanicTypeOK, LifecycleTypeOK, hostVars, panicVars
  <2>2. NewWriter \in Snapshot
    BY PlanNumbers DEF NewWriter, Snapshot, ResolvConfState, Kinds, Texts
  <2>3. SessionTypeOK'
    BY <2>2 DEF TypeOK, SessionTypeOK, Starting, Preparing, Stopping
  <2> QED BY <2>1, <2>3 DEF TypeOK
<1>6. \A t \in Sessions \ {s} : pc'[t] \in Over
  <2>1. \A t \in Sessions \ {s} : pc[t] \in Over
    BY <1>1, <1>3 DEF StrictInv, Connected, Over
  <2> QED BY <1>3, <2>1 DEF TypeOK, SessionTypeOK
<1>7. StrictInv'
  <2>1. \A r \in Runners : script'[r] = "idle"
    BY <1>1, <1>2 DEF panicVars
  <2>2. daemon' \notin {"dead", "stop_post", "stopped"} /\ Sessions \subseteq Runners
    BY <1>1, <1>2 DEF Runners
  <2> QED BY <1>6, <2>1, <2>2 DEF StrictInv
<1>8. ASSUME NEW t \in Sessions PROVE SoftSessionAt(t)'
  <2>1. CASE t # s \/ pc'[s] = "closing"
    BY <1>6, <2>1, SoftResting DEF Resting
  <2>2. CASE t = s /\ pc'[s] = "start"
    <3>1. writer'[s].actions = 0
      BY <1>3, <2>2 DEF NewWriter
    <3> QED BY <2>2, <3>1 DEF SoftSessionAt, SoftPrepareAt, PlanAt, SoftMutateAt, Mutating
  <2> QED BY <1>3, <2>1, <2>2
<1>9. ASSUME NEW r \in Runners PROVE SoftScriptAt(r)'
  BY <1>1, <1>2, SoftScriptOut, SoftScriptWant DEF panicVars
<1> QED BY <1>4, <1>5, <1>7, <1>8, <1>9

\* The script is launched over idle sessions and scripts.
LEMMA SoftLaunch ==
    ASSUME SoftInv, Undo \/ StopPostStarts \/ ManualPanic
    PROVE  SoftInv'
<1> USE DEF SoftInv, Undo, StopPostStarts, ManualPanic, Launch, Serving
<1>1. /\ \A t \in Sessions : pc[t] \in Over \cup {"up"}
      /\ \A q \in Runners : script[q] = "idle"
  BY IdleMeans
<1>2. PICK r \in Runners \ Sessions : script' = [script EXCEPT ![r] = "check"]
  BY RunnerAssumption DEF Runners
<1>3. /\ original' = original /\ meddled' \in BOOLEAN
      /\ daemon' \in {daemon, "stop_post"} /\ (daemon' # daemon => daemon = "dead")
      /\ UNCHANGED <<failed, idx, count, want>> /\ UNCHANGED sessionVars /\ UNCHANGED hostVars
  BY DEF lifeVars, TypeOK, LifecycleTypeOK
<1>4. SoftClean' /\ SoftDirty'
  BY <1>3, SoftHostSame DEF hostVars
<1>5. TypeOK'
  <2>1. HostTypeOK' /\ SessionTypeOK' /\ LifecycleTypeOK'
    BY <1>3 DEF TypeOK, HostTypeOK, SessionTypeOK, LifecycleTypeOK, hostVars, sessionVars
  <2>2. PanicTypeOK'
    BY <1>2, <1>3 DEF TypeOK, PanicTypeOK, Commands
  <2> QED BY <2>1, <2>2 DEF TypeOK
<1>6. StrictInv'
  BY <1>1, <1>2, <1>3 DEF StrictInv, Busy, sessionVars, Runners, TypeOK, PanicTypeOK
<1>7. ASSUME NEW t \in Sessions PROVE SoftSessionAt(t)'
  BY <1>1, <1>3, SoftResting DEF Resting, sessionVars
<1>8. ASSUME NEW q \in Runners PROVE SoftScriptAt(q)'
  BY <1>1, <1>2, <1>3, SoftScriptOut, SoftScriptWant DEF TypeOK, PanicTypeOK
<1> QED BY <1>4, <1>5, <1>6, <1>7, <1>8

\* A script that no session waits for is reaped.
LEMMA SoftReap ==
    ASSUME SoftInv, UndoEnds \/ StopPostEnds \/ ManualEnds
    PROVE  SoftInv'
<1> USE DEF SoftInv, UndoEnds, StopPostEnds, ManualEnds, Reap
<1>1. PICK r \in Runners : script[r] \in Exits /\ script' = [script EXCEPT ![r] = "idle"]
  BY DEF Runners
<1>2. /\ original' = original /\ meddled' = meddled
      /\ daemon' \in {daemon, "stopped"} /\ (daemon' # daemon => daemon = "stop_post")
      /\ UNCHANGED <<failed, idx, count, want>> /\ UNCHANGED sessionVars /\ UNCHANGED hostVars
  BY DEF lifeVars
<1>3. script[r] # "idle"
  BY <1>1 DEF Exits
<1>4. SoftClean' /\ SoftDirty'
  BY <1>2, SoftHostSame DEF hostVars
<1>5. TypeOK'
  <2>1. HostTypeOK' /\ SessionTypeOK' /\ LifecycleTypeOK'
    BY <1>2 DEF TypeOK, HostTypeOK, SessionTypeOK, LifecycleTypeOK, hostVars, sessionVars
  <2>2. PanicTypeOK'
    BY <1>1, <1>2 DEF TypeOK, PanicTypeOK
  <2> QED BY <2>1, <2>2 DEF TypeOK
<1>6. StrictInv'
  BY <1>1, <1>2, <1>3 DEF StrictInv, Busy, sessionVars, TypeOK, PanicTypeOK
<1>7. ASSUME NEW t \in Sessions PROVE SoftSessionAt(t)'
  <2>1. pc'[t] \in Resting
    BY <1>2, <1>3 DEF StrictInv, Busy, Resting, sessionVars
  <2> QED BY <2>1, SoftResting
<1>8. ASSUME NEW q \in Runners PROVE SoftScriptAt(q)'
  <2>1. script'[q] = "idle"
    BY <1>1, <1>3 DEF StrictInv, TypeOK, PanicTypeOK
  <2>2. script[q] \in {"idle"} \cup Exits
    BY <1>1, <1>3 DEF StrictInv
  <2> QED BY <1>2, <2>1, <2>2, SoftScriptOut, SoftScriptWant
<1> QED BY <1>4, <1>5, <1>6, <1>7, <1>8

\* Only the state of the service changes.
LEMMA SoftService ==
    ASSUME SoftInv, (Terminate /\ UNCHANGED panicVars) \/ Drained \/ Exit \/ StartDaemon
    PROVE  SoftInv'
<1> USE DEF SoftInv, Terminate, Drained, Exit, StartDaemon
<1>1. UNCHANGED <<original, meddled, pc, writer, script, failed, idx, count, want, hostVars>>
  BY DEF sessionVars, panicVars
<1>2. SoftClean' /\ SoftDirty'
  BY <1>1, SoftHostSame DEF hostVars
<1>3. TypeOK'
  <2>1. HostTypeOK' /\ PanicTypeOK' /\ SessionTypeOK'
    BY <1>1 DEF TypeOK, HostTypeOK, PanicTypeOK, SessionTypeOK, hostVars
  <2>2. LifecycleTypeOK'
    BY <1>1 DEF TypeOK, LifecycleTypeOK
  <2> QED BY <2>1, <2>2 DEF TypeOK
<1>4. StrictInv'
  <2>1. daemon' = "dead" => \A s \in Sessions : pc[s] \in Over
    BY IdleMeans DEF Connected
  <2> QED BY <1>1, <2>1 DEF StrictInv, Busy
<1>5. ASSUME NEW s \in Sessions PROVE SoftSessionAt(s)'
  BY <1>1
  DEF SoftSessionAt, SoftPrepareAt, PlanAt, SoftMutateAt, BackupMatches, Resolved, IsOriginal, hostVars
<1>6. ASSUME NEW r \in Runners PROVE SoftScriptAt(r)'
  BY <1>1 DEF SoftScriptAt, ReadAt, BeforeSysctl, OnResolv, Resolved, IsOriginal, hostVars
<1> QED BY <1>2, <1>3, <1>4, <1>5, <1>6

\* A signal ends scripts of which nothing but their exit code is left.
LEMMA SoftKillScripts ==
    ASSUME SoftInv, Terminate, KillScripts(Sessions \cup {Standalone})
    PROVE  SoftInv'
<1> USE DEF SoftInv, Terminate
<1>1. \A r \in Runners :
        \/ script'[r] = script[r] /\ failed'[r] = failed[r] /\ want'[r] = want[r]
        \/ script[r] # "idle" /\ script'[r] = "exit1" /\ want'[r] = NothingRead
  BY DEF KillScripts, Running, Commands
<1>2. SoftClean' /\ SoftDirty'
  BY SoftHostSame DEF hostVars
<1>3. TypeOK'
  <2>1. HostTypeOK' /\ SessionTypeOK' /\ LifecycleTypeOK'
    BY DEF TypeOK, HostTypeOK, SessionTypeOK, LifecycleTypeOK, hostVars, sessionVars
  <2>2. PanicTypeOK'
    BY NothingReadTyped DEF KillScripts, TypeOK, PanicTypeOK, Exits
  <2> QED BY <2>1, <2>2 DEF TypeOK
<1>4. StrictInv'
  <2>1. \A r \in Runners : script'[r] # "idle" => script[r] # "idle"
    BY <1>1
  <2>2. pc' = pc /\ daemon' \notin {"dead", "stop_post", "stopped"} /\ Sessions \subseteq Runners
    BY DEF sessionVars, Runners
  <2> QED BY <2>1, <2>2 DEF StrictInv, Busy
<1>5. ASSUME NEW s \in Sessions PROVE SoftSessionAt(s)'
  BY DEF SoftSessionAt, SoftPrepareAt, PlanAt, SoftMutateAt, BackupMatches, Resolved,
         IsOriginal, hostVars, sessionVars
<1>6. ASSUME NEW r \in Runners PROVE SoftScriptAt(r)'
  <2>1. CASE script'[r] = script[r] /\ failed'[r] = failed[r] /\ want'[r] = want[r]
    BY <2>1 DEF SoftScriptAt, ReadAt, BeforeSysctl, OnResolv, Resolved, IsOriginal, hostVars
  <2>2. CASE script'[r] = "exit1" /\ want'[r] = NothingRead
    BY <2>2, SoftScriptOut DEF Exits, NothingRead
  <2> QED BY <1>1, <2>1, <2>2
<1> QED BY <1>2, <1>3, <1>4, <1>5, <1>6

\* The processes are gone, and their sessions with them.
LEMMA SoftProcessesGone ==
    ASSUME SoftInv, NEW R \in SUBSET Runners, Sessions \subseteq R, ProcessesDie(R)
    PROVE  PanicTypeOK' /\ SessionTypeOK' /\ StrictInv' /\ (\A s \in Sessions : SoftSessionAt(s)')
<1>1. PanicTypeOK' /\ SessionTypeOK'
  BY ProcessesTyped DEF SoftInv
<1>2. StrictInv'
  BY DEF SoftInv, StrictInv, ProcessesDie, Busy, Over, Runners
<1>3. ASSUME NEW s \in Sessions PROVE SoftSessionAt(s)'
  BY SoftResting DEF ProcessesDie, Resting, Over
<1> QED BY <1>1, <1>2, <1>3

\* The daemon dies with its scripts.
LEMMA SoftCrash ==
    ASSUME SoftInv, Crash
    PROVE  SoftInv'
<1> USE DEF SoftInv, Crash
<1>1. PanicTypeOK' /\ SessionTypeOK' /\ StrictInv' /\ (\A s \in Sessions : SoftSessionAt(s)')
  BY SoftProcessesGone DEF Runners
<1>2. tun' = (IF tun \in Sessions THEN NoTun ELSE tun) /\ (routes = {} => routes' = {})
  OBVIOUS
<1>3. HostTypeOK' /\ LifecycleTypeOK'
  BY MaxFaultsAssumption DEF TypeOK, HostTypeOK, LifecycleTypeOK, Fault
<1>4. SoftClean'
  BY TunAssumption DEF SoftClean, RoutesNeedTun, Resolved, IsOriginal, TypeOK, LifecycleTypeOK, Originals
<1>5. SoftDirty'
  BY DEF SoftDirty, Undoes, Resolved, IsOriginal
<1>6. ASSUME NEW r \in Runners PROVE SoftScriptAt(r)'
  <2>1. CASE r \in Sessions \cup {Standalone}
    BY <2>1, SoftScriptOut DEF ProcessesDie, NothingRead
  <2>2. CASE r \notin Sessions \cup {Standalone}
    <3>1. script'[r] = script[r] /\ failed'[r] = failed[r] /\ want'[r] = want[r]
      BY <2>2 DEF ProcessesDie
    <3> QED BY <1>2, <3>1, TunAssumption DEF SoftScriptAt, ReadAt, BeforeSysctl, OnResolv, Resolved, IsOriginal
  <2> QED BY <2>1, <2>2
<1> QED BY <1>1, <1>3, <1>4, <1>5, <1>6 DEF TypeOK

\* A reboot, with the files as they were or as the disk had them.
LEMMA SoftBoot ==
    ASSUME SoftInv, Fault, daemon' = "stopped", ProcessesDie(Runners),
           ipv6' = original.ipv6, RemoveTun, rules' = {},
           original' = [original EXCEPT !.tun = NoTun], meddled' = meddled,
           snapshot' \in Snapshot \cup {NoSnapshot}, backup' \in Texts \cup {BadBackup},
           resolv' \in ResolvFiles, resolvTmp' \in BOOLEAN,
           IF snapshot' = NoSnapshot THEN Resolved => IsOriginal(resolv')
           ELSE snapshot'.value_before = original.ipv6
                /\ (Resolved => IsOriginal(snapshot'.resolv_conf))
                /\ (original.resolv.kind = "file" => backup' = original.resolv.text)
    PROVE  SoftInv'
<1> USE DEF SoftInv, RemoveTun
<1>1. PanicTypeOK' /\ SessionTypeOK' /\ StrictInv' /\ (\A s \in Sessions : SoftSessionAt(s)')
  BY SoftProcessesGone DEF Runners
<1>2. /\ original' \in Originals /\ original'.tun = NoTun
      /\ original'.ipv6 = original.ipv6 /\ original'.resolv = original.resolv
  BY DEF TypeOK, LifecycleTypeOK, Originals
<1>3. HostTypeOK'
  BY MaxFaultsAssumption DEF TypeOK, HostTypeOK, LifecycleTypeOK, Originals, Fault
<1>4. LifecycleTypeOK'
  BY <1>2 DEF TypeOK, LifecycleTypeOK
<1>5. SoftClean' /\ SoftDirty'
  BY <1>2 DEF SoftClean, RoutesNeedTun, SoftDirty, Undoes, Resolved, IsOriginal
<1>6. ASSUME NEW r \in Runners PROVE SoftScriptAt(r)'
  BY SoftScriptOut DEF ProcessesDie, NothingRead
<1> QED BY <1>1, <1>3, <1>4, <1>5, <1>6 DEF TypeOK

\* A reboot leaves the files alone.
LEMMA SoftReboot ==
    ASSUME SoftInv, Reboot
    PROVE  SoftInv'
<1>1. snapshot \in Snapshot \cup {NoSnapshot} /\ backup \in Texts \cup {BadBackup}
      /\ resolv \in ResolvFiles /\ resolvTmp \in BOOLEAN
  BY DEF SoftInv, TypeOK, HostTypeOK
<1>2. IF snapshot = NoSnapshot THEN Resolved => IsOriginal(resolv) ELSE Undoes(snapshot, backup)
  BY DEF SoftInv, SoftClean, RoutesNeedTun, SoftDirty
<1> QED BY <1>1, <1>2, SoftBoot DEF Reboot, Undoes

\* The administrator edits a host of which we own nothing.
LEMMA SoftAdminEdit ==
    ASSUME SoftInv, AdminEdit
    PROVE  SoftInv'
<1> USE DEF SoftInv, AdminEdit
<1>1. /\ \A s \in Sessions : pc[s] \in Over
      /\ \A r \in Runners : script[r] = "idle"
  BY IdleMeans DEF Connected
<1>2. UNCHANGED <<pc, writer, script, failed, idx, count, want>>
  BY DEF sessionVars, panicVars
<1>3. HostTypeOK'
  BY DEF TypeOK, HostTypeOK, Originals, ForeignResolvFiles, ResolvFiles, AbsentFile,
         RegularFile, Symlink, Kinds, Texts
<1>4. PanicTypeOK' /\ SessionTypeOK' /\ LifecycleTypeOK'
  BY <1>2 DEF TypeOK, PanicTypeOK, SessionTypeOK, LifecycleTypeOK
<1>5. SoftClean' /\ SoftDirty'
  BY DEF SoftClean, RoutesNeedTun, SoftDirty, IsOriginal
<1>6. StrictInv'
  BY <1>2 DEF StrictInv, Busy
<1>7. ASSUME NEW s \in Sessions PROVE SoftSessionAt(s)'
  BY <1>1, <1>2, SoftResting DEF Resting
<1>8. ASSUME NEW r \in Runners PROVE SoftScriptAt(r)'
  BY <1>1, <1>2, SoftScriptOut, SoftScriptWant
<1> QED BY <1>3, <1>4, <1>5, <1>6, <1>7, <1>8 DEF TypeOK

-----------------------------------------------------------------------------
(***************************************************************************)
(* The theorems on Lifecycle.                                              *)
(***************************************************************************)

\* The invariant holds initially.
LEMMA SoftInit == Init => SoftInv
<1> SUFFICES ASSUME Init PROVE SoftInv
  OBVIOUS
<1>1. TypeOK /\ CleanInv /\ snapshot = NoSnapshot
  BY InitInv DEF IndInv, Init
<1>2. SoftClean /\ SoftDirty
  BY <1>1 DEF SoftClean, RoutesNeedTun, SoftDirty, CleanInv, RestoredResolv, IsOriginal
<1>3. ASSUME NEW s \in Sessions PROVE SoftSessionAt(s)
  BY DEF Init, SessionInit, SoftSessionAt, SoftPrepareAt, PlanAt, SoftMutateAt, Preparing, Mutating
<1>4. ASSUME NEW r \in Runners PROVE SoftScriptAt(r)
  BY DEF Init, PanicInit, SoftScriptAt, ReadAt, OnResolv, Commands, NothingRead
<1>5. StrictInv
  BY DEF Init, PanicInit, SessionInit, StrictInv, Busy, Over, Runners
<1> QED BY <1>1, <1>2, <1>3, <1>4, <1>5 DEF SoftInv

\* The steps that a loss of power interrupts preserve the invariant, and leave the
\* administrator's host alone.
LEMMA SoftPowered ==
    ASSUME SoftInv,
           \/ \E s \in Sessions : Connect(s) \/ Disconnect(s) \/ Shutdown(s)
           \/ \E s \in Sessions : SessionRuns(s) \/ SessionFails(s)
           \/ \E r \in Runners : ScriptRuns(r) \/ ScriptFails(r)
           \/ Undo \/ UndoEnds \/ Terminate \/ Drained \/ Exit \/ Crash \/ StopPostStarts \/ StopPostEnds
           \/ StartDaemon \/ ManualPanic \/ ManualEnds
    PROVE  SoftInv' /\ original' = original
<1>1. ASSUME NEW s \in Sessions, Connect(s) \/ Disconnect(s) \/ Shutdown(s)
      PROVE  SoftInv' /\ original' = original
  BY <1>1, SoftCommand DEF Connect, Disconnect, Shutdown, lifeVars
<1>2. ASSUME NEW s \in Sessions, SessionRuns(s) PROVE SoftInv' /\ original' = original
  <2>1. CASE StartStep(s)
    BY <1>2, <2>1, SoftReadingStep, SoftRecordResolvConf, SoftPersistPreState, SoftMutation,
       SoftAddRouteOrRule, SoftAppend, SoftMark
    DEF StartStep, SessionRuns, lifeVars
  <2>2. CASE RevertStarts(s) \/ RevertEnds(s)
    BY <1>2, <2>2, SoftRevertStarts, SoftRevertEnds DEF SessionRuns, lifeVars
  <2> QED BY <1>2, <2>1, <2>2 DEF SessionRuns, SessionStep
<1>3. ASSUME NEW s \in Sessions, SessionFails(s) PROVE SoftInv' /\ original' = original
  BY <1>3, SoftStartFails, SoftRevertCannotStart DEF SessionFails, SessionFailure, lifeVars
<1>4. ASSUME NEW r \in Runners, ScriptRuns(r) PROVE SoftInv' /\ original' = original
  BY <1>4, SoftLook, SoftReadSysctl, SoftWriteSysctl, SoftRules, SoftFlushAndDelete,
     SoftReadResolv, SoftVerifyBackup, SoftRemoveResolv, SoftPutResolv, SoftNoTarget, SoftRetire
  DEF ScriptRuns, Command, lifeVars
<1>5. ASSUME NEW r \in Runners, ScriptFails(r) PROVE SoftInv' /\ original' = original
  BY <1>5, SoftScriptFails DEF ScriptFails, lifeVars
<1>6. CASE Undo \/ StopPostStarts \/ ManualPanic
  BY <1>6, SoftLaunch DEF Undo, StopPostStarts, ManualPanic, lifeVars
<1>7. CASE UndoEnds \/ StopPostEnds \/ ManualEnds
  BY <1>7, SoftReap DEF UndoEnds, StopPostEnds, ManualEnds, lifeVars
<1>8. CASE Terminate \/ Drained \/ Exit \/ StartDaemon
  BY <1>8, SoftService, SoftKillScripts DEF Terminate, Drained, Exit, StartDaemon
<1>9. CASE Crash
  BY <1>9, SoftCrash DEF Crash
<1> QED BY <1>1, <1>2, <1>3, <1>4, <1>5, <1>6, <1>7, <1>8, <1>9

\* A stuttering step preserves the invariant.
LEMMA SoftStutter ==
    ASSUME SoftInv, UNCHANGED vars
    PROVE  SoftInv'
<1> USE DEF SoftInv, vars, hostVars, panicVars, sessionVars, lifeVars
<1>1. TypeOK'
  <2>1. HostTypeOK' /\ PanicTypeOK' /\ SessionTypeOK'
    BY DEF TypeOK, HostTypeOK, PanicTypeOK, SessionTypeOK
  <2>2. LifecycleTypeOK'
    BY DEF TypeOK, LifecycleTypeOK
  <2> QED BY <2>1, <2>2 DEF TypeOK
<1>2. SoftClean' /\ SoftDirty'
  BY SoftHostSame
<1>3. StrictInv'
  BY DEF StrictInv, Busy
<1>4. ASSUME NEW s \in Sessions PROVE SoftSessionAt(s)'
  BY DEF SoftSessionAt, SoftPrepareAt, PlanAt, SoftMutateAt, BackupMatches, Resolved, IsOriginal
<1>5. ASSUME NEW r \in Runners PROVE SoftScriptAt(r)'
  BY DEF SoftScriptAt, ReadAt, BeforeSysctl, OnResolv, Resolved, IsOriginal
<1> QED BY <1>1, <1>2, <1>3, <1>4, <1>5

\* The invariant that survives soft deletions, in the life of a host with reboots and
\* edits by its administrator.
THEOREM SoftInvariance == Spec => []SoftInv
<1>1. SoftInv /\ [Next]_vars => SoftInv'
  <2> SUFFICES ASSUME SoftInv, [Next]_vars PROVE SoftInv'
    OBVIOUS
  <2>1. CASE Next
    BY <2>1, SoftPowered, SoftReboot, SoftAdminEdit DEF Next
  <2>2. CASE UNCHANGED vars
    BY <2>2, SoftStutter
  <2> QED BY <2>1, <2>2
<1> QED BY <1>1, SoftInit, PTL DEF Spec

\* Every variable keeps its type, in every configuration: a snapshot never holds more
\* actions than the plan, and ouf-panic never restores a torn backup.
THEOREM TypeCorrect == Spec => []TypeOK
<1>1. SoftInv => TypeOK
  BY DEF SoftInv
<1> QED BY <1>1, SoftInvariance, PTL

\* The invariant makes the script able to restore what it does not delete softly.
LEMMA SoftRevertible == ASSUME SoftInv PROVE RevertibleExceptSoftDeletes
<1> USE DEF SoftInv, RevertibleExceptSoftDeletes, RevertOutcome, OriginalState
<1>1. CASE snapshot = NoSnapshot
  BY <1>1 DEF SoftClean, RoutesNeedTun, Resolved, IsOriginal
<1>2. CASE snapshot # NoSnapshot
  <2>1. snapshot.resolv_conf \in ResolvConfState /\ Undoes(snapshot, backup)
    BY <1>2 DEF SoftDirty, TypeOK, HostTypeOK, Snapshot
  <2>2. Resolved =>
          /\ snapshot.resolv_conf = [kind |-> original.resolv.kind, text |-> original.resolv.text]
          /\ Restorable(snapshot)
    BY <2>1 DEF Undoes, Resolved, IsOriginal, Restorable, ResolvConfState
  <2> QED BY <1>2, <2>1, <2>2 DEF Undoes, Resolved
<1> QED BY <1>1, <1>2

\* Even if deletions fail that ouf-panic does not check, and for every rule priority
\* and number of bypasses: the sysctl, the TUN, the routes and the administrator's
\* resolv.conf can be brought back by one undisturbed run of the script, after any
\* call of Start, of Close or of an earlier run.
THEOREM RevertibleAnyway == Spec => []RevertibleExceptSoftDeletes
<1>1. SoftInv => RevertibleExceptSoftDeletes
  BY SoftRevertible
<1> QED BY <1>1, SoftInvariance, PTL

-----------------------------------------------------------------------------
(***************************************************************************)
(* The theorems on PowerLoss.                                              *)
(***************************************************************************)

\* Files that are as the memory has them are a moment that the invariant allows.
LEMMA WrittenBack ==
    ASSUME SoftInv, stateDir' = StateFiles, etcDir' = EtcFiles, original' = original
    PROVE  DiskInv'
<1>1. /\ snapshot \in Snapshot \cup {NoSnapshot} /\ backup \in Texts \cup {BadBackup}
      /\ resolv \in ResolvFiles /\ resolvTmp \in BOOLEAN
  BY DEF SoftInv, TypeOK, HostTypeOK
<1>2. IF snapshot = NoSnapshot THEN Resolved => IsOriginal(resolv) ELSE Undoes(snapshot, backup)
  BY DEF SoftInv, SoftClean, RoutesNeedTun, SoftDirty
<1> QED BY <1>1, <1>2 DEF DiskInv, StateFiles, EtcFiles, Resolved, IsOriginal, Undoes

\* What is on the disk stays what it was, for the same administrator.
LEMMA DiskSame ==
    ASSUME DiskInv, UNCHANGED diskVars, original' = original
    PROVE  DiskInv'
BY DEF DiskInv, diskVars, Resolved, IsOriginal, Undoes

\* The machine comes back with the files of the disk.
LEMMA PowerLost ==
    ASSUME SoftInv, DiskInv, LosePower
    PROVE  SoftInv' /\ DiskInv'
<1> USE DEF LosePower
<1>1. SoftInv'
  BY SoftBoot DEF DiskInv, Undoes
<1>2. original'.tun = NoTun /\ original'.ipv6 = original.ipv6 /\ original'.resolv = original.resolv
  BY DEF SoftInv, TypeOK, LifecycleTypeOK, Originals
<1>3. DiskInv'
  BY <1>2 DEF DiskInv, diskVars, Resolved, IsOriginal, Undoes
<1> QED BY <1>1, <1>3

\* The invariant of a machine that may lose its power at any moment, if one journal
\* orders what reaches /etc and /var/lib.
THEOREM PowerInvariance == ASSUME OneJournal PROVE PowerSpec => []PowerInv
<1>1. PowerInit => PowerInv
  <2> SUFFICES ASSUME PowerInit PROVE PowerInv
    OBVIOUS
  <2>1. SoftInv
    BY SoftInit DEF PowerInit
  <2>2. /\ snapshot = NoSnapshot /\ backup = BadBackup /\ resolvTmp = FALSE
        /\ resolv \in ResolvFiles /\ resolv = original.resolv
    BY <2>1 DEF PowerInit, Init, SoftInv, TypeOK, HostTypeOK
  <2>3. DiskInv
    BY <2>2 DEF PowerInit, DiskInv, StateFiles, EtcFiles, IsOriginal
  <2> QED BY <2>1, <2>3 DEF PowerInv
<1>2. PowerInv /\ [PowerNext]_<<vars, diskVars>> => PowerInv'
  <2> SUFFICES ASSUME SoftInv, DiskInv, [PowerNext]_<<vars, diskVars>>
               PROVE  SoftInv' /\ DiskInv'
    BY DEF PowerInv
  <2>1. CASE Powered
    <3>1. SoftInv' /\ original' = original
      BY <2>1, SoftPowered DEF Powered
    <3>2. DiskInv'
      BY <2>1, <3>1, DiskSame DEF Powered
    <3> QED BY <3>1, <3>2
  <2>2. CASE WriteBack
    <3>1. SoftInv' /\ original' = original
      BY <2>2, SoftStutter DEF WriteBack, vars, lifeVars
    <3>2. DiskInv'
      BY <2>2, <3>1, WrittenBack DEF WriteBack
    <3> QED BY <3>1, <3>2
  <2>3. CASE LosePower
    BY <2>3, PowerLost
  <2>4. CASE UNCHANGED <<vars, diskVars>>
    <3>1. SoftInv' /\ original' = original
      BY <2>4, SoftStutter DEF vars, lifeVars
    <3> QED BY <2>4, <3>1, DiskSame
  <2> QED BY <2>1, <2>2, <2>3, <2>4 DEF PowerNext
<1> QED BY <1>1, <1>2, PTL DEF PowerSpec

\* A loss of power at any moment, with any part of the latest changes not yet on the
\* disk, leaves a host that one run of ouf-panic can still bring back.
THEOREM RevertibleAfterPowerLoss ==
    ASSUME OneJournal PROVE PowerSpec => []RevertibleExceptSoftDeletes
<1>1. PowerInv => RevertibleExceptSoftDeletes
  BY SoftRevertible DEF PowerInv
<1> QED BY <1>1, PowerInvariance, PTL
=============================================================================

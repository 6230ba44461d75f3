-------------------------- MODULE TransactionProof --------------------------
(***************************************************************************)
(* Lifecycle implements Transaction: snapshot.json is the saved state of   *)
(* an open transaction, whatever crashes, failures, reboots and further    *)
(* runs of ouf-panic come in between.                                      *)
(*                                                                         *)
(* With the invariant of LifecycleProof on both sides of a step, only the  *)
(* steps that create or remove the snapshot have to be looked at: without  *)
(* a snapshot the host is the administrator's, with one the saved state is.*)
(***************************************************************************)
EXTENDS LifecycleProof

\* A host of the model is a host of Transaction.
LEMMA HostIsState ==
    ASSUME TypeOK
    PROVE  HostState \in AllHostStates
<1>1. resolv.kind \in Kinds /\ resolv.text \in Texts
  BY DEF TypeOK, HostTypeOK, ResolvFiles
<1> QED BY <1>1 DEF TypeOK, HostTypeOK, HostState, AllHostStates, ResolvConfState

\* So is the host its administrator left.
LEMMA OriginalIsState ==
    ASSUME TypeOK
    PROVE  OriginalState \in AllHostStates
<1>1. original.resolv.kind \in Kinds /\ original.resolv.text \in Texts
  BY DEF TypeOK, LifecycleTypeOK, Originals, ForeignResolvFiles, AbsentFile, RegularFile,
         Symlink, Kinds, Texts
<1> QED BY <1>1 DEF TypeOK, LifecycleTypeOK, Originals, OriginalState, AllHostStates, ResolvConfState

\* Without a snapshot the host is what its administrator left.
LEMMA CleanHost ==
    ASSUME IndInv, snapshot = NoSnapshot
    PROVE  HostState = OriginalState /\ SavedState = NoSnapshot
BY DEF IndInv, CleanInv, RestoredResolv, HostState, OriginalState, SavedState

\* A snapshot saves what the administrator left.
LEMMA SavedHost ==
    ASSUME IndInv, snapshot # NoSnapshot
    PROVE  SavedState = OriginalState /\ SavedState # NoSnapshot
<1>1. snapshot.resolv_conf \in ResolvConfState
  BY DEF IndInv, TypeOK, HostTypeOK, Snapshot
<1>2. snapshot.resolv_conf = [kind |-> original.resolv.kind, text |-> original.resolv.text]
  BY <1>1 DEF IndInv, DirtyInv, TruePreState, ResolvConfState
<1>3. SavedState = OriginalState
  BY <1>2 DEF IndInv, DirtyInv, TruePreState, SavedState, OriginalState
<1> QED BY <1>3, OriginalIsState, AllHostStatesAssumption DEF IndInv

\* What Transaction sees of a state that satisfies the invariant.
TxView ==
    /\ HostState \in AllHostStates /\ OriginalState \in AllHostStates
    /\ snapshot = NoSnapshot => HostState = OriginalState /\ SavedState = NoSnapshot
    /\ snapshot # NoSnapshot =>
          SavedState = OriginalState /\ SavedState # NoSnapshot /\ original.tun = NoTun

\* The invariant gives the view.
LEMMA InvView == IndInv => TxView
BY HostIsState, OriginalIsState, CleanHost, SavedHost DEF TxView, IndInv, DirtyInv

-----------------------------------------------------------------------------
(***************************************************************************)
(* Which steps create or remove the snapshot, and what else they do.       *)
(***************************************************************************)

\* The one step that creates a snapshot is the first Persist, and the one that
\* removes it is the script's last command; neither touches the rest of the host.
SnapshotEdge ==
    (snapshot = NoSnapshot) # (snapshot' = NoSnapshot) =>
        UNCHANGED <<ipv6, tun, routes, rules, resolv, original>>

\* While a snapshot exists the administrator's host is not edited; a reboot
\* removes an interface that is gone already.
OriginalStays ==
    snapshot # NoSnapshot =>
        /\ original'.ipv6 = original.ipv6 /\ original'.resolv = original.resolv
        /\ original'.tun \in {original.tun, NoTun}

\* Steps of a session.
LEMMA SessionEdge ==
    ASSUME IndInv, NEW s \in Sessions, SessionRuns(s) \/ SessionFails(s)
    PROVE  SnapshotEdge /\ OriginalStays
<1>1. UNCHANGED original
  BY DEF SessionRuns, SessionFails, lifeVars
<1>2. CASE UNCHANGED snapshot
  BY <1>1, <1>2 DEF SnapshotEdge, OriginalStays
<1>3. CASE PersistPreState(s)
  BY <1>1, <1>3 DEF PersistPreState, SnapshotEdge, OriginalStays
<1>4. CASE /\ pc[s] \in Mutating
           /\ \/ \E d \in BOOLEAN : AppendAndPersist(s, d)
              \/ MarkAndPersist(s)
  BY <1>1, <1>4
  DEF AppendAndPersist, MarkAndPersist, SnapshotEdge, OriginalStays
<1>5. UNCHANGED snapshot \/ PersistPreState(s)
        \/ (pc[s] \in Mutating /\ \/ \E d \in BOOLEAN : AppendAndPersist(s, d)
                                  \/ MarkAndPersist(s))
  BY DEF SessionRuns, SessionFails, SessionStep, SessionFailure, StartStep, CheckSnapshot,
     RecordResolvConf, RecordSysctl, CheckTun, DisableIPv6, LogSysctlSet, BuildDevice, CreateTun,
     LogTunCreate, UnlinkSymlink, LogResolvIntent, WriteResolvTmp, RenameResolv, LogResolvDone,
     LogIntent, AddRouteOrRule, LogAdded, RevertStarts, RevertEnds, StartFails, RevertCannotStart,
     hostVars, Advance, Mutating
<1> QED BY <1>2, <1>3, <1>4, <1>5

\* Steps of the script.
LEMMA ScriptEdge ==
    ASSUME IndInv, NEW r \in Runners, ScriptRuns(r) \/ ScriptFails(r)
    PROVE  SnapshotEdge /\ OriginalStays
<1>1. UNCHANGED original
  BY DEF ScriptRuns, ScriptFails, lifeVars
<1>2. CASE UNCHANGED snapshot
  BY <1>1, <1>2 DEF SnapshotEdge, OriginalStays
<1>3. CASE Retire(r)
  BY <1>1, <1>3 DEF Retire, SnapshotEdge, OriginalStays
<1>4. UNCHANGED snapshot \/ Retire(r)
  BY DEF ScriptRuns, ScriptFails, Command, Die, Killed, Check, Parse, CountSysctls,
     ReadSysctl, WriteSysctl, DeleteCatchall, CountRules, DeleteRule, RulesDeleted, FlushRoutes,
     ShowTun, DeleteTun, ReadExisted, ReadKind, ReadDetail, VerifyBackup, RemoveResolv, PutResolv,
     NoTarget, hostVars
<1> QED BY <1>2, <1>3, <1>4

\* Every step.
LEMMA NextEdge ==
    ASSUME IndInv, Next
    PROVE  SnapshotEdge /\ OriginalStays
<1>1. CASE \E s \in Sessions : SessionRuns(s) \/ SessionFails(s)
  BY <1>1, SessionEdge
<1>2. CASE \E r \in Runners : ScriptRuns(r) \/ ScriptFails(r)
  BY <1>2, ScriptEdge
<1>3. CASE Reboot
  BY <1>3 DEF Reboot, SnapshotEdge, OriginalStays, IndInv, TypeOK, LifecycleTypeOK, Originals
<1>4. CASE AdminEdit
  BY <1>4 DEF AdminEdit, SnapshotEdge, OriginalStays
<1>5. CASE /\ ~ \E s \in Sessions : SessionRuns(s) \/ SessionFails(s)
           /\ ~ \E r \in Runners : ScriptRuns(r) \/ ScriptFails(r)
           /\ ~Reboot /\ ~AdminEdit
  <2>1. UNCHANGED <<snapshot, original>>
    BY <1>5 DEF Next, Connect, Disconnect, Shutdown, Undo, UndoEnds, Terminate, Drained, Exit, Crash,
       StopPostStarts, StopPostEnds, StartDaemon, ManualPanic, ManualEnds, hostVars, lifeVars
  <2> QED BY <2>1 DEF SnapshotEdge, OriginalStays
<1> QED BY <1>1, <1>2, <1>3, <1>4, <1>5

-----------------------------------------------------------------------------
(***************************************************************************)
(* The refinement.                                                         *)
(***************************************************************************)

\* A new host is a host with no transaction open.
LEMMA TxInitRefines == Init => Tx!TxInit
<1> SUFFICES ASSUME Init PROVE Tx!TxInit
  OBVIOUS
<1>1. TxView /\ snapshot = NoSnapshot
  BY InitInv, InvView DEF Init
<1> QED BY <1>1 DEF Tx!TxInit, TxView

\* A step from view to view is one of Transaction, if it creates or removes the
\* snapshot alone and leaves the administrator's host alone while there is one.
LEMMA EdgeRefines ==
    ASSUME TxView, TxView', SnapshotEdge, OriginalStays
    PROVE  Tx!TxNext
<1> USE DEF TxView
<1>1. CASE snapshot = NoSnapshot /\ snapshot' = NoSnapshot
  <2>1. SavedState = NoSnapshot /\ SavedState' = NoSnapshot /\ HostState' = OriginalState'
    BY <1>1
  <2>2. Tx!Edit
    BY <2>1 DEF Tx!Edit
  <2> QED BY <2>2 DEF Tx!TxNext
<1>2. CASE snapshot = NoSnapshot /\ snapshot' # NoSnapshot
  <2>1. HostState' = HostState /\ OriginalState' = OriginalState
    BY <1>2 DEF SnapshotEdge, HostState, OriginalState
  <2>2. SavedState = NoSnapshot /\ HostState = OriginalState /\ SavedState' = OriginalState'
    BY <1>2
  <2>3. Tx!Begin
    BY <2>1, <2>2 DEF Tx!Begin
  <2> QED BY <2>3 DEF Tx!TxNext
<1>3. CASE snapshot # NoSnapshot /\ snapshot' = NoSnapshot
  <2>1. HostState' = HostState /\ OriginalState' = OriginalState
    BY <1>3 DEF SnapshotEdge, HostState, OriginalState
  <2>2. /\ SavedState = OriginalState /\ SavedState # NoSnapshot
        /\ SavedState' = NoSnapshot /\ HostState' = OriginalState'
    BY <1>3
  <2>3. Tx!End
    BY <2>1, <2>2 DEF Tx!End
  <2> QED BY <2>3 DEF Tx!TxNext
<1>4. CASE snapshot # NoSnapshot /\ snapshot' # NoSnapshot
  <2>1. OriginalState' = OriginalState
    BY <1>4 DEF OriginalStays, OriginalState
  <2>2. SavedState = OriginalState /\ SavedState # NoSnapshot /\ SavedState' = OriginalState'
    BY <1>4
  <2>3. Tx!Mutate
    BY <2>1, <2>2 DEF Tx!Mutate
  <2> QED BY <2>3 DEF Tx!TxNext
<1> QED BY <1>1, <1>2, <1>3, <1>4

\* The code keeps the promise of Transaction: the host changes only under a snapshot
\* taken of the unchanged host (the first Persist of Start), and the snapshot goes
\* (the last command of ouf-panic) only when the host is what it says.
THEOREM TransactionRefined == ASSUME SafeConfig PROVE Spec => ImplementsTransaction
<1>1. Spec => []IndInv
  BY Invariance
<1>2. IndInv => TxView
  BY InvView
<1>3. IndInv /\ TxView /\ TxView' /\ [Next]_vars => [Tx!TxNext]_(Tx!txVars)
  <2> SUFFICES ASSUME IndInv, TxView, TxView', [Next]_vars
               PROVE  Tx!TxNext \/ UNCHANGED Tx!txVars
    OBVIOUS
  <2>1. CASE Next
    BY <2>1, NextEdge, EdgeRefines
  <2>2. CASE UNCHANGED vars
    BY <2>2 DEF vars, hostVars, lifeVars, Tx!txVars, HostState, OriginalState, SavedState
  <2> QED BY <2>1, <2>2
<1> QED BY <1>1, <1>2, <1>3, TxInitRefines, PTL DEF Spec, ImplementsTransaction, Tx!TxSpec
=============================================================================

----------------------------- MODULE PowerLoss -----------------------------
(***************************************************************************)
(* Loss of power.  Persist syncs the file it renames to snapshot.json but  *)
(* not its directory, writeResolvConf and ouf-panic sync nothing: what a   *)
(* directory holds reaches the disk when the file system writes it back,   *)
(* and a machine that loses power comes back with what was written.        *)
(*                                                                         *)
(* With one journal for /etc and /var/lib (one file system) the disk is    *)
(* always some earlier moment of both; with two it is an earlier moment    *)
(* of each.                                                                *)
(***************************************************************************)
EXTENDS Lifecycle

CONSTANT OneJournal  \* are /etc and /var/lib on the same file system?

ASSUME OneJournalAssumption == OneJournal \in BOOLEAN

VARIABLES
    stateDir,  \* /var/lib/outline-fedora as it is on the disk
    etcDir     \* /etc as it is on the disk

diskVars == <<stateDir, etcDir>>

StateFiles == [snapshot |-> snapshot, backup |-> backup]
EtcFiles   == [resolv |-> resolv, resolvTmp |-> resolvTmp]

PowerInit == Init /\ stateDir = StateFiles /\ etcDir = EtcFiles

-----------------------------------------------------------------------------
\* Mutant: the changes in /etc are written first.
WriteBackApart ==
    /\ \/ stateDir' = StateFiles /\ UNCHANGED etcDir
       \/ etcDir' = EtcFiles /\ UNCHANGED stateDir
    /\ UNCHANGED vars

\* A file system writes its changes to the disk.
WriteBack ==
    /\ \/ OneJournal /\ stateDir' = StateFiles /\ etcDir' = EtcFiles
       \/ ~OneJournal /\ stateDir' = StateFiles /\ UNCHANGED etcDir
       \/ ~OneJournal /\ etcDir' = EtcFiles /\ UNCHANGED stateDir
    /\ UNCHANGED vars

\* As Reboot, but files come back as they are on the disk.
LosePower ==
    /\ Fault
    /\ daemon' = "stopped" /\ ProcessesDie(Runners)
    /\ ipv6' = original.ipv6 /\ RemoveTun /\ rules' = {}
    /\ original' = [original EXCEPT !.tun = NoTun]
    /\ snapshot' = stateDir.snapshot /\ backup' = stateDir.backup
    /\ resolv' = etcDir.resolv /\ resolvTmp' = etcDir.resolvTmp
    /\ UNCHANGED <<meddled, diskVars>>

\* The steps of Lifecycle, for an administrator who edits nothing.
Powered ==
    /\ \/ \E s \in Sessions : Connect(s) \/ Disconnect(s) \/ Shutdown(s)
       \/ \E s \in Sessions : SessionRuns(s) \/ SessionFails(s)
       \/ \E r \in Runners : ScriptRuns(r) \/ ScriptFails(r)
       \/ Undo \/ UndoEnds \/ Terminate \/ Drained \/ Exit \/ Crash \/ StopPostStarts \/ StopPostEnds
       \/ StartDaemon \/ ManualPanic \/ ManualEnds
    /\ UNCHANGED diskVars

PowerNext == Powered \/ WriteBack \/ LosePower

PowerSpec == PowerInit /\ [][PowerNext]_<<vars, diskVars>>

-----------------------------------------------------------------------------
(***************************************************************************)
(* Properties.                                                             *)
(***************************************************************************)

\* docs/snapshot-format.md:19: the daemon "writes snapshot atomically
\* (`snapshot.json.tmp` + rename) and fsyncs. Only THEN does the daemon start mutating
\* host state" - a resolv.conf of ours on the disk has a snapshot beside it.
SnapshotFirst == etcDir.resolv.text = OurContent => stateDir.snapshot # NoSnapshot
=============================================================================

---------------------------- MODULE PowerLossInv ----------------------------
(***************************************************************************)
(* The inductive invariant of PowerLoss.  It does without the proviso of   *)
(* IndInv: deletions that ouf-panic does not check may fail, and what they *)
(* leave behind (rules, or a resolv.conf where there was none) is found    *)
(* and recorded by the next Start as if it were the administrator's.       *)
(***************************************************************************)
EXTENDS PowerLoss, LifecycleInv

\* The administrator has a resolv.conf: what soft deletions leave cannot be mistaken
\* for it.
Resolved == original.resolv.kind # "absent"

\* The file f, or what a snapshot records of it, is the administrator's.
IsOriginal(f) == f.kind = original.resolv.kind /\ f.text = original.resolv.text

\* One command at a time, as Lifecycle's client has it: a session that is not over
\* excludes the others, and a script that has yet to be reaped excludes every session
\* but the one that waits for it.
StrictInv ==
    /\ \A s, t \in Sessions : pc[s] \notin Over /\ pc[t] \notin Over => s = t
    /\ \A q, r \in Runners : script[q] # "idle" /\ script[r] # "idle" => q = r
    /\ \A s \in Sessions, r \in Runners :
          Busy(s) /\ script[r] # "idle" => r = s /\ pc[s] \in Reverting
    /\ \A s \in Sessions : script[s] # "idle" => pc[s] \in Reverting
    /\ daemon \in {"dead", "stop_post", "stopped"} => \A s \in Sessions : pc[s] \in Over

\* Routes go with their interface.
RoutesNeedTun == tun = NoTun => routes = {}

\* Without a snapshot the host is untouched, but for what soft deletions left.
SoftClean ==
    /\ RoutesNeedTun
    /\ snapshot = NoSnapshot =>
          /\ ipv6 = original.ipv6 /\ tun = original.tun /\ routes = {}
          /\ Resolved => IsOriginal(resolv)

\* The snapshot sn and the backup b beside it hold what a revert needs.
Undoes(sn, b) ==
    /\ sn.value_before = original.ipv6 /\ original.tun = NoTun
    /\ Resolved => IsOriginal(sn.resolv_conf)
    /\ original.resolv.kind = "file" => b = original.resolv.text

SoftDirty == snapshot # NoSnapshot => Undoes(snapshot, backup)

\* A session before its first Persist.
SoftPrepareAt(s) ==
    /\ pc[s] \in Preparing => writer[s].actions = 0
    /\ pc[s] \in Preparing \ {"start"} => snapshot = NoSnapshot
    /\ pc[s] \in {"sysctl", "tun_check", "persist"} =>
          (Resolved => IsOriginal(writer[s].resolv_conf)) /\ BackupMatches
    /\ pc[s] \in {"tun_check", "persist"} => writer[s].value_before = original.ipv6
    /\ pc[s] = "persist" => tun = NoTun

\* A session that mutates the host.
SoftMutateAt(s) ==
    /\ pc[s] \in Mutating => snapshot = writer[s]
    /\ pc[s] = "cleanup" => snapshot # NoSnapshot

SoftSessionAt(s) == SoftPrepareAt(s) /\ PlanAt(s) /\ SoftMutateAt(s)

\* What the script has undone, if it has noticed no failure.
SoftScriptAt(r) ==
    /\ script[r] \in Commands \ {"check"} => snapshot # NoSnapshot
    /\ script[r] = "write" => want[r].value = original.ipv6
    /\ script[r] \in Commands \ BeforeSysctl /\ failed[r] = 0 => ipv6 = original.ipv6
    /\ script[r] \in OnResolv /\ failed[r] = 0 => tun = NoTun /\ routes = {}
    /\ ReadAt(r)
    /\ script[r] = "retire" /\ failed[r] = 0 /\ Resolved => IsOriginal(resolv)

\* The inductive invariant that RevertibleExceptSoftDeletes rests on, whatever fails.
SoftInv ==
    /\ TypeOK /\ StrictInv /\ SoftClean /\ SoftDirty
    /\ \A s \in Sessions : SoftSessionAt(s)
    /\ \A r \in Runners : SoftScriptAt(r)

\* What is on the disk: an earlier moment of a host for which SoftClean and SoftDirty
\* held.
DiskInv ==
    /\ stateDir \in [snapshot : Snapshot \cup {NoSnapshot}, backup : Texts \cup {BadBackup}]
    /\ etcDir \in [resolv : ResolvFiles, resolvTmp : BOOLEAN]
    /\ IF stateDir.snapshot = NoSnapshot THEN Resolved => IsOriginal(etcDir.resolv)
       ELSE Undoes(stateDir.snapshot, stateDir.backup)

\* The inductive invariant of PowerLoss: a host that comes back with the files of the
\* disk is one that SoftInv allows.
PowerInv == SoftInv /\ DiskInv
=============================================================================

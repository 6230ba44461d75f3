---------------------------- MODULE LifecycleInv ----------------------------
(***************************************************************************)
(* The inductive invariant of Lifecycle: what is known of the host, of the *)
(* snapshot and of a session's writer at every program counter of a        *)
(* session and of the script.                                              *)
(***************************************************************************)
EXTENDS Lifecycle

\* The proviso under which everything can be reverted: soft deletions do their
\* work, and no bypass has a priority that ouf-panic refuses to touch (true of the
\* defaults, 23333 and 7).
SafeConfig == ~SoftDeletesFail /\ RulePriority - NumBypasses >= 1000

\* The pre-state a snapshot records is the host its administrator left.
TruePreState(sn) ==
    /\ sn.resolv_conf.kind = original.resolv.kind
    /\ sn.resolv_conf.text = original.resolv.text
    /\ sn.value_before = original.ipv6

RestoredResolv ==
    resolv.kind = original.resolv.kind /\ resolv.text = original.resolv.text

BackupMatches == original.resolv.kind = "file" => backup = original.resolv.text

\* Without a snapshot the host is untouched.
CleanInv ==
    snapshot = NoSnapshot =>
        /\ ipv6 = original.ipv6 /\ tun = original.tun /\ routes = {} /\ rules = {}
        /\ RestoredResolv

\* With a snapshot, its pre-state is the true one, its backup is intact and
\* every rule that exists is one it records (or the catchall).
DirtyInv ==
    snapshot # NoSnapshot =>
        /\ TruePreState(snapshot) /\ BackupMatches /\ original.tun = NoTun
        /\ rules \subseteq {RulePriority} \cup RecordedPriorities(snapshot)

\* The session works on the host, or its script does: it has got past its look for a
\* snapshot, and its script has not ended.
Active(s) ==
    \/ pc[s] \in (Starting \ {"start"}) \cup Stopping \cup {"up"}
    \/ pc[s] \in Reverting /\ Running(s)

\* One at a time works on the host.  A session that has yet to look for a snapshot may
\* come before the script of the one it follows has ended, but finds no snapshot only
\* when nobody works any more; a script that has ended may still be waited for.
SerialInv ==
    /\ \A s, t \in Sessions : Active(s) /\ Active(t) => s = t
    /\ \A q, r \in Runners : Running(q) /\ Running(r) => q = r
    /\ \A s \in Sessions, r \in Runners :
          Active(s) /\ pc[s] # "up" /\ Running(r) => r = s
    /\ \A s \in Sessions :
          /\ script[s] # "idle" => pc[s] \in Reverting
          /\ pc[s] = "start" =>
                \A t \in Sessions \ {s} : pc[t] \notin Starting \cup {"up"}
          /\ pc[s] = "start" /\ snapshot = NoSnapshot =>
                (\A t \in Sessions : ~Active(t)) /\ (\A r \in Runners : ~Running(r))
    /\ daemon \in {"dead", "stop_post", "stopped"} => \A s \in Sessions : pc[s] \in Over

\* A session before its first Persist: no snapshot, and a writer that holds what
\* has been read so far.
PrepareAt(s) ==
    /\ pc[s] \in Preparing => writer[s].actions = 0
    /\ pc[s] \in Preparing \ {"start"} => snapshot = NoSnapshot
    /\ pc[s] \in {"sysctl", "tun_check", "persist"} =>
          /\ writer[s].resolv_conf.kind = original.resolv.kind
          /\ writer[s].resolv_conf.text = original.resolv.text
          /\ BackupMatches
    /\ pc[s] \in {"tun_check", "persist"} => writer[s].value_before = original.ipv6
    /\ pc[s] = "persist" => tun = NoTun

\* How many actions a session has appended.
PlanAt(s) ==
    /\ pc[s] \in {"ipv6", "ipv6_log"} => writer[s].actions = 0
    /\ pc[s] \in {"device", "tun", "tun_log"} => writer[s].actions = SysctlSet
    /\ pc[s] \in {"unlink", "resolv_intent"} => writer[s].actions = TunCreate
    /\ pc[s] \in {"resolv_tmp", "resolv_rename", "resolv_done"} =>
          writer[s].actions = ResolvWrite
    /\ pc[s] = "intent" => writer[s].actions \in ResolvWrite .. LastAction - 1
    /\ pc[s] \in {"add", "added"} => writer[s].actions \in GwRoute .. LastAction

\* A session that mutates the host: the file is what the writer holds, and
\* exactly the rules added so far exist.
MutateAt(s) ==
    /\ pc[s] \in Mutating => snapshot = writer[s]
    /\ pc[s] = "cleanup" => snapshot # NoSnapshot
    /\ pc[s] \in Mutating \ {"intent", "add", "added"} => rules = {}
    /\ pc[s] \in {"intent", "added"} => rules = RulesOf(FirstBypass, writer[s].actions)
    /\ pc[s] = "add" => rules = RulesOf(FirstBypass, writer[s].actions - 1)

\* The script before its write of the sysctl, and after it has dealt with the interface.
BeforeSysctl == {"check", "parse", "sysctl", "value", "write"}
OnResolv     == {"resolv", "kind", "detail", "verify", "remove", "put", "retire"}

\* What the script has read of pre_state.resolv_conf.
ReadAt(r) ==
    /\ script[r] \notin {"detail", "verify", "remove", "put", "retire"} => want[r].kind = "absent"
    /\ script[r] \in {"detail", "verify", "put"} => want[r].kind # "absent"
    /\ script[r] \in {"detail", "verify", "remove", "put"} =>
          want[r].kind = snapshot.resolv_conf.kind
    /\ script[r] \in {"verify", "remove", "put"} /\ want[r].kind # "absent" =>
          want[r].text = snapshot.resolv_conf.text

\* What the script has already undone.
ScriptAt(r) ==
    /\ script[r] \in {"idle"} \cup Exits \cup BeforeSysctl => failed[r] = 0 /\ idx[r] = 0
    /\ script[r] \in {"catchall", "count"} => idx[r] = 0
    /\ script[r] \in Commands \ {"check"} => snapshot # NoSnapshot
    /\ script[r] = "write" => want[r].value = original.ipv6
    /\ script[r] \in Commands \ BeforeSysctl /\ failed[r] = 0 => ipv6 = original.ipv6
    /\ script[r] \in {"count", "rules"} => RulePriority \notin rules
    /\ script[r] = "rules" =>
          /\ count[r] = RuleCount(snapshot)
          /\ rules \subseteq RulesOf(FirstBypass + idx[r], snapshot.actions)
    /\ script[r] \in {"flush", "tun", "link"} \cup OnResolv => rules = {}
    /\ script[r] \in {"tun", "link"} \cup OnResolv => routes = {}
    /\ script[r] \in OnResolv /\ failed[r] = 0 => tun = NoTun
    /\ ReadAt(r)
    /\ script[r] = "retire" /\ failed[r] = 0 => RestoredResolv

SessionInv == \A s \in Sessions : PrepareAt(s) /\ PlanAt(s) /\ MutateAt(s)

ScriptInv == \A r \in Runners : ScriptAt(r)

\* The inductive invariant that AlwaysRevertible and NoTunnelLoop rest on: what
\* each step of Session.Start, of Close and of ouf-panic has established about the
\* host when the next one, a crash or another run of the script comes.
IndInv ==
    /\ TypeOK /\ CleanInv /\ DirtyInv /\ SerialInv /\ SessionInv /\ ScriptInv
    /\ NoTunnelLoop

-----------------------------------------------------------------------------
(***************************************************************************)
(* How far the tunnel is built.                                            *)
(***************************************************************************)

\* The session's mutations are in place and nobody has begun to undo them.
Tunnelling(s) == pc[s] \in Mutating \/ (pc[s] = "up" /\ ~meddled)

\* How many actions of the plan have had their effect on the host.
Effects(s) ==
    CASE pc[s] = "ipv6" -> 0
      [] pc[s] \in {"ipv6_log", "device", "tun"} -> SysctlSet
      [] pc[s] \in {"tun_log", "unlink", "resolv_intent", "resolv_tmp", "resolv_rename"} -> TunCreate
      [] pc[s] = "add" -> writer[s].actions - 1
      [] OTHER -> writer[s].actions

\* How many of them are marked done.
Marked(s) ==
    IF pc[s] \in {"resolv_tmp", "resolv_rename", "resolv_done", "add", "added"}
    THEN writer[s].actions - 1 ELSE writer[s].actions

\* The host after the first n actions of session s.
HostAfter(s, n) ==
    /\ n >= SysctlSet => ipv6 = "1"
    /\ tun = IF n >= TunCreate THEN s ELSE NoTun
    /\ resolv.text = OurContent <=> n >= ResolvWrite
    /\ routes = {GwRoute, DefRoute} \cap (1 .. n)
    /\ rules = RulesOf(FirstBypass, n)

\* A session's part of the invariant.
ProgressAt(s) ==
    /\ pc[s] \in Preparing => writer[s].done = {}
    /\ Tunnelling(s) =>
          /\ snapshot = writer[s] /\ writer[s].done = 1 .. Marked(s)
          /\ HostAfter(s, Effects(s))
    /\ pc[s] = "up" =>
          /\ writer[s].actions = LastAction
          /\ ~meddled => \A r \in Runners : ~Running(r)

\* A session that is about to be undone, or whose script is at it, has its snapshot, so
\* that no other Start gets past it.
ClosingAt(s) ==
    ~meddled /\ (pc[s] = "closing" \/ (pc[s] \in Reverting /\ Running(s))) =>
        snapshot # NoSnapshot

\* The inductive invariant, on top of IndInv, that UpMeansTunnelled and
\* DoneTellsApplied rest on: at every call of Start the host has exactly the effects
\* of a prefix of the plan, the snapshot on disk is the writer's and marks the same
\* prefix or one action less, a session that is up shares the host with no script but
\* the one a user runs, and one that closes keeps the next one out.
ProgressInv == \A s \in Sessions : ProgressAt(s) /\ ClosingAt(s)
=============================================================================

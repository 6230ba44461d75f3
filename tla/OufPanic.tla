------------------------------ MODULE OufPanic ------------------------------
(***************************************************************************)
(* scripts/ouf-panic: revert the host from snapshot.json.                  *)
(*                                                                         *)
(* The script is a sequence of commands, each a process of its own, so any *)
(* other process may run between two of them and a kill may stop it after  *)
(* any of them.  It re-reads snapshot.json for every value it needs, so    *)
(* another run that removes the file makes it find some of them empty.     *)
(* Reads whose empty values have the same consequence are one step here.   *)
(*                                                                         *)
(* Runners are the processes that can be executing the script: one per     *)
(* session (Session.Close and cleanupOnFailure), one for the daemon's undo *)
(* without a session, one for systemd's ExecStopPost and one for a user    *)
(* who runs it by hand or through the fallback of `ouf undo`.              *)
(***************************************************************************)
EXTENDS Host

CONSTANTS Standalone,  \* the child of oufdee started by RunPanicStandalone
          StopPost,    \* ExecStopPost of oufdee.service
          Manual       \* run by the user, as root

Runners == Sessions \cup {Standalone, StopPost, Manual}

ASSUME RunnerAssumption ==
    /\ Standalone \notin Sessions /\ StopPost \notin Sessions /\ Manual \notin Sessions
    /\ Standalone # StopPost /\ Standalone # Manual /\ StopPost # Manual

VARIABLES
    script,  \* next command of each runner, or how it exited
    failed,  \* the shell variable FAILED
    idx,     \* the loop counter i of the rules loop
    count,   \* rule_count
    want     \* VAL, and WAS_SYMLINK with SYMLINK_TARGET or SHA_BEFORE

panicVars == <<script, failed, idx, count, want>>

Exits    == {"exit0", "exit1", "exit2"}
Commands == {"check", "parse", "sysctl", "value", "write", "catchall", "count",
             "rules", "flush", "tun", "link", "resolv", "kind", "detail", "verify",
             "remove", "put", "retire"}

\* The values a process has read; "none" and NoText are empty ones.
Wants == [value : {"0", "1", "none"}, kind : Kinds, text : Texts]

NothingRead == [value |-> "none", kind |-> "absent", text |-> NoText]

Running(r) == script[r] \in Commands

PanicTypeOK ==
    /\ script \in [Runners -> Commands \cup Exits \cup {"idle"}]
    /\ failed \in [Runners -> {0, 1}]
    /\ idx \in [Runners -> 0 .. NumBypasses + 1]
    /\ count \in [Runners -> 0 .. NumBypasses + 1]
    /\ want \in [Runners -> Wants]

PanicInit ==
    /\ script = [r \in Runners |-> "idle"]
    /\ failed = [r \in Runners |-> 0]
    /\ idx = [r \in Runners |-> 0]
    /\ count = [r \in Runners |-> 0]
    /\ want = [r \in Runners |-> NothingRead]

-----------------------------------------------------------------------------
\* A fresh process for the script.
Launch(r) ==
    /\ script' = [script EXCEPT ![r] = "check"]
    /\ UNCHANGED <<failed, idx, count, want>>

Goto(r, from, to) ==
    /\ script[r] = from
    /\ script' = [script EXCEPT ![r] = to]

\* The variables of a process go with it.
Forget(r) ==
    /\ failed' = [failed EXCEPT ![r] = 0]
    /\ idx' = [idx EXCEPT ![r] = 0]
    /\ count' = [count EXCEPT ![r] = 0]
    /\ want' = [want EXCEPT ![r] = NothingRead]

\* Whoever waited for the script takes its exit code.
Reap(r) ==
    /\ script[r] \in Exits
    /\ script' = [script EXCEPT ![r] = "idle"]
    /\ UNCHANGED <<failed, idx, count, want>>

\* A command that sets FAILED=1 when it fails.
SetFailed(r) == failed' = [failed EXCEPT ![r] = 1]

\* soft_run: the command either has its effect, or fails and nobody notices.
SoftFault == SoftDeletesFail /\ Fault

\* Without a snapshot there is nothing to revert.
Check(r) ==
    /\ Goto(r, "check", IF snapshot = NoSnapshot THEN "exit0" ELSE "parse")
    /\ UNCHANGED <<failed, idx, count, want>> /\ UNCHANGED hostVars

\* The version and our_marks, which are the same in every snapshot; the script dies if
\* the file has gone in the meantime.
Parse(r) ==
    /\ Goto(r, "parse", IF snapshot = NoSnapshot THEN "exit2" ELSE "sysctl")
    /\ UNCHANGED <<failed, idx, count, want>> /\ UNCHANGED hostVars

\* sysctl_count, which is empty if the snapshot has gone: the loop runs zero times.
CountSysctls(r) ==
    /\ Goto(r, "sysctl", IF snapshot = NoSnapshot THEN "catchall" ELSE "value")
    /\ UNCHANGED <<failed, idx, count, want>> /\ UNCHANGED hostVars

\* KEY and VAL.
ReadSysctl(r) ==
    /\ Goto(r, "value", "write")
    /\ want' = [want EXCEPT ![r].value =
                    IF snapshot = NoSnapshot THEN "none" ELSE snapshot.value_before]
    /\ UNCHANGED <<failed, idx, count>> /\ UNCHANGED hostVars

\* `sysctl -w`, which refuses an empty key or value.
WriteSysctl(r) ==
    /\ Goto(r, "write", "catchall")
    /\ \/ /\ want[r].value # "none" /\ ipv6' = want[r].value
          /\ UNCHANGED <<failed, faults>>
       \/ /\ want[r].value = "none"
          /\ SetFailed(r) /\ UNCHANGED <<ipv6, faults>>
       \/ Fault /\ SetFailed(r) /\ UNCHANGED ipv6
    /\ UNCHANGED <<idx, count, want, tun, routes, rules, resolv, resolvTmp, backup, snapshot>>

\* Mutant: the catchall is left to the rules loop, which deletes it last.
DeleteCatchallInLoop(r) ==
    /\ Goto(r, "catchall", "count")
    /\ UNCHANGED <<failed, idx, count, want>> /\ UNCHANGED hostVars

\* `ip rule del priority $RULE_PRIORITY`.
DeleteCatchall(r) ==
    /\ Goto(r, "catchall", "count")
    /\ \/ rules' = rules \ {RulePriority} /\ UNCHANGED faults
       \/ SoftFault /\ UNCHANGED rules
    /\ UNCHANGED <<failed, idx, count, want>>
    /\ UNCHANGED <<ipv6, tun, routes, resolv, resolvTmp, backup, snapshot>>

CountRules(r) ==
    /\ Goto(r, "count", "rules")
    /\ count' = [count EXCEPT ![r] = IF snapshot = NoSnapshot THEN 0 ELSE RuleCount(snapshot)]
    /\ UNCHANGED <<failed, idx, want>> /\ UNCHANGED hostVars

\* Mutant: the loop counter is not incremented.
DeleteRuleForever(r) ==
    /\ Goto(r, "rules", "rules")
    /\ idx[r] < count[r]
    /\ rules' = rules \ {Prio(FirstBypass + idx[r])}
    /\ UNCHANGED <<failed, idx, count, want>>
    /\ UNCHANGED <<ipv6, tun, routes, resolv, resolvTmp, backup, snapshot, faults>>

\* Reads the priority of the idx-th recorded rule, which is the same in every snapshot
\* that has one, and deletes that rule, unless the priority is below 1000.
DeleteRule(r) ==
    LET P == Prio(FirstBypass + idx[r]) IN
    /\ Goto(r, "rules", "rules")
    /\ idx[r] < count[r]
    /\ idx' = [idx EXCEPT ![r] = @ + 1]
    /\ \/ /\ rules' = IF snapshot # NoSnapshot /\ P >= 1000 THEN rules \ {P} ELSE rules
          /\ UNCHANGED faults
       \/ SoftFault /\ UNCHANGED rules
    /\ UNCHANGED <<failed, count, want>>
    /\ UNCHANGED <<ipv6, tun, routes, resolv, resolvTmp, backup, snapshot>>

RulesDeleted(r) ==
    /\ Goto(r, "rules", "flush")
    /\ idx[r] >= count[r]
    /\ UNCHANGED <<failed, idx, count, want>> /\ UNCHANGED hostVars

\* `ip route flush table $TABLE_ID`.
FlushRoutes(r) ==
    /\ Goto(r, "flush", "tun")
    /\ \/ routes' = {} /\ UNCHANGED faults
       \/ SoftFault /\ UNCHANGED routes
    /\ UNCHANGED <<failed, idx, count, want>>
    /\ UNCHANGED <<ipv6, tun, rules, resolv, resolvTmp, backup, snapshot>>

\* `ip link show $TUN_IFNAME`: is there an interface with that name?
ShowTun(r) ==
    /\ Goto(r, "tun", IF tun = NoTun THEN "resolv" ELSE "link")
    /\ UNCHANGED <<failed, idx, count, want>> /\ UNCHANGED hostVars

\* `ip link delete $TUN_IFNAME`, which fails if the interface has gone.
DeleteTun(r) ==
    /\ Goto(r, "link", "resolv")
    /\ \/ tun # NoTun /\ RemoveTun /\ UNCHANGED <<failed, faults>>
       \/ tun = NoTun /\ SetFailed(r) /\ UNCHANGED <<tun, routes, faults>>
       \/ tun # NoTun /\ Fault /\ SetFailed(r) /\ UNCHANGED <<tun, routes>>
    /\ UNCHANGED <<idx, count, want, ipv6, rules, resolv, resolvTmp, backup, snapshot>>

\* RESOLV_EXISTED.  If the snapshot has gone, resolv.conf is left alone.
ReadExisted(r) ==
    /\ Goto(r, "resolv", IF snapshot = NoSnapshot THEN "retire"
                         ELSE IF snapshot.resolv_conf.kind = "absent" THEN "remove" ELSE "kind")
    /\ UNCHANGED <<failed, idx, count, want>> /\ UNCHANGED hostVars

\* BACKUP_PATH and WAS_SYMLINK.  Without either, no backup is found.
ReadKind(r) ==
    LET gone == snapshot = NoSnapshot \/ snapshot.resolv_conf.kind = "absent" IN
    /\ Goto(r, "kind", IF gone THEN "retire" ELSE "detail")
    /\ want' = [want EXCEPT ![r].kind = IF gone THEN @ ELSE snapshot.resolv_conf.kind]
    /\ failed' = [failed EXCEPT ![r] = IF gone THEN 1 ELSE @]
    /\ UNCHANGED <<idx, count>> /\ UNCHANGED hostVars

\* SYMLINK_TARGET, and SHA_BEFORE of a regular file.
ReadDetail(r) ==
    LET gone == snapshot = NoSnapshot \/ snapshot.resolv_conf.kind # want[r].kind IN
    /\ Goto(r, "detail", "verify")
    /\ want' = [want EXCEPT ![r].text = IF gone THEN NoText ELSE snapshot.resolv_conf.text]
    /\ UNCHANGED <<failed, idx, count>> /\ UNCHANGED hostVars

\* A regular file needs its backup, and a backup with the recorded hash, if the script
\* has read one; a bad backup without a hash is refused only if it is missing.
Verifies(w) == w.kind = "symlink" \/ w.text \in {NoText, backup}

Mismatches(w) ==
    w.kind = "file" /\ IF w.text = NoText THEN backup = BadBackup ELSE w.text # backup

\* A mismatch sets FAILED, and a regular file is only replaced while nothing has failed.
VerifyBackup(r) ==
    /\ \/ /\ Verifies(want[r])
          /\ Goto(r, "verify", IF want[r].kind = "symlink" \/ failed[r] = 0 THEN "remove"
                               ELSE "retire")
          /\ UNCHANGED failed
       \/ Mismatches(want[r]) /\ Goto(r, "verify", "retire") /\ SetFailed(r)
    /\ UNCHANGED <<idx, count, want>> /\ UNCHANGED hostVars

\* `rm -f $RESOLV_PATH`; where there was no file, that is all.
RemoveResolv(r) ==
    /\ Goto(r, "remove", IF want[r].kind = "absent" THEN "retire" ELSE "put")
    /\ \/ resolv' = AbsentFile /\ UNCHANGED faults
       \/ SoftFault /\ UNCHANGED resolv
    /\ UNCHANGED <<failed, idx, count, want>>
    /\ UNCHANGED <<ipv6, tun, routes, rules, resolvTmp, backup, snapshot>>

\* `ln -s` refuses an existing path; `cp -a` overwrites it and gives it the
\* mode of the backup, which copyFile created with 0600.  A torn backup, copied without
\* a check of its hash, has some content or other.
PutResolv(r) ==
    LET exists == want[r].kind = "symlink" /\ resolv # AbsentFile IN
    /\ Goto(r, "put", "retire")
    /\ want[r].kind = "symlink" => want[r].text # NoText
    /\ \/ /\ \E copy \in Texts :
                /\ backup \in {copy, BadBackup}
                /\ resolv' = IF exists THEN resolv
                             ELSE IF want[r].kind = "symlink" THEN Symlink(want[r].text)
                             ELSE RegularFile(copy, "0600")
          /\ failed' = [failed EXCEPT ![r] = IF exists THEN 1 ELSE @]
          /\ UNCHANGED faults
       \/ Fault /\ SetFailed(r) /\ UNCHANGED resolv
    /\ UNCHANGED <<idx, count, want, ipv6, tun, routes, rules, resolvTmp, backup, snapshot>>

\* "was_symlink=true but no symlink_target recorded": the script dies, after it has
\* removed resolv.conf.
NoTarget(r) ==
    /\ Goto(r, "put", "exit2")
    /\ want[r].kind = "symlink" /\ want[r].text = NoText
    /\ Forget(r)
    /\ UNCHANGED hostVars

\* Mutant: the snapshot is removed without a look at FAILED.
RetireAlways(r) ==
    /\ Goto(r, "retire", IF failed[r] = 0 THEN "exit0" ELSE "exit1")
    /\ snapshot' = NoSnapshot
    /\ Forget(r)
    /\ UNCHANGED <<ipv6, tun, routes, rules, resolv, resolvTmp, backup, faults>>

\* Mutant: the snapshot is never removed.
RetireNever(r) ==
    /\ Goto(r, "retire", IF failed[r] = 0 THEN "exit0" ELSE "exit1")
    /\ Forget(r)
    /\ UNCHANGED hostVars

\* `rm -f snapshot.json`, whose own failure does not change the exit code.
Retire(r) ==
    /\ Goto(r, "retire", IF failed[r] = 0 THEN "exit0" ELSE "exit1")
    /\ \/ snapshot' = (IF failed[r] = 0 THEN NoSnapshot ELSE snapshot) /\ UNCHANGED faults
       \/ failed[r] = 0 /\ Fault /\ UNCHANGED snapshot
    /\ Forget(r)
    /\ UNCHANGED <<ipv6, tun, routes, rules, resolv, resolvTmp, backup>>

\* die: a missing tool, or a snapshot that jq cannot read.
Die(r) ==
    /\ Goto(r, "parse", "exit2")
    /\ snapshot # NoSnapshot /\ Fault
    /\ UNCHANGED <<failed, idx, count, want>>
    /\ UNCHANGED <<ipv6, tun, routes, rules, resolv, resolvTmp, backup, snapshot>>

\* The script is killed between two commands.
Killed(r) ==
    /\ Running(r) /\ Fault
    /\ script' = [script EXCEPT ![r] = "exit1"]
    /\ Forget(r)
    /\ UNCHANGED <<ipv6, tun, routes, rules, resolv, resolvTmp, backup, snapshot>>

\* The scripts in R are killed, by a signal that reaches them all.
KillScripts(R) ==
    LET hit(r) == r \in R /\ Running(r) IN
    /\ script' = [r \in Runners |-> IF hit(r) THEN "exit1" ELSE script[r]]
    /\ failed' = [r \in Runners |-> IF hit(r) THEN 0 ELSE failed[r]]
    /\ idx' = [r \in Runners |-> IF hit(r) THEN 0 ELSE idx[r]]
    /\ count' = [r \in Runners |-> IF hit(r) THEN 0 ELSE count[r]]
    /\ want' = [r \in Runners |-> IF hit(r) THEN NothingRead ELSE want[r]]

Command(r) ==
    \/ Check(r) \/ Parse(r) \/ CountSysctls(r) \/ ReadSysctl(r) \/ WriteSysctl(r)
    \/ DeleteCatchall(r) \/ CountRules(r) \/ DeleteRule(r) \/ RulesDeleted(r)
    \/ FlushRoutes(r) \/ ShowTun(r) \/ DeleteTun(r)
    \/ ReadExisted(r) \/ ReadKind(r) \/ ReadDetail(r) \/ VerifyBackup(r)
    \/ RemoveResolv(r) \/ PutResolv(r) \/ NoTarget(r) \/ Retire(r)

-----------------------------------------------------------------------------
(***************************************************************************)
(* What one undisturbed run of the script would make of the present host.  *)
(***************************************************************************)
Deletable(sn) == {RulePriority} \cup {p \in RecordedPriorities(sn) : p >= 1000}

\* The backup passes the hash check.
Restorable(sn) == sn.resolv_conf.kind = "file" => backup = sn.resolv_conf.text

RevertOutcome ==
    IF snapshot = NoSnapshot
    THEN [ipv6 |-> ipv6, tun |-> tun, routes |-> routes, rules |-> rules,
          resolv |-> [kind |-> resolv.kind, text |-> resolv.text]]
    ELSE [ipv6 |-> snapshot.value_before, tun |-> NoTun, routes |-> {},
          rules |-> rules \ Deletable(snapshot),
          resolv |-> IF Restorable(snapshot) THEN snapshot.resolv_conf
                     ELSE [kind |-> resolv.kind, text |-> resolv.text]]
=============================================================================

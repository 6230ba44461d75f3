------------------------------- MODULE Session -------------------------------
(***************************************************************************)
(* internal/tun.Session: Start brings the tunnel up in a fixed order of    *)
(* mutations, each bracketed by writes of the snapshot; Close and          *)
(* cleanupOnFailure close the TUN descriptor and run ouf-panic.            *)
(*                                                                         *)
(* pc[s] names the next call of session s; writer[s] is Session.snap, the  *)
(* snapshot as the process has it in memory.                               *)
(***************************************************************************)
EXTENDS OufPanic

VARIABLES pc, writer

sessionVars == <<pc, writer>>

\* Before the first Persist: an error just returns.
Preparing == {"start", "record", "sysctl", "tun_check", "persist"}

\* After it: an error runs the deferred cleanupOnFailure.
Mutating == {"ipv6", "ipv6_log", "device", "tun", "tun_log", "unlink",
             "resolv_intent", "resolv_tmp", "resolv_rename", "resolv_done",
             "intent", "add", "added"}

Starting  == Preparing \cup Mutating
\* The TUN descriptor is about to be closed, and ouf-panic is running.
Stopping  == {"cleanup", "closing"}
Reverting == {"cleanup_panic", "close_panic"}
Over      == {"new", "failed", "closed", "close_failed"}

SessionTypeOK ==
    /\ pc \in [Sessions -> Starting \cup Stopping \cup Reverting \cup Over \cup {"up"}]
    /\ writer \in [Sessions -> Snapshot]

SessionInit ==
    /\ pc = [s \in Sessions |-> "new"]
    /\ writer = [s \in Sessions |-> NewWriter]

-----------------------------------------------------------------------------
Advance(s, from, to) == pc[s] = from /\ pc' = [pc EXCEPT ![s] = to]

SetWriter(s, w) == writer' = [writer EXCEPT ![s] = w]

\* Writer.Persist: write a temporary file, fsync and rename it.  A failure
\* leaves the previous snapshot.json in place (StartFails).
Persist(w) == snapshot' = w

\* Mutant: Start does not look for a snapshot.
CheckNoSnapshot(s) ==
    /\ Advance(s, "start", "record")
    /\ UNCHANGED writer /\ UNCHANGED panicVars /\ UNCHANGED hostVars

\* Start refuses to run while a snapshot exists.
CheckSnapshot(s) ==
    /\ Advance(s, "start", IF snapshot = NoSnapshot THEN "record" ELSE "failed")
    /\ UNCHANGED writer /\ UNCHANGED panicVars /\ UNCHANGED hostVars

\* snapshot.New and RecordResolvConf: a regular file is copied to the backup
\* and its hash recorded, of a symlink only the target is.
RecordResolvConf(s) ==
    /\ Advance(s, "record", "sysctl")
    /\ SetWriter(s, [NewWriter EXCEPT !.resolv_conf = [kind |-> resolv.kind, text |-> resolv.text]])
    /\ backup' = IF resolv.kind = "file" THEN resolv.text ELSE backup
    /\ UNCHANGED <<ipv6, tun, routes, rules, resolv, resolvTmp, snapshot, faults>>
    /\ UNCHANGED panicVars

\* readIPv6Disabled and RecordSysctl.
RecordSysctl(s) ==
    /\ Advance(s, "sysctl", "tun_check")
    /\ SetWriter(s, [writer[s] EXCEPT !.value_before = ipv6])
    /\ UNCHANGED panicVars /\ UNCHANGED hostVars

\* Mutant: Start does not look for an interface with our name.
CheckNoTun(s) ==
    /\ Advance(s, "tun_check", "persist")
    /\ UNCHANGED writer /\ UNCHANGED panicVars /\ UNCHANGED hostVars

\* An interface with our name is never co-opted.
CheckTun(s) ==
    /\ Advance(s, "tun_check", IF tun = NoTun THEN "persist" ELSE "failed")
    /\ UNCHANGED writer /\ UNCHANGED panicVars /\ UNCHANGED hostVars

\* The first Persist: the pre-state reaches the disk before any mutation.
PersistPreState(s) ==
    /\ Advance(s, "persist", "ipv6")
    /\ Persist(writer[s])
    /\ UNCHANGED <<ipv6, tun, routes, rules, resolv, resolvTmp, backup, faults>>
    /\ UNCHANGED writer /\ UNCHANGED panicVars

DisableIPv6(s) ==
    /\ Advance(s, "ipv6", "ipv6_log")
    /\ ipv6' = "1"
    /\ UNCHANGED <<tun, routes, rules, resolv, resolvTmp, backup, snapshot, faults>>
    /\ UNCHANGED writer /\ UNCHANGED panicVars

\* An action appended with the given Done flag, and the snapshot persisted.
AppendAndPersist(s, isDone) ==
    LET w == AppendAction(writer[s], isDone) IN
    /\ SetWriter(s, w)
    /\ Persist(w)
    /\ UNCHANGED <<ipv6, tun, routes, rules, resolv, resolvTmp, backup, faults>>
    /\ UNCHANGED panicVars

\* The trailing action marked done, and the snapshot persisted.
MarkAndPersist(s) ==
    LET w == MarkLastDone(writer[s]) IN
    /\ SetWriter(s, w)
    /\ Persist(w)
    /\ UNCHANGED <<ipv6, tun, routes, rules, resolv, resolvTmp, backup, faults>>
    /\ UNCHANGED panicVars

LogSysctlSet(s) == Advance(s, "ipv6_log", "device") /\ AppendAndPersist(s, TRUE)

\* The server address is resolved and the dialers and the lwIP device are built.
BuildDevice(s) ==
    /\ Advance(s, "device", "tun")
    /\ UNCHANGED writer /\ UNCHANGED panicVars /\ UNCHANGED hostVars

\* newTunDevice fails if the name is taken in the meantime.
CreateTun(s) ==
    /\ Advance(s, "tun", IF tun = NoTun THEN "tun_log" ELSE "cleanup")
    /\ tun' = IF tun = NoTun THEN s ELSE tun
    /\ UNCHANGED <<ipv6, routes, rules, resolv, resolvTmp, backup, snapshot, faults>>
    /\ UNCHANGED writer /\ UNCHANGED panicVars

LogTunCreate(s) == Advance(s, "tun_log", "unlink") /\ AppendAndPersist(s, TRUE)

\* writeResolvConf: a symlink is unlinked ...
UnlinkSymlink(s) ==
    /\ Advance(s, "unlink", "resolv_intent")
    /\ resolv' = IF resolv.kind = "symlink" THEN AbsentFile ELSE resolv
    /\ UNCHANGED <<ipv6, tun, routes, rules, resolvTmp, backup, snapshot, faults>>
    /\ UNCHANGED writer /\ UNCHANGED panicVars

\* ... the write is announced ...
LogResolvIntent(s) == Advance(s, "resolv_intent", "resolv_tmp") /\ AppendAndPersist(s, FALSE)

\* ... the content is written to a temporary file ...
WriteResolvTmp(s) ==
    /\ Advance(s, "resolv_tmp", "resolv_rename")
    /\ resolvTmp' = TRUE
    /\ UNCHANGED <<ipv6, tun, routes, rules, resolv, backup, snapshot, faults>>
    /\ UNCHANGED writer /\ UNCHANGED panicVars

\* ... that is renamed over resolv.conf ...
RenameResolv(s) ==
    /\ Advance(s, "resolv_rename", "resolv_done")
    /\ resolv' = RegularFile(OurContent, "0644")
    /\ resolvTmp' = FALSE
    /\ UNCHANGED <<ipv6, tun, routes, rules, backup, snapshot, faults>>
    /\ UNCHANGED writer /\ UNCHANGED panicVars

\* ... and the action is marked done.
LogResolvDone(s) == Advance(s, "resolv_done", "intent") /\ MarkAndPersist(s)

\* Mutant: an action is marked done when it is announced.
LogIntentAsDone(s) == Advance(s, "intent", "add") /\ AppendAndPersist(s, TRUE)

\* installRouting: two routes, the bypass rules and the catchall are announced,
\* added and marked done one after the other.
LogIntent(s) == Advance(s, "intent", "add") /\ AppendAndPersist(s, FALSE)

\* RouteAdd and RuleAdd refuse what already exists; a route needs the interface.  The
\* first bypass is the server's own address, so that a rule which was left behind at its
\* priority may be for another server and then does not stand in the way; every other
\* rule is the same in every session.
Addable(s, a) ==
    IF a < FirstBypass THEN tun = s /\ a \notin routes
    ELSE a = FirstBypass \/ Prio(a) \notin rules

Refusable(s, a) ==
    IF a < FirstBypass THEN tun # s \/ a \in routes ELSE Prio(a) \in rules

AddRouteOrRule(s) ==
    LET a == writer[s].actions IN
    /\ \/ /\ Addable(s, a) /\ Advance(s, "add", "added")
          /\ routes' = IF a < FirstBypass THEN routes \cup {a} ELSE routes
          /\ rules' = IF a < FirstBypass THEN rules ELSE rules \cup {Prio(a)}
       \/ Refusable(s, a) /\ Advance(s, "add", "cleanup") /\ UNCHANGED <<routes, rules>>
    /\ UNCHANGED <<ipv6, tun, resolv, resolvTmp, backup, snapshot, faults>>
    /\ UNCHANGED writer /\ UNCHANGED panicVars

\* Mutant: installRouting ends one rule too early, without the catchall.
LogAddedNoCatchall(s) ==
    /\ Advance(s, "added", IF writer[s].actions >= LastAction - 1 THEN "up" ELSE "intent")
    /\ MarkAndPersist(s)

\* Mutant: installRouting goes one rule beyond its plan.
LogAddedBeyond(s) ==
    /\ Advance(s, "added", IF writer[s].actions > LastAction THEN "up" ELSE "intent")
    /\ MarkAndPersist(s)

LogAdded(s) ==
    /\ Advance(s, "added", IF writer[s].actions = LastAction THEN "up" ELSE "intent")
    /\ MarkAndPersist(s)

\* An error return of Start.  os.WriteFile may leave the temporary file behind;
\* a failed rename removes it.
StartFails(s) ==
    /\ pc[s] \in Starting \ {"start", "tun_check"}
    /\ pc' = [pc EXCEPT ![s] = IF pc[s] \in Preparing THEN "failed" ELSE "cleanup"]
    /\ Fault
    /\ backup' = IF pc[s] = "record" /\ resolv.kind = "file" THEN BadBackup ELSE backup
    /\ resolvTmp' \in CASE pc[s] = "resolv_tmp" -> BOOLEAN
                       [] pc[s] = "resolv_rename" -> {FALSE}
                       [] OTHER -> {resolvTmp}
    /\ UNCHANGED <<ipv6, tun, routes, rules, resolv, snapshot>>
    /\ UNCHANGED writer /\ UNCHANGED panicVars

StartStep(s) ==
    \/ CheckSnapshot(s) \/ RecordResolvConf(s) \/ RecordSysctl(s) \/ CheckTun(s)
    \/ PersistPreState(s) \/ DisableIPv6(s) \/ LogSysctlSet(s) \/ BuildDevice(s)
    \/ CreateTun(s) \/ LogTunCreate(s) \/ UnlinkSymlink(s) \/ LogResolvIntent(s)
    \/ WriteResolvTmp(s) \/ RenameResolv(s) \/ LogResolvDone(s) \/ LogIntent(s)
    \/ AddRouteOrRule(s) \/ LogAdded(s)

-----------------------------------------------------------------------------
(***************************************************************************)
(* Close and cleanupOnFailure.                                             *)
(***************************************************************************)
\* Mutant: the script is waited for but not started.
RevertNotStarted(s) ==
    /\ pc[s] \in Stopping
    /\ pc' = [pc EXCEPT ![s] = IF @ = "cleanup" THEN "cleanup_panic" ELSE "close_panic"]
    /\ CloseTun(s)
    /\ UNCHANGED <<ipv6, rules, resolv, resolvTmp, backup, snapshot, faults>>
    /\ UNCHANGED writer /\ UNCHANGED panicVars

RevertStarts(s) ==
    /\ pc[s] \in Stopping
    /\ pc' = [pc EXCEPT ![s] = IF @ = "cleanup" THEN "cleanup_panic" ELSE "close_panic"]
    /\ CloseTun(s)
    /\ Launch(s)
    /\ UNCHANGED <<ipv6, rules, resolv, resolvTmp, backup, snapshot, faults>>
    /\ UNCHANGED writer

\* runPanicScript cannot start the script.
RevertCannotStart(s) ==
    /\ pc[s] \in Stopping
    /\ pc' = [pc EXCEPT ![s] = IF @ = "cleanup" THEN "failed" ELSE "close_failed"]
    /\ CloseTun(s)
    /\ Fault
    /\ UNCHANGED <<ipv6, rules, resolv, resolvTmp, backup, snapshot>>
    /\ UNCHANGED writer /\ UNCHANGED panicVars

\* The script has exited: Close reports its error, cleanupOnFailure ignores it.
RevertEnds(s) ==
    /\ pc[s] \in Reverting /\ Reap(s)
    /\ pc' = [pc EXCEPT ![s] = IF @ = "cleanup_panic" THEN "failed"
                               ELSE IF script[s] = "exit0" THEN "closed" ELSE "close_failed"]
    /\ UNCHANGED writer /\ UNCHANGED hostVars

SessionStep(s) == StartStep(s) \/ RevertStarts(s) \/ RevertEnds(s)

SessionFailure(s) == StartFails(s) \/ RevertCannotStart(s)
=============================================================================

----------------------------- MODULE Lifecycle -----------------------------
(***************************************************************************)
(* The life of a host: an administrator who edits its configuration, a     *)
(* client that connects, disconnects and undoes, the daemon that can be    *)
(* stopped or die at any moment, systemd's ExecStopPost, a user who runs   *)
(* ouf-panic by hand, and reboots.                                         *)
(*                                                                         *)
(* Commands are serial here: a new one starts only when no other is in     *)
(* flight (Idle).  Crash, Reboot and a stop request may come at any        *)
(* moment, between any two steps of a command or of the script.            *)
(***************************************************************************)
EXTENDS Session

VARIABLES
    daemon,   \* oufdee.service: running, signalled, stopping, dead, stop_post, stopped
    original, \* history: the host as the administrator last left it
    meddled   \* history: was ouf-panic run by hand since the last Connect?

lifeVars == <<daemon, original, meddled>>
vars == <<hostVars, panicVars, sessionVars, lifeVars>>

Originals == [ipv6 : {"0", "1"}, tun : {NoTun, ForeignTun}, resolv : ForeignResolvFiles]

LifecycleTypeOK ==
    /\ daemon \in {"running", "signalled", "stopping", "dead", "stop_post", "stopped"}
    /\ original \in Originals
    /\ meddled \in BOOLEAN

\* Every variable has its type: in particular a snapshot never holds more
\* actions than the plan has.
TypeOK == HostTypeOK /\ PanicTypeOK /\ SessionTypeOK /\ LifecycleTypeOK

Busy(s) == pc[s] \notin Over \cup {"up"}

\* No command is in flight: no session is starting or closing, and no script runs.
Idle == (\A s \in Sessions : ~Busy(s)) /\ (\A r \in Runners : script[r] = "idle")

\* Handlers of accepted requests are at work or may be.
Serving == daemon \in {"running", "signalled"}

Connected == \E s \in Sessions : pc[s] = "up"

Init ==
    /\ original \in Originals
    /\ ipv6 = original.ipv6 /\ tun = original.tun /\ resolv = original.resolv
    /\ routes = {} /\ rules = {}
    /\ resolvTmp = FALSE /\ backup = BadBackup /\ snapshot = NoSnapshot
    /\ faults = MaxFaults
    /\ daemon = "running" /\ meddled = FALSE
    /\ PanicInit /\ SessionInit

-----------------------------------------------------------------------------
(***************************************************************************)
(* The client, through oufdee.                                             *)
(***************************************************************************)

\* doConnect without a session: tun.New and Session.Start.
Connect(s) ==
    /\ Serving /\ Idle /\ ~Connected
    /\ pc' = [pc EXCEPT ![s] = "start"]
    /\ writer' = [writer EXCEPT ![s] = NewWriter]
    /\ meddled' = FALSE
    /\ UNCHANGED <<daemon, original>> /\ UNCHANGED panicVars /\ UNCHANGED hostVars

\* doDisconnect, doUndo with a session, and the first half of a switch.
Disconnect(s) ==
    /\ Serving /\ Idle
    /\ Advance(s, "up", "closing")
    /\ UNCHANGED <<writer, lifeVars, panicVars, hostVars>>

\* doUndo without a session.
Undo ==
    /\ Serving /\ Idle /\ ~Connected
    /\ Launch(Standalone)
    /\ UNCHANGED <<lifeVars, sessionVars, hostVars>>

UndoEnds == Reap(Standalone) /\ UNCHANGED <<lifeVars, sessionVars, hostVars>>

-----------------------------------------------------------------------------
(***************************************************************************)
(* The service.                                                            *)
(***************************************************************************)

\* SIGTERM closes the listener; handlers in flight, if there are any, go on.  The unit
\* has no KillMode, so that a stop of the service signals the scripts that the daemon
\* has started too; `kill` of the daemon does not.
Terminate ==
    /\ daemon = "running" /\ daemon' \in {"signalled", "stopping"}
    /\ UNCHANGED panicVars \/ KillScripts(Sessions \cup {Standalone})
    /\ UNCHANGED <<original, meddled, sessionVars, hostVars>>

\* wg.Wait: the handlers have returned.
Drained ==
    /\ daemon = "signalled" /\ daemon' = "stopping"
    /\ UNCHANGED <<original, meddled, sessionVars, panicVars, hostVars>>

\* Run, after wg.Wait: the active session is closed ...
Shutdown(s) ==
    /\ daemon = "stopping" /\ Idle
    /\ Advance(s, "up", "closing")
    /\ UNCHANGED <<writer, lifeVars, panicVars, hostVars>>

\* ... and the process exits.
Exit ==
    /\ daemon = "stopping" /\ Idle /\ ~Connected
    /\ daemon' = "dead"
    /\ UNCHANGED <<original, meddled, sessionVars, panicVars, hostVars>>

\* Processes die: the daemon's memory is gone, and so are the scripts in R.
ProcessesDie(R) ==
    /\ pc' = [s \in Sessions |-> "new"]
    /\ writer' = [s \in Sessions |-> NewWriter]
    /\ script' = [r \in Runners |-> IF r \in R THEN "idle" ELSE script[r]]
    /\ failed' = [r \in Runners |-> IF r \in R THEN 0 ELSE failed[r]]
    /\ idx' = [r \in Runners |-> IF r \in R THEN 0 ELSE idx[r]]
    /\ count' = [r \in Runners |-> IF r \in R THEN 0 ELSE count[r]]
    /\ want' = [r \in Runners |-> IF r \in R THEN NothingRead ELSE want[r]]

\* The daemon dies with the scripts it started and its TUN descriptors; the
\* rest of the host stays as it is.
Crash ==
    /\ daemon \in {"running", "signalled", "stopping"} /\ daemon' = "dead"
    /\ Fault
    /\ ProcessesDie(Sessions \cup {Standalone})
    /\ tun' = IF tun \in Sessions THEN NoTun ELSE tun
    /\ routes' = IF tun \in Sessions THEN {} ELSE routes
    /\ UNCHANGED <<original, meddled>>
    /\ UNCHANGED <<ipv6, rules, resolv, resolvTmp, backup, snapshot>>

\* systemd runs ExecStopPost after any exit ...
StopPostStarts ==
    /\ daemon = "dead" /\ Idle /\ daemon' = "stop_post"
    /\ Launch(StopPost)
    /\ UNCHANGED <<original, meddled, sessionVars, hostVars>>

\* ... and with Restart=no leaves the service stopped.
StopPostEnds ==
    /\ daemon = "stop_post" /\ Reap(StopPost) /\ daemon' = "stopped"
    /\ UNCHANGED <<original, meddled, sessionVars, hostVars>>

StartDaemon ==
    /\ daemon = "stopped" /\ daemon' = "running"
    /\ UNCHANGED <<original, meddled, sessionVars, panicVars, hostVars>>

-----------------------------------------------------------------------------
(***************************************************************************)
(* The user and the machine.                                               *)
(***************************************************************************)

\* ouf-panic by hand, or the fallback of `ouf undo`; also while connected.
ManualPanic ==
    /\ daemon \in {"running", "stopped"} /\ Idle
    /\ Launch(Manual)
    /\ meddled' = TRUE
    /\ UNCHANGED <<daemon, original, sessionVars, hostVars>>

ManualEnds == Reap(Manual) /\ UNCHANGED <<lifeVars, sessionVars, hostVars>>

\* All processes and all kernel state are gone, files stay.  The sysctl gets
\* the value the administrator configured.
Reboot ==
    /\ Fault
    /\ daemon' = "stopped" /\ ProcessesDie(Runners)
    /\ ipv6' = original.ipv6 /\ RemoveTun /\ rules' = {}
    /\ original' = [original EXCEPT !.tun = NoTun]
    /\ UNCHANGED <<meddled, resolv, resolvTmp, backup, snapshot>>

\* The administrator changes the host while we own nothing of it.
AdminEdit ==
    /\ Idle /\ ~Connected /\ snapshot = NoSnapshot
    /\ original' \in Originals
    /\ ipv6' = original'.ipv6 /\ tun' = original'.tun /\ resolv' = original'.resolv
    /\ UNCHANGED <<routes, rules, resolvTmp, backup, snapshot, faults>>
    /\ UNCHANGED <<daemon, meddled, sessionVars, panicVars>>

-----------------------------------------------------------------------------
\* The steps of the components leave the other components alone.
SessionRuns(s)  == SessionStep(s) /\ UNCHANGED lifeVars
SessionFails(s) == SessionFailure(s) /\ UNCHANGED lifeVars
ScriptRuns(r)   == Command(r) /\ UNCHANGED <<sessionVars, lifeVars>>
ScriptFails(r)  == (Die(r) \/ Killed(r)) /\ UNCHANGED <<sessionVars, lifeVars>>

Next ==
    \/ \E s \in Sessions : Connect(s) \/ Disconnect(s) \/ Shutdown(s)
    \/ \E s \in Sessions : SessionRuns(s) \/ SessionFails(s)
    \/ \E r \in Runners : ScriptRuns(r) \/ ScriptFails(r)
    \/ Undo \/ UndoEnds \/ Terminate \/ Drained \/ Exit \/ Crash \/ StopPostStarts \/ StopPostEnds
    \/ StartDaemon \/ ManualPanic \/ ManualEnds \/ Reboot \/ AdminEdit

Spec == Init /\ [][Next]_vars

\* The daemon's goroutines, the script and systemd make progress; nobody is
\* assumed to connect, to disconnect, to edit, to crash or to fail.
Fairness ==
    /\ \A s \in Sessions : WF_vars(SessionRuns(s)) /\ WF_vars(Shutdown(s))
    /\ \A r \in Runners : WF_vars(ScriptRuns(r))
    /\ WF_vars(UndoEnds) /\ WF_vars(ManualEnds)
    /\ WF_vars(Drained) /\ WF_vars(Exit) /\ WF_vars(StopPostStarts) /\ WF_vars(StopPostEnds)

FairSpec == Spec /\ Fairness

-----------------------------------------------------------------------------
(***************************************************************************)
(* Properties.                                                             *)
(***************************************************************************)
OriginalState ==
    [ipv6 |-> original.ipv6, tun |-> original.tun, routes |-> {}, rules |-> {},
     resolv |-> [kind |-> original.resolv.kind, text |-> original.resolv.text]]

\* At every moment, whatever step a connect, a disconnect, an earlier revert or
\* a crash has stopped at, one run of ouf-panic that nothing disturbs would
\* bring the host back to what it was; when no snapshot is left it is already so.
AlwaysRevertible == RevertOutcome = OriginalState

\* While the catchall rule sends traffic into the tunnel the bypass rules exist
\* (the first one is the Shadowsocks server's own, "else infinite tunnel loop"):
\* installRouting adds the catchall last and ouf-panic deletes it first.
NoTunnelLoop == RulePriority \in rules => Bypasses \subseteq rules

\* A session that reports success from Start has every mutation in place, and
\* they stay in place until it is closed or ouf-panic is run.
UpMeansTunnelled ==
    \A s \in Sessions : pc[s] = "up" /\ ~meddled =>
        /\ ipv6 = "1" /\ tun = s /\ routes = {GwRoute, DefRoute} /\ rules = AllPriorities
        /\ resolv.text = OurContent
        /\ snapshot.done = 1 .. LastAction

\* Is the effect of action a present on the host?
Applied(a) ==
    CASE a = SysctlSet -> ipv6 = "1"
      [] a = TunCreate -> tun \in Sessions
      [] a = ResolvWrite -> resolv.text = OurContent
      [] a \in {GwRoute, DefRoute} -> a \in routes
      [] OTHER -> Prio(a) \in rules

\* While a session starts, the Done flags on disk tell what has happened (see
\* markLastActionDone): an action marked done has its effect, and of the rest
\* at most the last one on disk has.  The second half does NOT hold of SysctlSet and
\* TunCreate, and is not stated of them: those two are logged after the fact, so that
\* their effect may be there with nothing on disk that announces it.
DoneTellsApplied ==
    \A s \in Sessions : pc[s] \in Mutating =>
        /\ \A a \in snapshot.done : Applied(a)
        /\ \A a \in (ResolvWrite .. LastAction) \ snapshot.done :
              Applied(a) => a = snapshot.actions

(***************************************************************************)
(* The abstract specification this one implements: snapshot.json is the    *)
(* saved state of an open transaction.                                     *)
(***************************************************************************)
HostState ==
    [ipv6 |-> ipv6, tun |-> tun, routes |-> routes, rules |-> rules,
     resolv |-> [kind |-> resolv.kind, text |-> resolv.text]]

SavedState ==
    IF snapshot = NoSnapshot THEN NoSnapshot
    ELSE [ipv6 |-> snapshot.value_before, tun |-> NoTun, routes |-> {}, rules |-> {},
          resolv |-> snapshot.resolv_conf]

AllHostStates ==
    [ipv6 : {"0", "1"}, tun : Sessions \cup {NoTun, ForeignTun},
     routes : SUBSET {GwRoute, DefRoute}, rules : SUBSET AllPriorities,
     resolv : ResolvConfState]

ASSUME AllHostStatesAssumption == NoSnapshot \notin AllHostStates

Tx == INSTANCE Transaction WITH
        HostStates <- AllHostStates, None <- NoSnapshot,
        host <- HostState, base <- OriginalState, saved <- SavedState

\* Connect, crash, revert and retry implement the undo transaction: the host
\* only changes under a snapshot that was taken of the unchanged host, and the
\* snapshot is only removed when the host is what the snapshot says.
ImplementsTransaction == Tx!TxSpec

\* Soft deletions that fail leave rules behind, and a resolv.conf where there
\* was none; everything else the snapshot records is still restored before it
\* is removed, or the snapshot stays.
RevertibleExceptSoftDeletes ==
    /\ RevertOutcome.ipv6 = original.ipv6
    /\ RevertOutcome.tun = original.tun /\ RevertOutcome.routes = {}
    /\ original.resolv.kind # "absent" => RevertOutcome.resolv = OriginalState.resolv

\* The service can only stop over a reverted host: once it is asked to stop or
\* its process is dead, ExecStopPost in the end leaves the host pristine (if
\* nothing fails any more on the way).
StopReverts ==
    (daemon \in {"signalled", "stopping", "dead"} /\ faults = 0)
        ~> (daemon = "stopped" /\ snapshot = NoSnapshot)

\* Start returns, with the session up or not.
StartReturns == \A s \in Sessions : (pc[s] \in Starting) ~> (pc[s] \in Over \cup {"up"})

\* If nothing fails on the way, Close returns success over a reverted host, or, where a
\* stop of the service has killed its script, the service ends over one.
CloseReverts ==
    \A s \in Sessions :
        (pc[s] = "closing" /\ faults = 0)
            ~> (snapshot = NoSnapshot /\ (pc[s] = "closed" \/ daemon = "stopped"))
=============================================================================

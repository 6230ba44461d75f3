-------------------------- MODULE ServerSerialProof --------------------------
(***************************************************************************)
(* What serialises the concurrent Server: with clients that connect one at *)
(* a time and undo alone (and overlap everything else), it keeps what is   *)
(* proved of Lifecycle; with clients that have one command in flight at a  *)
(* time, it implements Lifecycle; for any set of connections and sessions. *)
(***************************************************************************)
EXTENDS ServerProof, ProgressProof, TransactionProof

\* The steps of a connect.
ToConnect == {"active", "get"} \cup Connecting

\* The method of a handler in a command.
LEMMA CommandMethod ==
    ASSUME RequestInv, NEW c \in Conns, at[c] \in Commanding
    PROVE  /\ req[c].method \in {"connect", "disconnect", "undo"} /\ Handled(c)
           /\ at[c] \in ToConnect => req[c].method = "connect"
           /\ at[c] = "undoing" => req[c].method = "undo"
BY DEF RequestInv, RequestAt, Commanding, Connecting, Holding, Handled, ToConnect

\* At most one handler is in a connect, and none is in another command beside an undo.
LEMMA OnlyConnect ==
    ASSUME ConnectsApart, RequestInv, NEW c \in Conns, NEW d \in Conns,
           at[c] \in Commanding, at[d] \in Commanding,
           (at[c] \in ToConnect /\ at[d] \in ToConnect) \/ req[c].method = "undo"
    PROVE  c = d
<1>1. {req[c].method, req[d].method} \in Excluded
  <2>1. CASE req[c].method = "undo"
    BY <2>1, CommandMethod DEF ConnectsApart
  <2>2. CASE at[c] \in ToConnect /\ at[d] \in ToConnect
    <3>1. {req[c].method, req[d].method} = {"connect"}
      BY <2>2, CommandMethod
    <3> QED BY <3>1 DEF ConnectsApart
  <2> QED BY <2>1, <2>2
<1> QED BY <1>1, CommandMethod DEF RequestInv, Apart

\* With one command in flight at a time, at most one handler is in one.
LEMMA OnlyCommand ==
    ASSUME Exclusive, RequestInv, NEW c \in Conns, NEW d \in Conns,
           at[c] \in Commanding, at[d] \in Commanding
    PROVE  c = d
BY CommandMethod DEF Exclusive, RequestInv, Apart

LEMMA ExclusiveApart == Exclusive => ConnectsApart
<1> SUFFICES ASSUME Exclusive PROVE {"connect"} \in Excluded /\ ConnectsApart
  OBVIOUS
<1>1. {"connect", "connect"} \in Excluded /\ {"connect", "connect"} = {"connect"}
  BY DEF Exclusive
<1> QED BY <1>1 DEF Exclusive, ConnectsApart

\* A handler in the only command in flight that holds no session and runs no script has
\* the host for itself.
LEMMA CommandAlone ==
    ASSUME OwnerInv, OneCommandInv, NEW c \in Conns,
           at[c] \in Commanding \ (Holding \cup {"undoing"}),
           \A d \in Conns : at[d] \in Commanding => d = c
    PROVE  Idle /\ (session = NoSession => ~Connected)
<1>1. \A d \in Conns : at[d] \notin Holding \cup {"undoing"} /\ held[d] = NoSession
  <2> SUFFICES ASSUME NEW d \in Conns PROVE at[d] \notin Holding \cup {"undoing"} /\ held[d] = NoSession
    OBVIOUS
  <2>1. at[d] \notin Holding \cup {"undoing"}
    BY DEF Commanding
  <2> QED BY <2>1 DEF OwnerInv, OwnerAt
<1>2. \A s \in Sessions : Owners(s) = {}
  BY <1>1, NoSessionAssumption DEF Owners
<1>3. Handled(c) /\ ~NoHandlers /\ daemon \in {"running", "stopping"}
  BY HandlerMeansProcess DEF Handled, Commanding, Connecting, Holding
<1>4. \A s \in Sessions : ~Busy(s)
  BY <1>2, <1>3 DEF OwnerInv
<1>5. \A r \in Runners : script[r] = "idle"
  BY <1>1, <1>3, <1>4 DEF OneCommandInv, Awaited, Busy, Reverting, Over
<1>6. session = NoSession => ~Connected
  BY <1>2, NoSessionAssumption DEF OneCommandInv, Connected
<1> QED BY <1>4, <1>5, <1>6 DEF Idle

\* A connect that is about to build its session meets no session that starts or is up,
\* no script but those of sessions that close, and those keep it from starting.
LEMMA BuildAlone ==
    ASSUME ConnectsApart, OwnerInv, RequestInv, OneCommandInv, IndInv, ProgressInv,
           NEW c \in Conns, at[c] = "build"
    PROVE  /\ \A t \in Sessions : pc[t] \notin Starting \cup {"up"}
           /\ snapshot = NoSnapshot =>
                 (\A t \in Sessions : ~Active(t)) /\ (\A r \in Runners : ~Running(r))
<1>1. /\ at[c] \in Commanding /\ at[c] \in ToConnect /\ session = NoSession
      /\ Handled(c) /\ ~NoHandlers /\ daemon \in {"running", "stopping"} /\ ~meddled
  BY HandlerMeansProcess DEF Commanding, ToConnect, Connecting, OneCommandInv, Alone, Handled
<1>2. ASSUME NEW t \in Sessions PROVE pc[t] \notin Starting \cup {"up"}
  <2> SUFFICES ASSUME pc[t] \in Starting \cup {"up"} PROVE FALSE
    OBVIOUS
  <2>1. Owners(t) # {}
    BY <1>1, NoSessionAssumption
    DEF OneCommandInv, Left, Busy, Starting, Preparing, Mutating, Over
  <2>2. PICK d \in Conns : held[d] = t
    BY <2>1 DEF Owners
  <2>3. at[d] = "starting"
    BY <2>2, NoSessionAssumption
    DEF OwnerInv, OwnerAt, Holding, Starting, Preparing, Mutating
  <2>4. d = c
    BY <1>1, <2>3, OnlyConnect DEF Commanding, Holding, ToConnect, Connecting
  <2> QED BY <2>3, <2>4
<1>3. ASSUME snapshot = NoSnapshot, NEW t \in Sessions PROVE ~Active(t)
  BY <1>1, <1>2, <1>3 DEF Active, ProgressInv, ClosingAt, IndInv, SessionInv, MutateAt, Stopping
<1>4. ASSUME snapshot = NoSnapshot, NEW r \in Runners PROVE ~Running(r)
  <2> SUFFICES ASSUME Running(r) PROVE FALSE
    OBVIOUS
  <2>1. script[r] # "idle"
    BY DEF Running, Commands
  <2>2. ~\E d \in Conns : at[d] = "undoing"
    <3> SUFFICES ASSUME NEW d \in Conns, at[d] = "undoing" PROVE FALSE
      OBVIOUS
    <3>1. at[d] \in Commanding /\ req[d].method = "undo"
      BY CommandMethod DEF Commanding
    <3> QED BY <1>1, <3>1, OnlyConnect
  <2>3. r \in Sessions /\ pc[r] \in Reverting
    BY <1>1, <2>1, <2>2 DEF OneCommandInv, Awaited
  <2> QED BY <1>4, <1>3, <2>3 DEF Active
<1> QED BY <1>2, <1>3, <1>4

-----------------------------------------------------------------------------
(***************************************************************************)
(* Every step keeps to one connect and to the owners of the scripts.       *)
(***************************************************************************)

\* Steps that change at most the place of handlers that run no script, and let go
\* only of sessions that are over.
LEMMA ElsewhereCommand ==
    ASSUME OneCommandInv, UNCHANGED <<session, pc, script, tun, meddled>>,
           daemon' = daemon \/ script[StopPost] = "idle",
           \A s \in Sessions : pc[s] \in Over \/ Owners(s)' = Owners(s),
           \A c \in Conns : at'[c] \in Alone => session = NoSession,
           \A c \in Conns : at[c] = "undoing" => at'[c] = "undoing"
    PROVE  OneCommandInv'
<1>1. \A r \in Runners : Awaited(r)'
  BY DEF OneCommandInv, Awaited
<1>2. \A s \in Sessions : /\ pc'[s] = "up" => session' = s \/ Owners(s)' # {}
                          /\ tun' = s => pc'[s] \in WithTun
  BY DEF OneCommandInv, Over
<1>3. \A s \in Sessions : Left(s)' => Left(s)
  BY DEF Left, Busy
<1> QED BY <1>1, <1>2, <1>3 DEF OneCommandInv

\* The published session is taken, by the handler of a command or by Run.
LEMMA TakenCommand ==
    ASSUME OwnerInv, OneCommandInv, session # NoSession, session' = NoSession,
           pc' = [pc EXCEPT ![session] = "closing"], UNCHANGED <<script, tun, meddled, daemon>>,
           \A s \in Sessions : Owners(s) \subseteq Owners(s)',
           \A c \in Conns : at[c] = "undoing" => at'[c] = "undoing"
    PROVE  OneCommandInv'
<1>1. session \in Sessions /\ pc[session] = "up" /\ ControlTypeOK
  BY DEF OwnerInv, ControlTypeOK, PublishedIsUp
<1>2. \A s \in Sessions : pc'[s] = IF s = session THEN "closing" ELSE pc[s]
  BY <1>1 DEF ControlTypeOK
<1>3. ASSUME NEW r \in Runners PROVE Awaited(r)'
  <2>1. Awaited(r)
    BY DEF OneCommandInv
  <2>2. r = session => script[r] = "idle" \/ r = Standalone \/ r = StopPost
    BY <1>1, <2>1 DEF Awaited, Reverting
  <2> QED BY <1>1, <1>2, <2>1, <2>2, RunnerAssumption DEF Awaited
<1>4. \A s \in Sessions : /\ pc'[s] = "up" => Owners(s)' # {}
                          /\ tun' = s => pc'[s] \in WithTun
  BY <1>2 DEF OneCommandInv, WithTun, Stopping
<1>5. \A s \in Sessions : Left(s)' => s = session /\ pc'[s] = "closing"
  BY <1>2 DEF OneCommandInv, Left, Busy
<1> QED BY <1>3, <1>4, <1>5 DEF OneCommandInv

\* A connect builds its session.
LEMMA BuildCommand ==
    ASSUME OwnerInv, OneCommandInv, NEW c \in Conns, NEW s \in Sessions, BuildSession(c, s)
    PROVE  OneCommandInv'
<1>1. /\ at[c] = "build" /\ at' = [at EXCEPT ![c] = "starting"] /\ held' = [held EXCEPT ![c] = s]
      /\ pc' = [pc EXCEPT ![s] = "start"] /\ UNCHANGED <<session, daemon, script, tun>>
      /\ pc[s] \in Over /\ meddled' = FALSE /\ ControlTypeOK
  BY DEF BuildSession, Goes, Unused, panicVars, hostVars, OwnerInv
<1>2. session = NoSession
  BY <1>1 DEF OneCommandInv, Alone
<1>3. /\ \A t \in Sessions : pc'[t] = IF t = s THEN "start" ELSE pc[t]
      /\ \A d \in Conns : /\ at'[d] = IF d = c THEN "starting" ELSE at[d]
                          /\ held'[d] = IF d = c THEN s ELSE held[d]
  BY <1>1 DEF ControlTypeOK
<1>4. held[c] = NoSession
  BY <1>1 DEF OwnerInv, OwnerAt, Holding
<1>5. /\ Owners(s)' # {}
      /\ \A t \in Sessions : t # s => Owners(t)' = Owners(t)
  BY <1>3, <1>4, NoSessionAssumption DEF Owners
<1>6. ASSUME NEW r \in Runners PROVE Awaited(r)'
  <2>1. Awaited(r)
    BY DEF OneCommandInv
  <2>2. r = s => script[r] = "idle" \/ r = Standalone \/ r = StopPost
    BY <1>1, <2>1 DEF Awaited, Over, Reverting
  <2>3. \A d \in Conns : at[d] = "undoing" => at'[d] = "undoing"
    BY <1>1, <1>3
  <2> QED BY <1>1, <1>3, <2>1, <2>2, <2>3, RunnerAssumption DEF Awaited
<1>7. \A t \in Sessions : /\ pc'[t] = "up" => session' = t \/ Owners(t)' # {}
                          /\ tun' = t => pc'[t] \in WithTun
  BY <1>1, <1>3, <1>5 DEF OneCommandInv, WithTun, Over, Mutating, Stopping
<1>8. \A t \in Sessions : Left(t)' => Left(t) /\ pc'[t] = pc[t]
  BY <1>3, <1>5 DEF Left, Busy
<1> QED BY <1>1, <1>2, <1>6, <1>7, <1>8 DEF OneCommandInv

\* A connect publishes its session.
LEMMA PublishCommand ==
    ASSUME ConnectsApart, OwnerInv, RequestInv, OneCommandInv, NEW c \in Conns, Publish(c)
    PROVE  OneCommandInv'
<1>1. /\ at[c] = "starting" /\ at' = [at EXCEPT ![c] = "mark"] /\ ControlTypeOK
      /\ session' = held[c] /\ held' = [held EXCEPT ![c] = NoSession]
      /\ pc[held[c]] = "up" /\ UNCHANGED <<pc, daemon, script, tun, meddled>>
  BY DEF Publish, Goes, vars, sessionVars, lifeVars, hostVars, panicVars, OwnerInv
<1>2. session = NoSession /\ Handled(c) /\ ~NoHandlers
  BY <1>1, HandlerMeansProcess DEF OneCommandInv, Alone, Handled
<1>3. \A d \in Conns : /\ at'[d] = IF d = c THEN "mark" ELSE at[d]
                       /\ held'[d] = IF d = c THEN NoSession ELSE held[d]
  BY <1>1 DEF ControlTypeOK
<1>4. ASSUME NEW d \in Conns, d # c PROVE at[d] \notin Alone
  <2> SUFFICES ASSUME at[d] \in Alone PROVE FALSE
    OBVIOUS
  <2>1. /\ at[c] \in Commanding /\ at[c] \in ToConnect /\ at[d] \in Commanding
        /\ at[d] \in ToConnect \/ at[d] = "undoing"
    BY <1>1 DEF Alone, Commanding, Holding, ToConnect, Connecting
  <2>2. at[d] \in ToConnect \/ req[d].method = "undo"
    BY <2>1, CommandMethod
  <2> QED BY <1>4, <2>1, <2>2, OnlyConnect
<1>5. \A d \in Conns : at'[d] \notin Alone
  BY <1>3, <1>4 DEF Alone
<1>6. \A s \in Sessions : s # held[c] => Owners(s)' = Owners(s)
  BY <1>3, NoSessionAssumption DEF Owners
<1>7. ASSUME NEW s \in Sessions
      PROVE  /\ pc'[s] = "up" => session' = s \/ Owners(s)' # {}
             /\ ~Left(s)'
  <2>1. CASE s = held[c]
    BY <1>1, <2>1 DEF Left, Busy
  <2>2. CASE s # held[c]
    <3>1. pc[s] = "up" => Owners(s) # {}
      BY <1>2, NoSessionAssumption DEF OneCommandInv
    <3>2. Busy(s) => Owners(s) # {}
      BY <1>2 DEF OwnerInv
    <3> QED BY <1>1, <1>6, <2>2, <3>1, <3>2 DEF Left, Busy
  <2> QED BY <2>1, <2>2
<1>8. \A r \in Runners : Awaited(r)'
  BY <1>1, <1>3 DEF OneCommandInv, Awaited
<1> QED BY <1>1, <1>5, <1>7, <1>8 DEF OneCommandInv

\* A handler's steps.
LEMMA HandleCommand ==
    ASSUME ConnectsApart, OwnerInv, RequestInv, OneCommandInv, NEW c \in Conns, Handle(c)
    PROVE  OneCommandInv'
<1>1. ControlTypeOK /\ OwnerAt(c) /\ (at[c] \in Alone => session = NoSession)
  BY DEF OwnerInv, OneCommandInv
<1>2. UNCHANGED vars => UNCHANGED <<pc, script, tun, meddled, daemon>>
  BY DEF vars, sessionVars, lifeVars, hostVars, panicVars
<1>3. ASSUME NEW x, at' = [at EXCEPT ![c] = x], at[c] # "undoing",
             x \in Alone => session = NoSession, UNCHANGED <<session, vars>>,
             UNCHANGED held \/ (held' = [held EXCEPT ![c] = NoSession] /\ pc[held[c]] \in Over)
      PROVE  OneCommandInv'
  <2>1. \A s \in Sessions : pc[s] \in Over \/ Owners(s)' = Owners(s)
    BY <1>1, <1>3, NoSessionAssumption DEF Owners, ControlTypeOK
  <2>2. \A d \in Conns : at'[d] = IF d = c THEN x ELSE at[d]
    BY <1>1, <1>3 DEF ControlTypeOK
  <2>3. \A d \in Conns : at'[d] \in Alone => session = NoSession
    BY <1>3, <2>2 DEF OneCommandInv
  <2>4. \A d \in Conns : at[d] = "undoing" => at'[d] = "undoing"
    BY <1>3, <2>2
  <2>5. UNCHANGED <<session, pc, script, tun, meddled, daemon>>
    BY <1>2, <1>3
  <2> QED BY <2>1, <2>3, <2>4, <2>5, ElsewhereCommand
<1> USE DEF Goes, Answers
<1>4. CASE Respond(c) \/ ReadOnly(c) \/ DoStatus(c)
  <2>1. AfterClose \notin Alone
    BY DEF AfterClose, Alone, Holding
  <2> QED BY <1>3, <1>4, <2>1 DEF Respond, ReadOnly, DoStatus, Alone, Holding
<1>5. CASE \/ ReadActive(c) \/ GetKey(c) \/ AlreadyConnected(c) \/ NotConnected(c) \/ Mark(c)
           \/ NothingToClose(c) \/ KeyStep(c)
  <2>1. PICK x : at' = [at EXCEPT ![c] = x] /\ at[c] # "undoing" /\ (x \in Alone => session = NoSession)
    BY <1>5 DEF ReadActive, GetKey, AlreadyConnected, NotConnected, Mark, NothingToClose, KeyStep,
       CheckRemove, DoRemove, DoRename, SyncSessKey, DoAdd, DoUse, Done, Refused, Alone, Holding
  <2>2. UNCHANGED <<session, vars, held>>
    BY <1>5 DEF ReadActive, GetKey, AlreadyConnected, NotConnected, Mark, NothingToClose, KeyStep,
       CheckRemove, DoRemove, DoRename, SyncSessKey, DoAdd, DoUse
  <2> QED BY <1>3, <2>1, <2>2
<1>6. CASE SwitchClosed(c) \/ StartFailed(c) \/ CloseReturns(c)
  <2>1. PICK x : /\ at' = [at EXCEPT ![c] = x] /\ at[c] \in Holding
                 /\ x = "answered" \/ at[c] \in {"switching", "starting"}
    BY <1>6 DEF SwitchClosed, StartFailed, CloseReturns, Holding
  <2>2. /\ UNCHANGED <<session, vars>> /\ held' = [held EXCEPT ![c] = NoSession]
        /\ pc[held[c]] \in Over
    BY <1>6 DEF SwitchClosed, StartFailed, CloseReturns, Release, Over
  <2>3. at[c] # "undoing" /\ (x \in Alone => session = NoSession)
    BY <1>1, <2>1 DEF Alone, Holding
  <2> QED BY <1>3, <2>1, <2>2, <2>3
<1>7. CASE SwitchKey(c) \/ TakeToClose(c)
  <2>1. /\ Take(c) /\ at[c] \in {"lock", "take"}
        /\ \E x : at' = [at EXCEPT ![c] = x]
    BY <1>7 DEF SwitchKey, TakeToClose
  <2>2. held[c] = NoSession
    BY <1>1, <2>1 DEF OwnerAt, Holding
  <2>3. \A s \in Sessions : Owners(s) \subseteq Owners(s)'
    BY <1>1, <2>1, <2>2, NoSessionAssumption DEF Take, Owners, ControlTypeOK
  <2>4. \A d \in Conns : at[d] = "undoing" => at'[d] = "undoing"
    BY <1>1, <2>1 DEF ControlTypeOK
  <2> QED BY <2>1, <2>3, <2>4, TakenCommand DEF Take, panicVars, hostVars, lifeVars
<1>8. CASE UndoStandalone(c)
  <2>1. /\ session = NoSession /\ at' = [at EXCEPT ![c] = "undoing"]
        /\ script' = [script EXCEPT ![Standalone] = "check"]
        /\ UNCHANGED <<session, held, pc, tun, meddled, daemon>>
    BY <1>8 DEF UndoStandalone, Launch, sessionVars, lifeVars, hostVars
  <2>2. at'[c] = "undoing" /\ \A d \in Conns : d # c => at'[d] = at[d]
    BY <1>1, <2>1 DEF ControlTypeOK
  <2>3. /\ script' \in [Runners -> Commands \cup Exits \cup {"idle"}]
        /\ \A r \in Runners : r # Standalone => script'[r] = script[r]
    BY <2>1 DEF OneCommandInv, Commands
  <2>4. \A r \in Runners : Awaited(r)'
    BY <2>1, <2>2, <2>3, RunnerAssumption DEF OneCommandInv, Awaited
  <2> QED BY <2>1, <2>3, <2>4 DEF OneCommandInv, Left, Busy, Owners
<1>9. CASE StandaloneReturns(c)
  <2>1. /\ at[c] = "undoing" /\ at' = [at EXCEPT ![c] = "answered"]
        /\ script' = [script EXCEPT ![Standalone] = "idle"]
        /\ UNCHANGED <<session, held, pc, tun, meddled, daemon>>
    BY <1>9 DEF StandaloneReturns, Reap, sessionVars, lifeVars, hostVars
  <2>2. at'[c] = "answered" /\ \A d \in Conns : d # c => at'[d] = at[d]
    BY <1>1, <2>1 DEF ControlTypeOK
  <2>3. /\ script' \in [Runners -> Commands \cup Exits \cup {"idle"}]
        /\ \A r \in Runners : script'[r] = IF r = Standalone THEN "idle" ELSE script[r]
    BY <2>1 DEF OneCommandInv
  <2>4. \A r \in Runners : Awaited(r)'
    BY <2>1, <2>3, RunnerAssumption DEF OneCommandInv, Awaited
  <2>5. \A d \in Conns : at'[d] \in Alone => session' = NoSession
    BY <2>1, <2>2 DEF OneCommandInv, Alone, Holding
  <2> QED BY <2>1, <2>3, <2>4, <2>5 DEF OneCommandInv, Left, Busy, Owners
<1> QED BY <1>4, <1>5, <1>6, <1>7, <1>8, <1>9, BuildCommand, PublishCommand
        DEF Handle, ConnectStep, CloseStep

\* A connection is accepted.
LEMMA AcceptCommand ==
    ASSUME OwnerInv, OneCommandInv, NEW c \in Conns, NEW r \in Requests, Accept(c, r)
    PROVE  OneCommandInv'
<1>1. /\ at[c] = "idle" /\ at' = [at EXCEPT ![c] = Dispatch(r)]
      /\ UNCHANGED <<session, held, pc, script, tun, meddled, daemon>>
  BY DEF Accept, vars, sessionVars, lifeVars, hostVars, panicVars
<1>2. Dispatch(r) \notin Alone
  <2>1. r.method \in {"remove", "use", "rename", "add", "list", "connect", "disconnect", "undo",
                      "status", "ping"}
    BY DEF Requests, KeyRequests, SessionRequests
  <2> QED BY <2>1 DEF Dispatch, Alone, Holding
<1>3. \A d \in Conns : at'[d] = IF d = c THEN Dispatch(r) ELSE at[d]
  BY <1>1 DEF OwnerInv, ControlTypeOK
<1>4. /\ \A d \in Conns : at'[d] \in Alone => session = NoSession
      /\ \A d \in Conns : at[d] = "undoing" => at'[d] = "undoing"
      /\ \A s \in Sessions : Owners(s)' = Owners(s)
  BY <1>1, <1>2, <1>3 DEF OneCommandInv, Owners
<1> QED BY <1>1, <1>4, ElsewhereCommand

\* What a step of a session does to its script and to its TUN device.
LEMMA SessionReach ==
    ASSUME pc \in [Sessions -> Starting \cup Stopping \cup Reverting \cup Over \cup {"up"}],
           NEW s \in Sessions, SessionRuns(s) \/ SessionFails(s)
    PROVE  /\ \/ pc[s] \notin Reverting /\ script' = script
              \/ pc'[s] \in Reverting /\ script' = [script EXCEPT ![s] = "check"]
              \/ pc[s] \in Reverting /\ script' = [script EXCEPT ![s] = "idle"]
           /\ \/ tun' = tun /\ (pc[s] \in WithTun => pc'[s] \in WithTun)
              \/ tun' = s /\ pc'[s] \in WithTun
              \/ tun' # s /\ tun' \in {tun, NoTun}
<1>1. CASE CreateTun(s)
  BY <1>1 DEF CreateTun, Advance, WithTun, Mutating, Stopping, Reverting, panicVars
<1>2. CASE StartStep(s) /\ ~CreateTun(s)
  <2>1. UNCHANGED <<script, tun>> /\ pc[s] \notin Reverting
    BY <1>2 DEF StartStep, CheckSnapshot, RecordResolvConf, RecordSysctl, CheckTun, PersistPreState,
       DisableIPv6, LogSysctlSet, BuildDevice, LogTunCreate, UnlinkSymlink,
       LogResolvIntent, WriteResolvTmp, RenameResolv, LogResolvDone, LogIntent, AddRouteOrRule,
       LogAdded, Advance, AppendAndPersist, MarkAndPersist, panicVars, hostVars, Reverting
  <2>2. pc[s] \in WithTun => pc'[s] \in WithTun
    BY <1>2 DEF StartStep, CheckSnapshot, RecordResolvConf, RecordSysctl, CheckTun, PersistPreState,
       DisableIPv6, LogSysctlSet, BuildDevice, LogTunCreate, UnlinkSymlink,
       LogResolvIntent, WriteResolvTmp, RenameResolv, LogResolvDone, LogIntent, AddRouteOrRule,
       LogAdded, Advance, WithTun, Mutating, Stopping
  <2> QED BY <2>1, <2>2
<1>3. CASE StartFails(s)
  BY <1>3 DEF StartFails, panicVars, WithTun, Starting, Preparing, Mutating, Stopping, Reverting
<1>4. CASE RevertStarts(s) \/ RevertCannotStart(s)
  BY <1>4, TunAssumption DEF RevertStarts, RevertCannotStart, CloseTun, Launch, panicVars, Stopping, Reverting
<1>5. CASE RevertEnds(s)
  BY <1>5 DEF RevertEnds, Reap, hostVars, WithTun, Mutating, Stopping, Reverting
<1> QED BY <1>1, <1>2, <1>3, <1>4, <1>5 DEF SessionRuns, SessionFails, SessionStep, SessionFailure

\* A session's steps.
LEMMA SessionCommand ==
    ASSUME OwnerInv, OneCommandInv, NEW s \in Sessions, SessionRuns(s) \/ SessionFails(s),
           UNCHANGED <<session, at, held>>
    PROVE  OneCommandInv'
<1>1. ControlTypeOK /\ script \in [Runners -> Commands \cup Exits \cup {"idle"}] /\ s \in Runners
  BY DEF OwnerInv, OneCommandInv, Runners
<1>2. PICK p : /\ pc' = [pc EXCEPT ![s] = p]
               /\ \/ pc[s] \in Starting /\ p \in Starting \cup {"up", "cleanup", "failed"}
                  \/ pc[s] = "cleanup" /\ p \in {"cleanup_panic", "failed"}
                  \/ pc[s] = "cleanup_panic" /\ p = "failed"
                  \/ pc[s] = "closing" /\ p \in {"close_panic", "close_failed"}
                  \/ pc[s] = "close_panic" /\ p \in {"closed", "close_failed"}
  BY <1>1, SessionMoves DEF ControlTypeOK
<1>3. /\ \A t \in Sessions : pc'[t] = IF t = s THEN p ELSE pc[t]
      /\ \A t \in Sessions : Owners(t)' = Owners(t)
      /\ daemon' = daemon /\ meddled' = meddled
  BY <1>1, <1>2, SessionMoves DEF ControlTypeOK, Owners, lifeVars
<1>4. /\ \/ pc[s] \notin Reverting /\ script' = script
         \/ p \in Reverting /\ script' = [script EXCEPT ![s] = "check"]
         \/ pc[s] \in Reverting /\ script' = [script EXCEPT ![s] = "idle"]
      /\ \/ tun' = tun /\ (pc[s] \in WithTun => p \in WithTun)
         \/ tun' = s /\ p \in WithTun
         \/ tun' # s /\ tun' \in {tun, NoTun}
  BY <1>1, <1>3, SessionReach DEF ControlTypeOK
<1>5. Busy(s)
  BY <1>2 DEF Busy, Over, Starting, Preparing, Mutating
<1>6. /\ script' \in [Runners -> Commands \cup Exits \cup {"idle"}]
      /\ \A r \in Runners : r # s => script'[r] = script[r]
      /\ script'[s] # "idle" => \/ script'[s] = script[s] /\ pc[s] \notin Reverting
                               \/ p \in Reverting
  BY <1>1, <1>4 DEF Commands
<1>7. ASSUME NEW r \in Runners PROVE Awaited(r)'
  <2>1. Awaited(r)
    BY DEF OneCommandInv
  <2> QED BY <1>3, <1>6, <2>1, RunnerAssumption DEF Awaited
<1>8. ASSUME NEW t \in Sessions
      PROVE  /\ pc'[t] = "up" => session' = t \/ Owners(t)' # {}
             /\ Left(t)' => Left(t) /\ session' = NoSession /\ pc'[t] \in {"closing", "close_panic"}
             /\ tun' = t => pc'[t] \in WithTun
  <2>1. CASE t # s
    BY <1>3, <1>4, <2>1, TunAssumption DEF OneCommandInv, Left, Busy
  <2>2. CASE t = s
    <3>1. Owners(s) = {} => session = NoSession /\ pc[s] \in {"closing", "close_panic"}
      BY <1>5 DEF OneCommandInv, Left
    <3>2. Owners(s) = {} => p \in {"close_panic", "closed", "close_failed"}
      BY <1>2, <3>1 DEF Starting, Preparing, Mutating
    <3> QED BY <1>3, <1>4, <2>2, <3>1, <3>2 DEF OneCommandInv, Left, Busy, Over
  <2> QED BY <2>1, <2>2
<1>9. \A c \in Conns : at'[c] \in Alone => session' = NoSession
  BY DEF OneCommandInv
<1> QED BY <1>3, <1>6, <1>7, <1>8, <1>9 DEF OneCommandInv

\* What a step of the script leaves alone.
LEMMA ScriptReach ==
    ASSUME NEW r \in Runners, ScriptRuns(r) \/ ScriptFails(r)
    PROVE  /\ script[r] \in Commands /\ tun' \in {tun, NoTun} /\ UNCHANGED <<pc, daemon, meddled, original>>
           /\ \E x \in Commands \cup Exits : script' = [script EXCEPT ![r] = x]
<1>1. UNCHANGED <<pc, daemon, meddled, original>>
  BY DEF ScriptRuns, ScriptFails, sessionVars, lifeVars
<1>2. tun' \in {tun, NoTun}
  BY DEF ScriptRuns, ScriptFails, Command, Die, Killed, Check, Parse, CountSysctls, ReadSysctl,
     WriteSysctl, DeleteCatchall, CountRules, DeleteRule, RulesDeleted, FlushRoutes, ShowTun, DeleteTun,
     RemoveTun, ReadExisted, ReadKind, ReadDetail, VerifyBackup, RemoveResolv, PutResolv, NoTarget, Retire,
     hostVars
<1>3. script[r] \in Commands /\ \E x \in Commands \cup Exits : script' = [script EXCEPT ![r] = x]
  BY DEF ScriptRuns, ScriptFails, Command, Die, Killed, Check, Parse, CountSysctls, ReadSysctl,
     WriteSysctl, DeleteCatchall, CountRules, DeleteRule, RulesDeleted, FlushRoutes, ShowTun, DeleteTun,
     ReadExisted, ReadKind, ReadDetail, VerifyBackup, RemoveResolv, PutResolv, NoTarget, Retire,
     Goto, Running, Commands, Exits
<1> QED BY <1>1, <1>2, <1>3

\* A script's steps.
LEMMA ScriptCommand ==
    ASSUME OneCommandInv, NEW r \in Runners, ScriptRuns(r) \/ ScriptFails(r),
           UNCHANGED <<session, at, held>>
    PROVE  OneCommandInv'
<1>1. PICK x \in Commands \cup Exits : script' = [script EXCEPT ![r] = x]
  BY ScriptReach
<1>2. script[r] \in Commands /\ tun' \in {tun, NoTun} /\ UNCHANGED <<pc, daemon, meddled>>
  BY ScriptReach
<1>3. /\ script' \in [Runners -> Commands \cup Exits \cup {"idle"}]
      /\ \A q \in Runners : script'[q] # "idle" => script[q] # "idle"
  BY <1>1, <1>2 DEF OneCommandInv, Commands
<1>4. \A q \in Runners : Awaited(q)'
  BY <1>2, <1>3 DEF OneCommandInv, Awaited
<1> QED BY <1>2, <1>3, <1>4, TunAssumption DEF OneCommandInv, Left, Busy, Owners

\* Nobody runs the script by hand.
LEMMA NoManual ==
    ASSUME OneCommandInv
    PROVE  script[Manual] = "idle" /\ (daemon # "stop_post" => script[StopPost] = "idle")
BY RunnerAssumption DEF OneCommandInv, Awaited, Runners

\* When the process stops for good nothing is left to lose.
LEMMA ExitAlone ==
    ASSUME OwnerInv, OneCommandInv, ServerExit
    PROVE  /\ \A s \in Sessions : pc[s] \in Over /\ script[s] = "idle"
           /\ tun \notin Sessions /\ UNCHANGED <<pc, tun, routes>>
<1>1. /\ daemon = "stopping" /\ NoHandlers /\ session = NoSession /\ ControlTypeOK
      /\ \A s \in Sessions : ~Busy(s)
      /\ pc' = [s \in Sessions |-> IF pc[s] = "up" THEN "new" ELSE pc[s]]
      /\ tun' = IF tun \in Sessions THEN NoTun ELSE tun
      /\ routes' = IF tun \in Sessions THEN {} ELSE routes
  BY DEF ServerExit, OwnerInv
<1>2. \A c \in Conns : held[c] = NoSession
  BY <1>1 DEF OwnerInv, OwnerAt, NoHandlers, Handled, Holding
<1>3. \A s \in Sessions : pc[s] \in Over
  BY <1>1, <1>2, NoSessionAssumption DEF OneCommandInv, Owners, Busy
<1>4. tun \notin Sessions
  BY <1>3 DEF OneCommandInv, WithTun, Over, Mutating, Stopping
<1>5. pc' = pc
  BY <1>1, <1>3 DEF Over, ControlTypeOK
<1>6. \A s \in Sessions : script[s] = "idle"
  BY <1>3, RunnerAssumption DEF OneCommandInv, Awaited, Over, Reverting, Runners
<1> QED BY <1>1, <1>3, <1>4, <1>5, <1>6

\* The service's steps.
LEMMA ServiceCommand ==
    ASSUME OwnerInv, OneCommandInv,
           SigTerm \/ ServerExit \/ ServerCrash \/ StopPostRuns \/ StopPostDone \/ ServerStarts
    PROVE  OneCommandInv'
<1>1. CASE SigTerm \/ ServerStarts
  <2>1. daemon # "stop_post" /\ UNCHANGED <<session, at, held, pc, tun, meddled>>
    BY <1>1 DEF SigTerm, ServerStarts, StartDaemon, serverVars, connVars, sessionVars, panicVars,
       hostVars
  <2>2. \A s \in Sessions : Owners(s)' = Owners(s)
    BY <2>1 DEF Owners
  <2>3. CASE script' = script
    BY <2>1, <2>2, <2>3, NoManual, ElsewhereCommand DEF OneCommandInv
  <2>4. CASE KillScripts(Sessions \cup {Standalone})
    <3>1. /\ script' \in [Runners -> Commands \cup Exits \cup {"idle"}]
          /\ \A r \in Runners : script'[r] # "idle" => script[r] # "idle"
      BY <2>4 DEF OneCommandInv, KillScripts, Running, Commands, Exits
    <3>2. script[StopPost] = "idle"
      BY <2>1, NoManual
    <3>3. \A r \in Runners : Awaited(r)'
      BY <2>1, <3>1, <3>2 DEF OneCommandInv, Awaited
    <3> QED BY <2>1, <2>2, <3>1, <3>3 DEF OneCommandInv, Left, Busy
  <2> QED BY <1>1, <2>3, <2>4 DEF SigTerm, ServerStarts, StartDaemon, panicVars
<1>2. CASE ServerExit
  <2>1. UNCHANGED <<session, at, held, pc, script, tun, meddled>>
    BY <1>2, ExitAlone DEF ServerExit, connVars, panicVars
  <2>2. \A s \in Sessions : Owners(s)' = Owners(s)
    BY <2>1 DEF Owners
  <2>3. script[StopPost] = "idle"
    BY <1>2, NoManual DEF ServerExit
  <2> QED BY <2>1, <2>2, <2>3, ElsewhereCommand DEF OneCommandInv
<1>3. CASE ServerCrash
  <2>1. /\ daemon # "stop_post" /\ meddled' = meddled /\ session' = NoSession
        /\ pc' = [s \in Sessions |-> "new"] /\ tun' = IF tun \in Sessions THEN NoTun ELSE tun
        /\ script' = [r \in Runners |-> IF r \in Sessions \cup {Standalone} THEN "idle" ELSE script[r]]
        /\ at' = [c \in Conns |-> IF Handled(c) THEN AfterClose ELSE at[c]]
    BY <1>3 DEF ServerCrash, Crash, ProcessesDie
  <2>2. \A r \in Runners : script'[r] = "idle"
    BY <2>1, NoManual DEF Runners
  <2>3. \A c \in Conns : at'[c] \notin Alone
    BY <2>1 DEF Handled, AfterClose, Alone, Holding
  <2>4. tun' \notin Sessions
    BY <2>1, TunAssumption
  <2>5. script' \in [Runners -> Commands \cup Exits \cup {"idle"}]
    BY <2>1 DEF OneCommandInv
  <2> QED BY <2>1, <2>2, <2>3, <2>4, <2>5 DEF OneCommandInv, Awaited, Left, Busy, Over
<1>4. CASE StopPostRuns \/ StopPostDone
  <2>1. /\ daemon \notin {"running", "stopping"} /\ UNCHANGED <<session, at, held, pc, tun, meddled>>
        /\ \E x \in {"check", "idle"} :
              script' = [script EXCEPT ![StopPost] = x] /\ (x # "idle" => daemon' = "stop_post")
    BY <1>4 DEF StopPostRuns, StopPostDone, StopPostEnds, Launch, Reap, serverVars, connVars,
       sessionVars, hostVars
  <2>2. PICK x \in {"check", "idle"} :
            script' = [script EXCEPT ![StopPost] = x] /\ (x # "idle" => daemon' = "stop_post")
    BY <2>1
  <2>3. /\ script' \in [Runners -> Commands \cup Exits \cup {"idle"}]
        /\ \A r \in Runners : script'[r] = IF r = StopPost THEN x ELSE script[r]
    BY <2>2 DEF OneCommandInv, Commands
  <2>4. \A r \in Runners : Awaited(r)'
    BY <2>1, <2>2, <2>3, RunnerAssumption DEF OneCommandInv, Awaited
  <2> QED BY <2>1, <2>3, <2>4 DEF OneCommandInv, Left, Busy, Owners
<1> QED BY <1>1, <1>2, <1>3, <1>4

\* Every step.
LEMMA NextCommand ==
    ASSUME ConnectsApart, OwnerInv, RequestInv, OneCommandInv, [ServerNext]_allVars
    PROVE  OneCommandInv'
<1>1. CASE \E c \in Conns : Handle(c) \/ \E r \in Requests : Accept(c, r)
  BY <1>1, HandleCommand, AcceptCommand
<1>2. CASE \E s \in Sessions : SessionActs(s) \/ SessionErrs(s)
  BY <1>2, SessionCommand DEF SessionActs, SessionErrs, serverVars, connVars
<1>3. CASE \E r \in Runners : ScriptActs(r) \/ ScriptErrs(r)
  BY <1>3, ScriptCommand DEF ScriptActs, ScriptErrs, serverVars, connVars
<1>4. CASE SigTerm \/ ServerExit \/ ServerCrash \/ StopPostRuns \/ StopPostDone \/ ServerStarts
  BY <1>4, ServiceCommand
<1>5. CASE ShutdownTakes
  <2>1. /\ UNCHANGED <<at, held, script, tun, meddled, daemon>> /\ session # NoSession
        /\ session' = NoSession /\ pc' = [pc EXCEPT ![session] = "closing"]
    BY <1>5 DEF ShutdownTakes, connVars, panicVars, hostVars, lifeVars
  <2> QED BY <2>1, TakenCommand DEF Owners
<1>6. CASE FallbackStarts \/ FallbackEnds
  BY <1>6, NoManual DEF FallbackStarts, FallbackEnds, ManualEnds, Reap, Exits, ConnectsApart
<1>7. CASE UNCHANGED allVars
  <2>1. UNCHANGED <<session, at, held, pc, script, tun, meddled, daemon>>
    BY <1>7 DEF allVars, vars, serverVars, connVars, sessionVars, lifeVars, panicVars, hostVars
  <2>2. \A s \in Sessions : Owners(s)' = Owners(s)
    BY <2>1 DEF Owners
  <2> QED BY <2>1, <2>2, ElsewhereCommand DEF OneCommandInv
<1> QED BY <1>1, <1>2, <1>3, <1>4, <1>5, <1>6, <1>7 DEF ServerNext

\* Clients that connect one at a time and undo alone do not get in each other's way, with
\* Server.mu free during Start, Close and RunPanicStandalone and with disconnects,
\* switches, stops and crashes at any time: every script has someone who waits for it
\* and every session that is up someone who will close it.
THEOREM OneCommand == ASSUME ConnectsApart PROVE ServerSpec => []OneCommandInv
<1>1. ServerInit => OneCommandInv
  <2> SUFFICES ASSUME ServerInit PROVE OneCommandInv
    OBVIOUS
  <2>1. tun \notin Sessions
    BY TunAssumption DEF ServerInit, Init, Originals
  <2> QED BY <2>1 DEF ServerInit, Init, PanicInit, SessionInit, OneCommandInv, Awaited, Alone, Left,
          Busy, Over
<1>2. OwnerInv /\ RequestInv /\ OneCommandInv /\ [ServerNext]_allVars => OneCommandInv'
  BY NextCommand
<1> QED BY <1>1, <1>2, Owned, RequestsInOrder, PTL DEF ServerSpec

-----------------------------------------------------------------------------
(***************************************************************************)
(* What the concurrent steps are in the serial Lifecycle.                  *)
(***************************************************************************)

\* What Connect, Disconnect or Shutdown, and Undo do, whether or not the daemon has been
\* told to stop (a handler that is already running goes on).
Starts(s) ==
    /\ pc[s] \in Over
    /\ pc' = [pc EXCEPT ![s] = "start"] /\ writer' = [writer EXCEPT ![s] = NewWriter]
    /\ meddled' = FALSE
    /\ UNCHANGED <<daemon, original>> /\ UNCHANGED panicVars /\ UNCHANGED hostVars

Closes(s) ==
    /\ Advance(s, "up", "closing")
    /\ UNCHANGED <<writer, lifeVars, panicVars, hostVars>>

Undoes ==
    /\ Idle /\ ~Connected /\ Launch(Standalone)
    /\ UNCHANGED <<lifeVars, sessionVars, hostVars>>

\* A handler's step is a step of a client, or invisible to the sessions.
LEMMA ClientStep ==
    ASSUME ConnectsApart, OwnerInv, RequestInv, OneCommandInv, NEW c \in Conns, Handle(c)
    PROVE  \/ UNCHANGED vars
           \/ Handled(c)' /\ at[c] = "build" /\ \E s \in Sessions : Starts(s)
           \/ Handled(c)' /\ at[c] \in {"lock", "take"} /\ \E s \in Sessions : Closes(s)
           \/ Handled(c)' /\ Handled(c) /\ (Undoes \/ UndoEnds)
<1>1. ControlTypeOK /\ (at[c] \in Alone => session = NoSession)
  BY DEF OwnerInv, OneCommandInv
<1>2. ASSUME NEW x, at' = [at EXCEPT ![c] = x], x \notin {"idle", "over"} PROVE Handled(c)'
  BY <1>1, <1>2 DEF ControlTypeOK, Handled
<1>3. CASE \/ Respond(c) \/ ReadOnly(c) \/ DoStatus(c) \/ KeyStep(c)
           \/ ReadActive(c) \/ GetKey(c) \/ AlreadyConnected(c) \/ NotConnected(c) \/ Mark(c)
           \/ NothingToClose(c) \/ SwitchClosed(c) \/ StartFailed(c) \/ CloseReturns(c) \/ Publish(c)
  BY <1>3 DEF Respond, ReadOnly, DoStatus, ReadActive, GetKey, AlreadyConnected, NotConnected, Mark,
     NothingToClose, KeyStep, CheckRemove, DoRemove, DoRename, SyncSessKey, DoAdd, DoUse, SwitchClosed,
     StartFailed, CloseReturns, Publish
<1>4. ASSUME NEW s \in Sessions, BuildSession(c, s) PROVE Starts(s) /\ at[c] = "build" /\ Handled(c)'
  <2>1. at[c] = "build" /\ at' = [at EXCEPT ![c] = "starting"]
    BY <1>4 DEF BuildSession, Goes
  <2>2. Starts(s)
    BY <1>4 DEF BuildSession, Unused, Starts
  <2>3. Handled(c)'
    BY <1>1, <2>1 DEF ControlTypeOK, Handled
  <2> QED BY <2>1, <2>2, <2>3
<1>5. CASE SwitchKey(c) \/ TakeToClose(c)
  <2>1. /\ Take(c) /\ at[c] \in {"lock", "take"}
        /\ \E x \in {"switching", "closing"} : at' = [at EXCEPT ![c] = x]
    BY <1>5 DEF SwitchKey, TakeToClose, Goes
  <2>2. session \in Sessions /\ pc[session] = "up"
    BY <1>1, <2>1 DEF Take, ControlTypeOK, OwnerInv, PublishedIsUp
  <2>3. Closes(session)
    BY <2>1, <2>2 DEF Take, Closes, Advance
  <2> QED BY <1>2, <2>1, <2>2, <2>3
<1>6. CASE UndoStandalone(c)
  <2>1. /\ at[c] = "take" /\ at' = [at EXCEPT ![c] = "undoing"] /\ session = NoSession
        /\ req[c].method = "undo" /\ at[c] \in Commanding \ (Holding \cup {"undoing"})
    BY <1>6 DEF UndoStandalone, Goes, Commanding, Connecting, Holding
  <2>2. \A d \in Conns : at[d] \in Commanding => d = c
    BY <2>1, OnlyConnect
  <2>3. Idle /\ ~Connected
    BY <2>1, <2>2, CommandAlone
  <2> QED BY <1>2, <1>6, <2>1, <2>3 DEF UndoStandalone, Undoes, Handled
<1>7. CASE StandaloneReturns(c)
  BY <1>2, <1>7 DEF StandaloneReturns, Answers, Goes, UndoEnds, Handled
<1> QED BY <1>3, <1>4, <1>5, <1>6, <1>7 DEF Handle, ConnectStep, CloseStep

\* The daemon closes its last session, exits and is followed by ExecStopPost, over a
\* host that nobody else is working on.
LEMMA StopStep ==
    ASSUME OwnerInv, OneCommandInv, ShutdownTakes \/ ServerExit \/ StopPostRuns
    PROVE  /\ NoHandlers
           /\ ShutdownTakes => \E s \in Sessions : Shutdown(s)
           /\ ServerExit => Exit
           /\ StopPostRuns => StopPostStarts
<1>1. NoHandlers
  BY DEF OwnerInv, ShutdownTakes, ServerExit, StopPostRuns
<1>2. daemon # "stop_post" /\ \A c \in Conns : at[c] # "undoing"
  BY <1>1 DEF ShutdownTakes, ServerExit, StopPostRuns, NoHandlers, Handled
<1>3. ASSUME \A s \in Sessions : ~Busy(s) PROVE Idle
  <2>1. \A r \in Runners : script[r] = "idle"
    BY <1>2, <1>3 DEF OneCommandInv, Awaited, Busy, Reverting, Over
  <2> QED BY <1>3, <2>1 DEF Idle
<1>4. CASE ShutdownTakes
  <2>1. /\ session # NoSession /\ session \in Sessions /\ pc[session] = "up" /\ daemon = "stopping"
        /\ pc' = [pc EXCEPT ![session] = "closing"]
        /\ UNCHANGED <<writer, hostVars, panicVars, lifeVars>>
    BY <1>4 DEF ShutdownTakes, OwnerInv, ControlTypeOK, PublishedIsUp
  <2>2. \A s \in Sessions : Owners(s) = {}
    BY <1>1, NoSessionAssumption DEF OwnerInv, OwnerAt, NoHandlers, Handled, Holding, Owners
  <2>3. \A s \in Sessions : ~Busy(s)
    BY <2>1, <2>2 DEF OneCommandInv, Left
  <2>4. Shutdown(session)
    BY <1>3, <2>1, <2>3 DEF Shutdown, Advance
  <2> QED BY <1>1, <1>4, <2>1, <2>4 DEF ServerExit, StopPostRuns
<1>5. CASE ServerExit
  <2>1. Idle /\ daemon = "stopping"
    BY <1>3, <1>5 DEF ServerExit
  <2>2. ~Connected /\ UNCHANGED <<pc, tun, routes>>
    BY <1>5, ExitAlone DEF Connected, Over
  <2>3. Exit
    BY <1>5, <2>1, <2>2 DEF ServerExit, Exit, sessionVars, hostVars
  <2> QED BY <1>1, <1>5, <2>1, <2>3 DEF ServerExit, ShutdownTakes, StopPostRuns
<1>6. CASE StopPostRuns
  <2>1. daemon = "dead" /\ \A s \in Sessions : ~Busy(s)
    BY <1>6 DEF StopPostRuns, OwnerInv, Busy
  <2>2. StopPostStarts
    BY <1>3, <1>6, <2>1 DEF StopPostRuns, StopPostStarts
  <2> QED BY <1>1, <1>6, <2>1, <2>2 DEF ShutdownTakes, ServerExit
<1> QED BY <1>4, <1>5, <1>6

\* Every step.
LEMMA LifeStep ==
    ASSUME ConnectsApart, OwnerInv, RequestInv, OneCommandInv, [ServerNext]_allVars
    PROVE  \/ Next
           \/ UNCHANGED vars
           \/ \E c \in Conns : at[c] = "build" /\ \E s \in Sessions : Starts(s)
           \/ \E s \in Sessions : Closes(s)
           \/ Undoes
<1>1. CASE \E c \in Conns : Handle(c)
  BY <1>1, ClientStep DEF Next
<1>2. CASE \E c \in Conns, r \in Requests : Accept(c, r)
  BY <1>2 DEF Accept
<1>3. CASE \/ \E s \in Sessions : SessionActs(s) \/ SessionErrs(s)
           \/ \E r \in Runners : ScriptActs(r) \/ ScriptErrs(r)
  BY <1>3 DEF SessionActs, SessionErrs, ScriptActs, ScriptErrs, Next
<1>4. CASE SigTerm \/ ServerCrash \/ StopPostDone \/ ServerStarts \/ FallbackEnds
  BY <1>4 DEF SigTerm, Terminate, ServerCrash, StopPostDone, ServerStarts, FallbackEnds, Next
<1>5. CASE ShutdownTakes \/ ServerExit \/ StopPostRuns
  BY <1>5, StopStep DEF Next
<1>6. CASE FallbackStarts
  BY <1>6 DEF FallbackStarts, ConnectsApart
<1>7. CASE UNCHANGED allVars
  BY <1>7 DEF allVars
<1> QED BY <1>1, <1>2, <1>3, <1>4, <1>5, <1>6, <1>7 DEF ServerNext

-----------------------------------------------------------------------------
(***************************************************************************)
(* The invariants of the serial Lifecycle, in the concurrent Server.       *)
(***************************************************************************)

\* Every step keeps what is known of the host.
LEMMA NextHost ==
    ASSUME ConnectsApart, SafeConfig, OwnerInv, RequestInv, OneCommandInv, IndInv, ProgressInv,
           [ServerNext]_allVars
    PROVE  IndInv'
<1>1. CASE Next
  BY <1>1, NextInv
<1>2. CASE UNCHANGED vars
  BY <1>2, StutterInv
<1>3. ASSUME NEW c \in Conns, at[c] = "build", NEW s \in Sessions, Starts(s) PROVE IndInv'
  <2>1. daemon \in {"running", "stopping"}
    BY <1>3, HandlerMeansProcess DEF Handled
  <2>2. /\ \A t \in Sessions : pc[t] \notin Starting \cup {"up"}
        /\ snapshot = NoSnapshot =>
              (\A t \in Sessions : ~Active(t)) /\ (\A r \in Runners : ~Running(r))
    BY <1>3, BuildAlone
  <2>3. /\ pc[s] \in Over /\ pc' = [pc EXCEPT ![s] = "start"] /\ meddled' \in BOOLEAN
        /\ writer' = [writer EXCEPT ![s] = NewWriter] /\ daemon' = daemon /\ original' = original
        /\ UNCHANGED panicVars /\ UNCHANGED hostVars
    BY <1>3 DEF Starts
  <2> QED BY <2>1, <2>2, <2>3, StartsInv
<1>4. ASSUME NEW s \in Sessions, Closes(s) PROVE IndInv'
  <2>1. pc[s] = "up" /\ \A r \in Runners : ~Running(r)
    BY <1>4 DEF Closes, Advance, OneCommandInv, ProgressInv, ProgressAt
  <2>2. /\ pc' = [pc EXCEPT ![s] = "closing"] /\ UNCHANGED writer /\ UNCHANGED lifeVars
        /\ UNCHANGED panicVars /\ UNCHANGED hostVars
    BY <1>4 DEF Closes, Advance
  <2> QED BY <2>1, <2>2, ClosesInv
<1>5. CASE Undoes
  <2>1. meddled' \in BOOLEAN /\ daemon' = daemon /\ original' = original
    BY <1>5 DEF Undoes, lifeVars, IndInv, TypeOK, LifecycleTypeOK
  <2>2. Standalone \in Runners \ Sessions
    BY RunnerAssumption DEF Runners
  <2> QED BY <1>5, <2>1, <2>2, LaunchInv DEF Undoes
<1> QED BY <1>1, <1>2, <1>3, <1>4, <1>5, LifeStep

\* Every step keeps what is known of the progress of a session.
LEMMA NextServerProgress ==
    ASSUME ConnectsApart, OwnerInv, RequestInv, OneCommandInv, IndInv, ProgressInv, [ServerNext]_allVars
    PROVE  ProgressInv'
<1>1. CASE Next
  BY <1>1, NextProgress
<1>2. CASE UNCHANGED vars
  BY <1>2, QuietProgress DEF vars, hostVars, panicVars, lifeVars, Running
<1>3. ASSUME NEW s \in Sessions, Starts(s) PROVE ProgressInv'
  <2>1. meddled' = meddled
    BY <1>3 DEF Starts, OneCommandInv, IndInv, TypeOK, LifecycleTypeOK
  <2> QED BY <1>3, <2>1, StartsProgress DEF Starts
<1>4. ASSUME NEW s \in Sessions, Closes(s) PROVE ProgressInv'
  BY <1>4, ClosesProgress DEF Closes
<1>5. CASE Undoes
  BY <1>5, RestProgress, IdleMeans DEF Undoes, sessionVars, IndInv
<1> QED BY <1>1, <1>2, <1>3, <1>4, <1>5, LifeStep

\* The inductive invariants of Lifecycle hold under concurrent handlers.
THEOREM ServerInvariance ==
    ASSUME ConnectsApart, SafeConfig PROVE ServerSpec => [](IndInv /\ ProgressInv)
<1>1. ServerInit => IndInv /\ ProgressInv
  BY InitInv DEF ServerInit, Init, SessionInit, ProgressInv, ProgressAt, ClosingAt, Tunnelling, Preparing,
     Mutating, Reverting
<1>2. OwnerInv /\ RequestInv /\ OneCommandInv /\ IndInv /\ ProgressInv /\ [ServerNext]_allVars =>
          IndInv' /\ ProgressInv'
  BY NextHost, NextServerProgress
<1> QED BY <1>1, <1>2, Owned, RequestsInOrder, OneCommand, PTL DEF ServerSpec

\* Every variable of the daemon has its type, those of the sessions, of the scripts
\* and of the keystore under it included.
THEOREM ServerTypeCorrect == ASSUME ConnectsApart, SafeConfig PROVE ServerSpec => []AllTypeOK
<1>1. IndInv /\ RequestInv /\ KeyInv => AllTypeOK
  BY DEF IndInv, RequestInv, KeyInv, AllTypeOK
<1> QED BY <1>1, ServerInvariance, RequestsInOrder, PTL

\* Whatever the handlers have got to, one run of ouf-panic would bring the host back.
THEOREM ServerRevertible == ASSUME ConnectsApart, SafeConfig PROVE ServerSpec => []AlwaysRevertible
<1>1. IndInv => AlwaysRevertible
  BY InvRevertible
<1> QED BY <1>1, ServerInvariance, PTL

\* What doStatus calls connected is a host whose traffic goes through the tunnel of
\* the published session, with a complete snapshot.
THEOREM ConnectedTunnelled ==
    ASSUME ConnectsApart, SafeConfig PROVE ServerSpec => []ConnectedMeansTunnelled
<1>1. OwnerInv /\ OneCommandInv /\ IndInv /\ ProgressInv => ConnectedMeansTunnelled
  <2> SUFFICES ASSUME OwnerInv, OneCommandInv, IndInv, ProgressInv, session # NoSession
               PROVE  ConnectedMeansTunnelled
    BY DEF ConnectedMeansTunnelled
  <2>1. session \in Sessions /\ pc[session] = "up" /\ ~meddled
    BY DEF OwnerInv, ControlTypeOK, PublishedIsUp, OneCommandInv
  <2>2. UpMeansTunnelled
    BY ProgressTunnels
  <2>3. snapshot = writer[session] /\ writer[session] \in Snapshot
    BY <2>1 DEF ProgressInv, ProgressAt, Tunnelling, IndInv, TypeOK, SessionTypeOK
  <2> QED BY <2>1, <2>2, <2>3, NoSnapshotAssumption DEF UpMeansTunnelled, ConnectedMeansTunnelled
<1> QED BY <1>1, Owned, OneCommand, ServerInvariance, PTL

\* When every request is answered, nothing is connected and no snapshot is left, the
\* host is what it was.
THEOREM QuietClean == ASSUME ConnectsApart, SafeConfig PROVE ServerSpec => []QuietIsClean
<1>1. IndInv => QuietIsClean
  BY DEF IndInv, CleanInv, RestoredResolv, QuietIsClean, AllQuiet, HostState, OriginalState
<1> QED BY <1>1, ServerInvariance, PTL

\* The daemon with its concurrent handlers, the signals and the crash of its process
\* keeps the promise of Transaction: no handler changes the host outside the span of a
\* snapshot of the unchanged host, and no revert ends with the host changed.
THEOREM ServerTransaction ==
    ASSUME ConnectsApart, SafeConfig PROVE ServerSpec => ImplementsTransaction
<1>1. IndInv => TxView
  BY InvView
<1>2. ASSUME OwnerInv, RequestInv, OneCommandInv, IndInv, TxView, TxView', [ServerNext]_allVars
      PROVE  [Tx!TxNext]_(Tx!txVars)
  <2>1. CASE Next
    BY <1>2, <2>1, NextEdge, EdgeRefines
  <2>2. CASE UNCHANGED vars
    BY <2>2 DEF vars, hostVars, lifeVars, Tx!txVars, HostState, OriginalState, SavedState
  <2>3. CASE (\E s \in Sessions : Starts(s) \/ Closes(s)) \/ Undoes
    <3>1. UNCHANGED <<snapshot, original>>
      BY <2>3 DEF Starts, Closes, Undoes, hostVars, lifeVars
    <3> QED BY <1>2, <3>1, EdgeRefines DEF SnapshotEdge, OriginalStays
  <2> QED BY <1>2, <2>1, <2>2, <2>3, LifeStep
<1>3. ServerInit => Tx!TxInit
  BY TxInitRefines DEF ServerInit
<1> QED BY <1>1, <1>2, <1>3, Owned, RequestsInOrder, OneCommand, ServerInvariance, PTL
        DEF ServerSpec, ImplementsTransaction, Tx!TxSpec

-----------------------------------------------------------------------------
(***************************************************************************)
(* What an answer "ok" means.                                              *)
(***************************************************************************)

\* A script that exits with 0 leaves the host as it was.
LEMMA ScriptOk ==
    ASSUME IndInv, NEW r \in Runners, ScriptRuns(r) \/ ScriptFails(r), script'[r] = "exit0"
    PROVE  HostState' = OriginalState'
<1>1. /\ script \in [Runners -> Commands \cup Exits \cup {"idle"}] /\ ScriptAt(r)
      /\ snapshot \in Snapshot \cup {NoSnapshot} /\ original' = original
  BY DEF IndInv, TypeOK, HostTypeOK, PanicTypeOK, ScriptInv, ScriptRuns, ScriptFails, lifeVars
<1>2. Check(r) \/ Retire(r)
  BY <1>1 DEF ScriptRuns, ScriptFails, Command, Die, Killed, Check, Parse, CountSysctls, ReadSysctl,
     WriteSysctl, DeleteCatchall, CountRules, DeleteRule, RulesDeleted, FlushRoutes, ShowTun, DeleteTun,
     ReadExisted, ReadKind, ReadDetail, VerifyBackup, RemoveResolv, PutResolv, NoTarget, Retire, Goto
<1>3. CASE Check(r)
  <2>1. snapshot = NoSnapshot /\ UNCHANGED <<ipv6, tun, routes, rules, resolv>>
    BY <1>1, <1>3 DEF Check, Goto, hostVars
  <2> QED BY <1>1, <2>1 DEF IndInv, CleanInv, RestoredResolv, HostState, OriginalState
<1>4. CASE Retire(r)
  <2>1. script[r] = "retire" /\ failed[r] = 0 /\ UNCHANGED <<ipv6, tun, routes, rules, resolv>>
    BY <1>1, <1>4 DEF Retire, Goto
  <2>2. /\ ipv6 = original.ipv6 /\ rules = {} /\ routes = {} /\ tun = NoTun /\ RestoredResolv
        /\ snapshot # NoSnapshot
    BY <1>1, <2>1 DEF ScriptAt, Commands, OnResolv, BeforeSysctl
  <2>3. original.tun = NoTun
    BY <2>2 DEF IndInv, DirtyInv
  <2> QED BY <1>1, <2>1, <2>2, <2>3 DEF RestoredResolv, HostState, OriginalState
<1> QED BY <1>2, <1>3, <1>4

\* Steps that leave the host alone and let no script and no Close succeed.
LEMMA ElsewhereOk ==
    ASSUME OkInv, UNCHANGED <<hostVars, original>>,
           \A r \in Runners : script'[r] = "exit0" => script[r] = "exit0",
           \A c \in Conns : at'[c] \in {"switching", "closing"} /\ pc'[held'[c]] = "closed" =>
                                at[c] \in {"switching", "closing"} /\ pc[held[c]] = "closed"
    PROVE  OkInv'
<1>1. HostState' = HostState /\ OriginalState' = OriginalState
  BY DEF HostState, OriginalState, hostVars
<1> QED BY <1>1 DEF OkInv

\* A handler's steps.
LEMMA HandleOk ==
    ASSUME OwnerInv, OneCommandInv, OkInv, NEW c \in Conns, Handle(c)
    PROVE  OkInv'
<1>1. ControlTypeOK /\ OwnerAt(c) /\ script \in [Runners -> Commands \cup Exits \cup {"idle"}]
  BY DEF OwnerInv, OneCommandInv
<1>2. ASSUME NEW x, at' = [at EXCEPT ![c] = x], x \notin {"switching", "closing"},
             UNCHANGED <<hostVars, original, pc>>,
             \A d \in Conns \ {c} : held'[d] = held[d],
             \A r \in Runners : script'[r] = "exit0" => script[r] = "exit0"
      PROVE  OkInv'
  <2>1. \A d \in Conns : at'[d] = IF d = c THEN x ELSE at[d]
    BY <1>1, <1>2 DEF ControlTypeOK
  <2> QED BY <1>2, <2>1, ElsewhereOk
<1>3. UNCHANGED vars => UNCHANGED <<hostVars, original, pc, script>>
  BY DEF vars, sessionVars, lifeVars, panicVars
<1>4. CASE \/ Respond(c) \/ ReadOnly(c) \/ DoStatus(c) \/ KeyStep(c)
           \/ ReadActive(c) \/ GetKey(c) \/ AlreadyConnected(c) \/ NotConnected(c) \/ Mark(c)
           \/ NothingToClose(c) \/ SwitchClosed(c) \/ StartFailed(c) \/ CloseReturns(c) \/ Publish(c)
  <2>1. UNCHANGED vars
    BY <1>4 DEF Respond, ReadOnly, DoStatus, ReadActive, GetKey, AlreadyConnected, NotConnected, Mark,
       NothingToClose, KeyStep, CheckRemove, DoRemove, DoRename, SyncSessKey, DoAdd, DoUse, SwitchClosed,
       StartFailed, CloseReturns, Publish
  <2>2. PICK x : at' = [at EXCEPT ![c] = x] /\ x \notin {"switching", "closing"}
    BY <1>4 DEF Respond, ReadOnly, DoStatus, ReadActive, GetKey, AlreadyConnected, NotConnected, Mark,
       NothingToClose, KeyStep, CheckRemove, DoRemove, DoRename, SyncSessKey, DoAdd, DoUse, SwitchClosed,
       StartFailed, CloseReturns, Publish, Done, Refused, Answers, Goes, AfterClose
  <2>3. held' = held \/ \E y : held' = [held EXCEPT ![c] = y]
    BY <1>4 DEF Respond, ReadOnly, DoStatus, ReadActive, GetKey, AlreadyConnected, NotConnected, Mark,
       NothingToClose, KeyStep, CheckRemove, DoRemove, DoRename, SyncSessKey, DoAdd, DoUse, SwitchClosed,
       StartFailed, CloseReturns, Publish, Release
  <2>4. \A d \in Conns \ {c} : held'[d] = held[d]
    BY <1>1, <2>3 DEF ControlTypeOK
  <2> QED BY <1>2, <1>3, <2>1, <2>2, <2>4
<1>5. ASSUME NEW s \in Sessions, NEW x, NEW y, UNCHANGED <<hostVars, original, script>>,
             at' = [at EXCEPT ![c] = x], held' = [held EXCEPT ![c] = s],
             pc' = [pc EXCEPT ![s] = y], y # "closed"
      PROVE  OkInv'
  <2>1. /\ \A d \in Conns : /\ at'[d] = IF d = c THEN x ELSE at[d]
                            /\ held'[d] = IF d = c THEN s ELSE held[d]
        /\ \A t \in Sessions : pc'[t] = IF t = s THEN y ELSE pc[t]
    BY <1>1, <1>5 DEF ControlTypeOK
  <2>2. ASSUME NEW d \in Conns, at'[d] \in {"switching", "closing"}, pc'[held'[d]] = "closed"
        PROVE  at[d] \in {"switching", "closing"} /\ pc[held[d]] = "closed"
    <3>1. d # c
      BY <1>5, <2>1, <2>2
    <3>2. at[d] \in Holding /\ held[d] \in Sessions
      BY <2>1, <2>2, <3>1 DEF OwnerInv, OwnerAt, ControlTypeOK, Holding
    <3> QED BY <1>5, <2>1, <2>2, <3>1, <3>2
  <2> QED BY <1>5, <2>2, ElsewhereOk
<1>6. CASE SwitchKey(c) \/ TakeToClose(c)
  BY <1>1, <1>5, <1>6 DEF SwitchKey, TakeToClose, Take, Goes, ControlTypeOK, panicVars, lifeVars
<1>7. ASSUME NEW s \in Sessions, BuildSession(c, s) PROVE OkInv'
  BY <1>5, <1>7 DEF BuildSession, Goes, panicVars
<1>8. CASE UndoStandalone(c) \/ StandaloneReturns(c)
  <2>1. /\ UNCHANGED <<held, hostVars, original, pc>>
        /\ \E x \in {"undoing", "answered"} : at' = [at EXCEPT ![c] = x]
        /\ \E y \in {"check", "idle"} : script' = [script EXCEPT ![Standalone] = y]
    BY <1>8 DEF UndoStandalone, StandaloneReturns, Answers, Goes, Launch, Reap, lifeVars, sessionVars
  <2>2. \A r \in Runners : script'[r] = "exit0" => script[r] = "exit0"
    BY <1>1, <2>1
  <2> QED BY <1>2, <2>1, <2>2
<1> QED BY <1>4, <1>6, <1>7, <1>8 DEF Handle, ConnectStep, CloseStep

\* With one command in flight at a time, one session moves, the one that is waited for;
LEMMA OneMoves ==
    ASSUME Exclusive, OwnerInv, RequestInv, OneCommandInv, NEW s \in Sessions, Busy(s)
    PROVE  /\ \A t \in Sessions : Busy(t) => t = s
           /\ \A c \in Conns : at[c] \in Commanding => held[c] = s
<1>1. ASSUME NEW c \in Conns, at[c] \in Commanding PROVE held[c] = s
  <2>1. PICK d \in Conns : held[d] = s
    BY <1>1, CommandMethod, HandlerMeansProcess
  <2>2. at[d] \in Commanding
    BY <2>1, NoSessionAssumption DEF OwnerInv, OwnerAt, Commanding
  <2> QED BY <1>1, <2>1, <2>2, OnlyCommand
<1>2. ASSUME NEW t \in Sessions, Busy(t) PROVE t = s
  <2>1. CASE Owners(s) = {} /\ Owners(t) = {}
    BY <1>2, <2>1 DEF OneCommandInv, Left
  <2>2. CASE \E c \in Conns : held[c] \in {s, t}
    <3>1. PICK c \in Conns : held[c] \in {s, t}
      BY <2>2
    <3>2. at[c] \in Commanding
      BY <3>1, NoSessionAssumption DEF OwnerInv, OwnerAt, Commanding
    <3>3. PICK d \in Conns : held[d] = t
      BY <1>2, <3>2, CommandMethod, HandlerMeansProcess
    <3>4. at[d] \in Commanding
      BY <3>3, NoSessionAssumption DEF OwnerInv, OwnerAt, Commanding
    <3> QED BY <1>1, <3>3, <3>4
  <2> QED BY <2>1, <2>2 DEF Owners
<1> QED BY <1>1, <1>2

\* and one script runs or is waited for, beside no session but its own.
LEMMA OneRuns ==
    ASSUME Exclusive, OwnerInv, RequestInv, OneCommandInv, NEW r \in Runners, script[r] # "idle"
    PROVE  /\ \A s \in Sessions : Busy(s) => r = s /\ pc[s] \in Reverting
           /\ \A q \in Runners : script[q] # "idle" => q = r
<1>1. ASSUME NEW q \in Runners, script[q] # "idle", NEW s \in Sessions, Busy(s)
      PROVE  q = s /\ pc[s] \in Reverting
  <2>1. daemon # "stop_post"
    BY <1>1 DEF OwnerInv, Busy
  <2>2. ~\E c \in Conns : at[c] = "undoing"
    <3> SUFFICES ASSUME NEW c \in Conns, at[c] = "undoing" PROVE FALSE
      OBVIOUS
    <3>1. held[c] = s
      BY <1>1, OneMoves DEF Commanding
    <3> QED BY <3>1, NoSessionAssumption DEF OwnerInv, OwnerAt, Holding
  <2>3. q \in Sessions /\ pc[q] \in Reverting
    BY <1>1, <2>1, <2>2 DEF OneCommandInv, Awaited
  <2>4. Busy(q)
    BY <2>3 DEF Busy, Reverting, Over
  <2> QED BY <1>1, <2>3, <2>4, OneMoves
<1>2. ASSUME NEW q \in Runners, script[q] # "idle" PROVE q = r
  <2>1. CASE q \in Sessions /\ pc[q] \in Reverting
    <3>1. Busy(q)
      BY <2>1 DEF Busy, Reverting, Over
    <3> QED BY <1>1, <2>1, <3>1
  <2>2. CASE r \in Sessions /\ pc[r] \in Reverting
    <3>1. Busy(r)
      BY <2>2 DEF Busy, Reverting, Over
    <3> QED BY <1>1, <1>2, <2>2, <3>1
  <2>3. CASE q \in {Standalone, StopPost} /\ r \in {Standalone, StopPost}
    <3>1. (\E c \in Conns : at[c] = "undoing") => daemon # "stop_post"
      BY HandlerMeansProcess DEF Handled
    <3> QED BY <1>2, <2>3, <3>1, RunnerAssumption DEF OneCommandInv, Awaited
  <2> QED BY <1>2, <2>1, <2>2, <2>3 DEF OneCommandInv, Awaited
<1> QED BY <1>1, <1>2

\* A session's steps.
LEMMA SessionOk ==
    ASSUME Exclusive, OwnerInv, RequestInv, OneCommandInv, IndInv, OkInv,
           NEW s \in Sessions, SessionRuns(s) \/ SessionFails(s), UNCHANGED <<session, at, held>>
    PROVE  OkInv'
<1>1. /\ ControlTypeOK /\ script \in [Runners -> Commands \cup Exits \cup {"idle"}] /\ s \in Runners
      /\ pc \in [Sessions -> Starting \cup Stopping \cup Reverting \cup Over \cup {"up"}]
  BY DEF OwnerInv, OneCommandInv, Runners, ControlTypeOK
<1>2. PICK p : /\ pc' = [pc EXCEPT ![s] = p]
               /\ \/ pc[s] \in Starting /\ p \in Starting \cup {"up", "cleanup", "failed"}
                  \/ pc[s] = "cleanup" /\ p \in {"cleanup_panic", "failed"}
                  \/ pc[s] = "cleanup_panic" /\ p = "failed"
                  \/ pc[s] = "closing" /\ p \in {"close_panic", "close_failed"}
                  \/ pc[s] = "close_panic" /\ p \in {"closed", "close_failed"}
  BY <1>1, SessionMoves
<1>3. Busy(s) /\ \A t \in Sessions : pc'[t] = IF t = s THEN p ELSE pc[t]
  BY <1>1, <1>2 DEF Busy, Over, Starting, Preparing, Mutating
<1>4. ASSUME NEW r \in Runners, script'[r] = "exit0" PROVE FALSE
  <2>1. script[r] = "exit0" /\ (pc[s] \in Reverting => r # s)
    BY <1>1, <1>3, <1>4, SessionReach, <1>2 DEF Reverting, Starting, Preparing, Mutating
  <2>2. r = s /\ pc[s] \in Reverting
    BY <1>3, <2>1, OneRuns
  <2> QED BY <2>1, <2>2
<1>5. ASSUME NEW c \in Conns, at'[c] \in {"switching", "closing"}, pc'[held'[c]] = "closed"
      PROVE  HostState' = OriginalState'
  <2>1. held[c] = s
    BY <1>3, <1>5, OneMoves DEF Commanding, Holding
  <2>2. p = "closed" /\ pc[s] = "close_panic"
    BY <1>2, <1>3, <1>5, <2>1 DEF Starting, Preparing, Mutating
  <2>3. RevertEnds(s)
    BY <1>2, <2>2 DEF SessionRuns, SessionFails, SessionStep, SessionFailure, StartStep, CheckSnapshot,
       RecordResolvConf, RecordSysctl, CheckTun, PersistPreState, DisableIPv6, LogSysctlSet, BuildDevice,
       CreateTun, LogTunCreate, UnlinkSymlink, LogResolvIntent, WriteResolvTmp, RenameResolv,
       LogResolvDone, LogIntent, AddRouteOrRule, LogAdded, StartFails, RevertStarts, RevertCannotStart,
       Advance, Starting, Preparing, Mutating, Stopping
  <2>4. script[s] = "exit0" /\ UNCHANGED <<hostVars, original>>
    BY <1>1, <1>3, <2>2, <2>3, SessionMoves DEF RevertEnds, lifeVars
  <2>5. HostState' = HostState /\ OriginalState' = OriginalState
    BY <2>4 DEF HostState, OriginalState, hostVars
  <2> QED BY <1>1, <2>4, <2>5 DEF OkInv
<1> QED BY <1>4, <1>5 DEF OkInv

\* A script's steps.
LEMMA ScriptStepOk ==
    ASSUME Exclusive, OwnerInv, RequestInv, OneCommandInv, IndInv, OkInv,
           NEW r \in Runners, ScriptRuns(r) \/ ScriptFails(r), UNCHANGED <<session, at, held>>
    PROVE  OkInv'
<1>1. /\ script[r] # "idle" /\ pc' = pc
      /\ \A q \in Runners : q # r => script'[q] = script[q]
  BY ScriptReach DEF OneCommandInv, Commands
<1>2. ASSUME NEW q \in Runners, script'[q] = "exit0" PROVE q = r
  BY <1>1, <1>2, OneRuns
<1>3. ASSUME NEW c \in Conns, at[c] \in {"switching", "closing"}, pc[held[c]] = "closed" PROVE FALSE
  <2>1. daemon \in {"running", "stopping"}
    BY <1>3, HandlerMeansProcess DEF Handled
  <2>2. \A d \in Conns : at[d] # "undoing"
    BY <1>3, OnlyCommand DEF Commanding, Holding
  <2>3. r \in Sessions /\ pc[r] \in Reverting
    BY <1>1, <2>1, <2>2 DEF OneCommandInv, Awaited
  <2>4. held[c] = r
    BY <1>3, <2>3, OneMoves DEF Busy, Reverting, Over, Commanding, Holding
  <2> QED BY <1>3, <2>3, <2>4 DEF Reverting
<1> QED BY <1>1, <1>2, <1>3, ScriptOk DEF OkInv

\* Every step.
LEMMA NextOk ==
    ASSUME Exclusive, OwnerInv, RequestInv, OneCommandInv, IndInv, OkInv, [ServerNext]_allVars
    PROVE  OkInv'
<1>1. CASE \E c \in Conns : Handle(c)
  BY <1>1, HandleOk
<1>2. ASSUME NEW c \in Conns, NEW r \in Requests, Accept(c, r) PROVE OkInv'
  <2>1. /\ at' = [at EXCEPT ![c] = Dispatch(r)] /\ at[c] = "idle"
        /\ UNCHANGED <<hostVars, original, script, pc, held>>
    BY <1>2 DEF Accept, vars, sessionVars, lifeVars, panicVars
  <2>2. Dispatch(r) \notin {"switching", "closing"}
    <3>1. r.method \in {"remove", "use", "rename", "add", "list", "connect", "disconnect", "undo",
                        "status", "ping"}
      BY DEF Requests, KeyRequests, SessionRequests
    <3> QED BY <3>1 DEF Dispatch
  <2>3. \A d \in Conns : at'[d] = IF d = c THEN Dispatch(r) ELSE at[d]
    BY <2>1 DEF OwnerInv, ControlTypeOK
  <2> QED BY <2>1, <2>2, <2>3, ElsewhereOk
<1>3. CASE \E s \in Sessions : SessionActs(s) \/ SessionErrs(s)
  BY <1>3, SessionOk DEF SessionActs, SessionErrs, serverVars, connVars
<1>4. CASE \E r \in Runners : ScriptActs(r) \/ ScriptErrs(r)
  BY <1>4, ScriptStepOk DEF ScriptActs, ScriptErrs, serverVars, connVars
<1>5. CASE SigTerm \/ ServerStarts
  <2>1. UNCHANGED <<hostVars, original, pc, at, held>>
    BY <1>5 DEF SigTerm, ServerStarts, StartDaemon, serverVars, connVars, sessionVars
  <2>2. \A r \in Runners : script'[r] = "exit0" => script[r] = "exit0"
    BY <1>5 DEF SigTerm, ServerStarts, StartDaemon, KillScripts, panicVars
  <2> QED BY <2>1, <2>2, ElsewhereOk
<1>6. CASE ShutdownTakes \/ ServerExit
  <2>1. UNCHANGED <<hostVars, original, script, at>> /\ NoHandlers
    BY <1>6, StopStep DEF Shutdown, Exit, ShutdownTakes, ServerExit, connVars, lifeVars, panicVars
  <2> QED BY <2>1, ElsewhereOk DEF NoHandlers, Handled
<1>7. CASE ServerCrash
  <2>1. /\ daemon # "stop_post"
        /\ script' = [r \in Runners |-> IF r \in Sessions \cup {Standalone} THEN "idle" ELSE script[r]]
        /\ at' = [c \in Conns |-> IF Handled(c) THEN AfterClose ELSE at[c]]
    BY <1>7 DEF ServerCrash, Crash, ProcessesDie
  <2>2. \A r \in Runners : script'[r] = "idle"
    BY <2>1, NoManual DEF Runners
  <2>3. \A c \in Conns : at'[c] \in {"idle", "over"}
    BY <2>1 DEF Handled, AfterClose
  <2> QED BY <2>2, <2>3 DEF OkInv
<1>8. CASE StopPostRuns \/ StopPostDone
  <2>1. /\ UNCHANGED <<hostVars, original, pc, at, held>>
        /\ \E y \in {"check", "idle"} : script' = [script EXCEPT ![StopPost] = y]
    BY <1>8 DEF StopPostRuns, StopPostDone, StopPostEnds, Launch, Reap, serverVars, connVars, sessionVars
  <2>2. \A r \in Runners : script'[r] = "exit0" => script[r] = "exit0"
    BY <2>1 DEF OneCommandInv
  <2> QED BY <2>1, <2>2, ElsewhereOk
<1>9. CASE FallbackStarts \/ FallbackEnds
  BY <1>9, NoManual DEF FallbackStarts, FallbackEnds, ManualEnds, Reap, Exits, Exclusive
<1>10. CASE UNCHANGED allVars
  BY <1>10, ElsewhereOk DEF allVars, vars, serverVars, connVars, sessionVars, lifeVars, panicVars
<1> QED BY <1>1, <1>2, <1>3, <1>4, <1>5, <1>6, <1>7, <1>8, <1>9, <1>10 DEF ServerNext

\* As long as the success of a script or of a Close has not been reported, the host is
\* what it was.
THEOREM OkStays == ASSUME Exclusive, SafeConfig PROVE ServerSpec => []OkInv
<1>1. ServerInit => OkInv
  BY DEF ServerInit, Init, PanicInit, OkInv
<1>2. OwnerInv /\ RequestInv /\ OneCommandInv /\ IndInv /\ OkInv /\ [ServerNext]_allVars => OkInv'
  BY NextOk
<1>3. ConnectsApart
  BY ExclusiveApart
<1> QED BY <1>1, <1>2, <1>3, Owned, RequestsInOrder, OneCommand, ServerInvariance, PTL DEF ServerSpec

\* Who answers "ok": a request to disconnect or to undo, when its Close or its script
\* has succeeded.
LEMMA OkAnswer ==
    ASSUME OwnerInv, RequestInv, OneCommandInv, NEW c \in Conns,
           req[c].method \in {"disconnect", "undo"}, resp[c] = "none", resp'[c] = "ok",
           [ServerNext]_allVars
    PROVE  \/ at[c] \in {"switching", "closing"} /\ pc[held[c]] = "closed"
           \/ script[Standalone] = "exit0"
<1>1. resp \in [Conns -> Responses] /\ RequestAt(c)
  BY DEF RequestInv, ServerTypeOK
<1>2. \E d \in Conns : Handle(d)
  BY <1>1 DEF ServerNext, Accept, SessionActs, SessionErrs, ScriptActs, ScriptErrs, SigTerm,
     ShutdownTakes, ServerExit, ServerCrash, StopPostRuns, StopPostDone, ServerStarts, FallbackStarts,
     FallbackEnds, allVars, serverVars, connVars
<1>3. PICK d \in Conns : Handle(d)
  BY <1>2
<1>4. resp' = resp \/ \E x : resp' = [resp EXCEPT ![d] = x]
  BY <1>3 DEF Handle, ConnectStep, CloseStep, KeyStep, Respond, ReadOnly, DoStatus, ReadActive, GetKey,
     AlreadyConnected, NotConnected, Mark, NothingToClose, CheckRemove, DoRemove, DoRename, SyncSessKey,
     DoAdd, DoUse, SwitchClosed, StartFailed, CloseReturns, Publish, SwitchKey, TakeToClose,
     BuildSession, UndoStandalone, StandaloneReturns, Done, Refused, Answers
<1>5. d = c /\ Handle(c)
  BY <1>1, <1>3, <1>4
<1>6. at[c] \notin {"read", "status", "add", "use", "check", "remove", "rename", "sync", "active", "get"}
                     \cup Connecting
  BY <1>1 DEF RequestAt
<1>7. Respond(c) \/ CloseStep(c)
  BY <1>5, <1>6 DEF Handle, ConnectStep, KeyStep, ReadOnly, DoStatus, ReadActive, GetKey,
     AlreadyConnected, NotConnected, Mark, CheckRemove, DoRemove, DoRename, SyncSessKey, DoAdd, DoUse,
     SwitchClosed, StartFailed, Publish, SwitchKey, BuildSession, Answers, Goes, Connecting
<1>8. CASE CloseReturns(c)
  BY <1>1, <1>8 DEF CloseReturns, Answers
<1>9. CASE StandaloneReturns(c)
  BY <1>1, <1>9 DEF StandaloneReturns, Answers
<1>10. CASE Respond(c) \/ TakeToClose(c) \/ NothingToClose(c) \/ UndoStandalone(c)
  BY <1>1, <1>10 DEF Respond, TakeToClose, NothingToClose, UndoStandalone, Answers
<1> QED BY <1>7, <1>8, <1>9, <1>10 DEF CloseStep

\* "disconnected; host state reverted" is only ever said of a reverted host.
THEOREM OkReverted == ASSUME Exclusive, SafeConfig PROVE ServerSpec => OkMeansReverted
<1>1. OwnerInv /\ RequestInv /\ OneCommandInv /\ OkInv /\ [ServerNext]_allVars =>
          [\A c \in Conns :
              req[c].method \in {"disconnect", "undo"} /\ resp[c] = "none" /\ resp'[c] = "ok" =>
                  HostState = OriginalState]_allVars
  <2> SUFFICES ASSUME OwnerInv, RequestInv, OneCommandInv, OkInv, [ServerNext]_allVars, NEW c \in Conns,
                      req[c].method \in {"disconnect", "undo"}, resp[c] = "none", resp'[c] = "ok"
               PROVE  HostState = OriginalState
    OBVIOUS
  <2> QED BY OkAnswer DEF OkInv, Runners
<1>2. ConnectsApart
  BY ExclusiveApart
<1> QED BY <1>1, <1>2, Owned, RequestsInOrder, OneCommand, OkStays, PTL DEF ServerSpec, OkMeansReverted

-----------------------------------------------------------------------------
(***************************************************************************)
(* Refinement: the Lifecycle that the Server implements.                   *)
(***************************************************************************)

\* daemon, as Lifecycle sees it.
Shown == IF daemon = "stopping" /\ ~NoHandlers THEN "signalled" ELSE daemon

\* The two copies of the definitions that do not mention the daemon agree.
LEMMA SameSets ==
    /\ L!Runners = Runners /\ L!NewWriter = NewWriter /\ L!Originals = Originals
    /\ L!Starting = Starting /\ L!Preparing = Preparing /\ L!Stopping = Stopping
    /\ L!Reverting = Reverting /\ L!Over = Over /\ L!Exits = Exits /\ L!Commands = Commands
    /\ L!NothingRead = NothingRead
    /\ L!AbsentFile = AbsentFile /\ L!LastAction = LastAction /\ L!FirstBypass = FirstBypass
BY DEF L!Runners, Runners, L!NewWriter, NewWriter, L!Originals, Originals, L!ForeignResolvFiles,
   ForeignResolvFiles, L!AbsentFile, AbsentFile, L!RegularFile, RegularFile, L!Symlink, Symlink,
   L!Starting, Starting, L!Preparing, Preparing, L!Mutating, Mutating, L!Stopping, Stopping,
   L!Reverting, Reverting, L!Over, Over, L!Exits, Exits, L!Commands, Commands, L!LastAction,
   LastAction, L!Catchall, Catchall, L!FirstBypass, FirstBypass, L!NothingRead, NothingRead

LEMMA SameStart ==
    ASSUME NEW s \in Sessions, StartStep(s)
    PROVE  L!StartStep(s)
<1> USE SameSets DEF Advance, L!Advance, SetWriter, L!SetWriter, Persist, L!Persist, panicVars,
    L!panicVars, hostVars, L!hostVars
<1>1. CheckSnapshot(s) => L!CheckSnapshot(s)
  BY DEF CheckSnapshot, L!CheckSnapshot
<1>2. RecordResolvConf(s) => L!RecordResolvConf(s)
  BY DEF RecordResolvConf, L!RecordResolvConf
<1>3. RecordSysctl(s) => L!RecordSysctl(s)
  BY DEF RecordSysctl, L!RecordSysctl
<1>4. CheckTun(s) => L!CheckTun(s)
  BY DEF CheckTun, L!CheckTun
<1>5. PersistPreState(s) => L!PersistPreState(s)
  BY DEF PersistPreState, L!PersistPreState
<1>6. DisableIPv6(s) => L!DisableIPv6(s)
  BY DEF DisableIPv6, L!DisableIPv6
<1>7. ASSUME NEW d, AppendAndPersist(s, d) PROVE L!AppendAndPersist(s, d)
  BY <1>7 DEF AppendAndPersist, L!AppendAndPersist, AppendAction, L!AppendAction
<1>8. MarkAndPersist(s) => L!MarkAndPersist(s)
  BY DEF MarkAndPersist, L!MarkAndPersist, MarkLastDone, L!MarkLastDone
<1>9. LogSysctlSet(s) => L!LogSysctlSet(s)
  BY <1>7 DEF LogSysctlSet, L!LogSysctlSet
<1>10. BuildDevice(s) => L!BuildDevice(s)
  BY DEF BuildDevice, L!BuildDevice
<1>11. CreateTun(s) => L!CreateTun(s)
  BY DEF CreateTun, L!CreateTun
<1>12. LogTunCreate(s) => L!LogTunCreate(s)
  BY <1>7 DEF LogTunCreate, L!LogTunCreate
<1>13. UnlinkSymlink(s) => L!UnlinkSymlink(s)
  BY DEF UnlinkSymlink, L!UnlinkSymlink
<1>14. LogResolvIntent(s) => L!LogResolvIntent(s)
  BY <1>7 DEF LogResolvIntent, L!LogResolvIntent
<1>15. WriteResolvTmp(s) => L!WriteResolvTmp(s)
  BY DEF WriteResolvTmp, L!WriteResolvTmp
<1>16. RenameResolv(s) => L!RenameResolv(s)
  BY DEF RenameResolv, L!RenameResolv, RegularFile, L!RegularFile
<1>17. LogResolvDone(s) => L!LogResolvDone(s)
  BY <1>8 DEF LogResolvDone, L!LogResolvDone
<1>18. LogIntent(s) => L!LogIntent(s)
  BY <1>7 DEF LogIntent, L!LogIntent
<1>19. AddRouteOrRule(s) => L!AddRouteOrRule(s)
  BY DEF AddRouteOrRule, L!AddRouteOrRule, Addable, L!Addable, Refusable, L!Refusable, Prio, L!Prio, Catchall, L!Catchall
<1>20. LogAdded(s) => L!LogAdded(s)
  BY <1>8 DEF LogAdded, L!LogAdded
<1> QED BY <1>1, <1>2, <1>3, <1>4, <1>5, <1>6, <1>9, <1>10, <1>11, <1>12, <1>13, <1>14, <1>15, <1>16,
        <1>17, <1>18, <1>19, <1>20 DEF StartStep, L!StartStep

LEMMA SameSession ==
    ASSUME NEW s \in Sessions, SessionRuns(s) \/ SessionFails(s), Shown' = Shown
    PROVE  L!SessionRuns(s) \/ L!SessionFails(s)
<1> USE SameSets DEF panicVars, L!panicVars, hostVars, L!hostVars, Fault, L!Fault, CloseTun, L!CloseTun
<1>1. StartFails(s) => L!StartFails(s)
  BY DEF StartFails, L!StartFails
<1>2. RevertStarts(s) => L!RevertStarts(s)
  BY DEF RevertStarts, L!RevertStarts, Launch, L!Launch
<1>3. RevertCannotStart(s) => L!RevertCannotStart(s)
  BY DEF RevertCannotStart, L!RevertCannotStart
<1>4. RevertEnds(s) => L!RevertEnds(s)
  BY DEF RevertEnds, L!RevertEnds, Reap, L!Reap
<1>5. UNCHANGED lifeVars => L!lifeVars' = L!lifeVars
  BY DEF lifeVars, L!lifeVars, Shown
<1> QED BY <1>1, <1>2, <1>3, <1>4, <1>5, SameStart DEF SessionRuns, SessionFails, SessionStep,
        SessionFailure, L!SessionRuns, L!SessionFails, L!SessionStep, L!SessionFailure

LEMMA SameScript ==
    ASSUME NEW r \in Runners, ScriptRuns(r) \/ ScriptFails(r), Shown' = Shown
    PROVE  L!ScriptRuns(r) \/ L!ScriptFails(r)
<1> USE SameSets DEF hostVars, L!hostVars, Fault, L!Fault, Goto, L!Goto, SetFailed, L!SetFailed,
    SoftFault, L!SoftFault
<1>1. Check(r) => L!Check(r)
  BY DEF Check, L!Check
<1>2. Parse(r) => L!Parse(r)
  BY DEF Parse, L!Parse
<1>3. CountSysctls(r) => L!CountSysctls(r)
  BY DEF CountSysctls, L!CountSysctls
<1>4. ReadSysctl(r) => L!ReadSysctl(r)
  BY DEF ReadSysctl, L!ReadSysctl
<1>5. WriteSysctl(r) => L!WriteSysctl(r)
  BY DEF WriteSysctl, L!WriteSysctl
<1>6. DeleteCatchall(r) => L!DeleteCatchall(r)
  BY DEF DeleteCatchall, L!DeleteCatchall
<1>7. CountRules(r) => L!CountRules(r)
  BY DEF CountRules, L!CountRules, RuleCount, L!RuleCount
<1>8. DeleteRule(r) => L!DeleteRule(r)
  BY DEF DeleteRule, L!DeleteRule, Prio, L!Prio, Catchall, L!Catchall
<1>9. RulesDeleted(r) => L!RulesDeleted(r)
  BY DEF RulesDeleted, L!RulesDeleted
<1>10. FlushRoutes(r) => L!FlushRoutes(r)
  BY DEF FlushRoutes, L!FlushRoutes
<1>11. ShowTun(r) => L!ShowTun(r)
  BY DEF ShowTun, L!ShowTun
<1>12. DeleteTun(r) => L!DeleteTun(r)
  BY DEF DeleteTun, L!DeleteTun, RemoveTun, L!RemoveTun
<1>13. ReadExisted(r) => L!ReadExisted(r)
  BY DEF ReadExisted, L!ReadExisted
<1>14. ReadKind(r) => L!ReadKind(r)
  BY DEF ReadKind, L!ReadKind
<1>15. ReadDetail(r) => L!ReadDetail(r)
  BY DEF ReadDetail, L!ReadDetail
<1>16. VerifyBackup(r) => L!VerifyBackup(r)
  BY DEF VerifyBackup, L!VerifyBackup, Verifies, L!Verifies, Mismatches, L!Mismatches
<1>17. RemoveResolv(r) => L!RemoveResolv(r)
  BY DEF RemoveResolv, L!RemoveResolv
<1>18. PutResolv(r) => L!PutResolv(r)
  BY DEF PutResolv, L!PutResolv, Symlink, L!Symlink, RegularFile, L!RegularFile, Texts, L!Texts
<1>19. NoTarget(r) => L!NoTarget(r)
  BY DEF NoTarget, L!NoTarget, Forget, L!Forget
<1>20. Retire(r) => L!Retire(r)
  BY DEF Retire, L!Retire, Forget, L!Forget
<1>21. Die(r) => L!Die(r)
  BY DEF Die, L!Die
<1>22. Killed(r) => L!Killed(r)
  BY DEF Killed, L!Killed, Running, L!Running, Forget, L!Forget
<1>23. UNCHANGED <<sessionVars, lifeVars>> => UNCHANGED <<L!sessionVars, L!lifeVars>>
  BY DEF sessionVars, L!sessionVars, lifeVars, L!lifeVars, Shown
<1>24. Command(r) => L!Command(r)
  BY <1>1, <1>2, <1>3, <1>4, <1>5, <1>6, <1>7, <1>8, <1>9, <1>10,
     <1>11, <1>12, <1>13, <1>14, <1>15, <1>16, <1>17, <1>18, <1>19, <1>20 DEF Command, L!Command
<1> QED BY <1>21, <1>22, <1>23, <1>24 DEF ScriptRuns, ScriptFails, L!ScriptRuns, L!ScriptFails

\* The client's commands.
LEMMA SameCommand ==
    ASSUME Shown \in {"running", "signalled"}, Shown' = Shown
    PROVE  /\ \A s \in Sessions : Idle /\ ~Connected /\ Starts(s) => L!Connect(s)
           /\ \A s \in Sessions : Idle /\ Closes(s) => L!Disconnect(s)
           /\ Undoes => L!Undo
           /\ UndoEnds => L!UndoEnds
<1> USE SameSets DEF Idle, L!Idle, Busy, L!Busy, Connected, L!Connected, panicVars, L!panicVars, hostVars,
    L!hostVars, sessionVars, L!sessionVars, lifeVars, L!lifeVars, Shown, L!Serving
<1>1. ASSUME NEW s \in Sessions, Idle, ~Connected, Starts(s) PROVE L!Connect(s)
  BY <1>1 DEF Starts, L!Connect
<1>2. ASSUME NEW s \in Sessions, Idle, Closes(s) PROVE L!Disconnect(s)
  BY <1>2 DEF Closes, L!Disconnect, Advance, L!Advance
<1>3. Undoes => L!Undo
  BY DEF Undoes, L!Undo, Launch, L!Launch
<1>4. UndoEnds => L!UndoEnds
  BY DEF UndoEnds, L!UndoEnds, Reap, L!Reap
<1> QED BY <1>1, <1>2, <1>3, <1>4

\* The service's steps, when no handler is left.
LEMMA SameService ==
    ASSUME Shown = daemon, Shown' = daemon'
    PROVE  /\ \A s \in Sessions : Shutdown(s) => L!Shutdown(s)
           /\ Exit => L!Exit
           /\ StopPostStarts => L!StopPostStarts
           /\ StopPostEnds => L!StopPostEnds
           /\ StartDaemon => L!StartDaemon
<1> USE SameSets DEF Idle, L!Idle, Busy, L!Busy, Connected, L!Connected, panicVars, L!panicVars, hostVars,
    L!hostVars, sessionVars, L!sessionVars, lifeVars, L!lifeVars, Shown
<1>1. ASSUME NEW s \in Sessions, Shutdown(s) PROVE L!Shutdown(s)
  BY <1>1 DEF Shutdown, L!Shutdown, Advance, L!Advance
<1>2. Exit => L!Exit
  BY DEF Exit, L!Exit
<1>3. StopPostStarts => L!StopPostStarts
  BY DEF StopPostStarts, L!StopPostStarts, Launch, L!Launch
<1>4. StopPostEnds => L!StopPostEnds
  BY DEF StopPostEnds, L!StopPostEnds, Reap, L!Reap
<1>5. StartDaemon => L!StartDaemon
  BY DEF StartDaemon, L!StartDaemon
<1> QED BY <1>1, <1>2, <1>3, <1>4, <1>5

\* A crash is a crash.
LEMMA SameCrash ==
    ASSUME Crash
    PROVE  L!Crash
<1>1. /\ Shown \in {"running", "signalled", "stopping"} /\ Shown' = "dead"
  BY DEF Crash, Shown
<1>2. ProcessesDie(Sessions \cup {Standalone}) => L!ProcessesDie(Sessions \cup {Standalone})
  BY SameSets DEF ProcessesDie, L!ProcessesDie
<1> QED BY <1>1, <1>2 DEF Crash, L!Crash, Fault, L!Fault, Shown

\* A step that touches nothing of Lifecycle but may be the last answer after SIGTERM.
LEMMA LastAnswer ==
    ASSUME UNCHANGED <<hostVars, panicVars, sessionVars, original, meddled>>,
           Shown' = Shown \/ (Shown = "signalled" /\ Shown' = "stopping")
    PROVE  L!Drained \/ UNCHANGED L!vars
BY DEF L!Drained, L!vars, L!hostVars, L!panicVars, L!sessionVars, L!lifeVars, hostVars, panicVars,
   sessionVars, Shown

\* SIGTERM, with handlers in flight or without.
LEMMA SameSignal ==
    ASSUME SigTerm
    PROVE  L!Terminate
<1>1. Shown = "running" /\ Shown' \in {"signalled", "stopping"}
  BY DEF SigTerm, Shown
<1>2. KillScripts(Sessions \cup {Standalone}) => L!KillScripts(Sessions \cup {Standalone})
  BY SameSets DEF KillScripts, L!KillScripts, Running, L!Running
<1> QED BY <1>1, <1>2 DEF SigTerm, L!Terminate, panicVars, L!panicVars, sessionVars, L!sessionVars,
        hostVars, L!hostVars, Shown

\* Every step of the Server is a step of Lifecycle or invisible to it.
LEMMA NextRefines ==
    ASSUME Exclusive, OwnerInv, RequestInv, OneCommandInv, [ServerNext]_allVars
    PROVE  [L!Next]_(L!vars)
<1>1. ASSUME NEW c \in Conns, Handle(c) PROVE [L!Next]_(L!vars)
  <2>1. Handled(c)
    BY <1>1 DEF Handle, ConnectStep, CloseStep, KeyStep, Respond, ReadOnly, DoStatus, ReadActive, GetKey,
       AlreadyConnected, NotConnected, Mark, NothingToClose, CheckRemove, DoRemove, DoRename,
       SyncSessKey, DoAdd, DoUse, SwitchClosed, StartFailed, CloseReturns, Publish, SwitchKey,
       TakeToClose, BuildSession, UndoStandalone, StandaloneReturns, Answers, Goes, Handled
  <2>2. Shown \in {"running", "signalled"}
    BY <2>1, HandlerMeansProcess DEF Shown, NoHandlers
  <2>3. CASE UNCHANGED vars
    <3>1. Shown' = Shown \/ (Shown = "signalled" /\ Shown' = "stopping")
      BY <2>1, <2>3, HandlerMeansProcess DEF Shown, NoHandlers, vars, lifeVars
    <3>2. UNCHANGED <<hostVars, panicVars, sessionVars, original, meddled>>
      BY <2>3 DEF vars, lifeVars
    <3> QED BY <3>1, <3>2, LastAnswer DEF L!Next
  <2>4. at[c] \in {"build", "lock", "take"} =>
            Idle /\ (session = NoSession => ~Connected) /\ (at[c] = "build" => session = NoSession)
    BY OnlyCommand, CommandAlone DEF Commanding, Connecting, Holding, OneCommandInv, Alone
  <2>5. CASE /\ Handled(c)'
             /\ \/ at[c] = "build" /\ \E s \in Sessions : Starts(s)
                \/ at[c] \in {"lock", "take"} /\ \E s \in Sessions : Closes(s)
                \/ Undoes \/ UndoEnds
    <3>1. daemon' = daemon
      BY <2>5 DEF Starts, Closes, Undoes, UndoEnds, lifeVars
    <3>2. Shown' = Shown
      BY <2>1, <2>5, <3>1, HandlerMeansProcess DEF Shown, NoHandlers
    <3> QED BY <2>2, <2>4, <2>5, <3>2, SameCommand DEF L!Next
  <2> QED BY <1>1, <2>3, <2>5, ClientStep, ExclusiveApart
<1>2. CASE \E c \in Conns, r \in Requests : Accept(c, r)
  <2>1. UNCHANGED vars /\ daemon = "running"
    BY <1>2 DEF Accept
  <2>2. Shown' = Shown /\ UNCHANGED <<hostVars, panicVars, sessionVars, original, meddled>>
    BY <2>1 DEF Shown, vars, lifeVars
  <2> QED BY <2>2, LastAnswer DEF L!Next
<1>3. CASE \E s \in Sessions : SessionActs(s) \/ SessionErrs(s)
  <2>1. UNCHANGED <<at, daemon>>
    BY <1>3 DEF SessionActs, SessionErrs, SessionRuns, SessionFails, lifeVars, serverVars, connVars
  <2>2. Shown' = Shown
    BY <2>1 DEF Shown, NoHandlers, Handled
  <2> QED BY <1>3, <2>2, SameSession DEF SessionActs, SessionErrs, L!Next
<1>4. CASE \E r \in Runners : ScriptActs(r) \/ ScriptErrs(r)
  <2>1. UNCHANGED <<at, daemon>>
    BY <1>4 DEF ScriptActs, ScriptErrs, ScriptRuns, ScriptFails, lifeVars, serverVars, connVars
  <2>2. Shown' = Shown
    BY <2>1 DEF Shown, NoHandlers, Handled
  <2> QED BY <1>4, <2>2, SameScript, SameSets DEF ScriptActs, ScriptErrs, L!Next
<1>5. CASE SigTerm
  BY <1>5, SameSignal DEF L!Next
<1>6. CASE ShutdownTakes \/ ServerExit \/ StopPostRuns
  <2>1. NoHandlers /\ UNCHANGED at
    BY <1>6, StopStep DEF ShutdownTakes, ServerExit, StopPostRuns, serverVars, connVars
  <2>2. Shown = daemon /\ Shown' = daemon'
    BY <2>1 DEF Shown, NoHandlers, Handled
  <2> QED BY <1>6, <2>2, StopStep, SameService DEF L!Next
<1>7. CASE StopPostDone \/ ServerStarts
  <2>1. daemon \notin {"running", "stopping"} /\ daemon' # "stopping"
    BY <1>7 DEF StopPostDone, StopPostEnds, ServerStarts, StartDaemon
  <2>2. Shown = daemon /\ Shown' = daemon'
    BY <2>1 DEF Shown
  <2> QED BY <1>7, <2>2, SameService DEF StopPostDone, ServerStarts, L!Next
<1>8. CASE ServerCrash
  BY <1>8, SameCrash DEF ServerCrash, L!Next
<1>9. CASE FallbackStarts \/ FallbackEnds
  BY <1>9, NoManual DEF FallbackStarts, FallbackEnds, ManualEnds, Reap, Exits, Exclusive
<1>10. CASE UNCHANGED allVars
  <2>1. UNCHANGED <<hostVars, panicVars, sessionVars, original, meddled, daemon, at>>
    BY <1>10 DEF allVars, vars, serverVars, connVars, lifeVars
  <2>2. Shown' = Shown
    BY <2>1 DEF Shown, NoHandlers, Handled
  <2> QED BY <2>1, <2>2, LastAnswer DEF L!Next
<1> QED BY <1>1, <1>2, <1>3, <1>4, <1>5, <1>6, <1>7, <1>8, <1>9, <1>10 DEF ServerNext

\* If clients do not have connect, disconnect and undo in flight together, the daemon
\* with its concurrent handlers, switches, key requests, shutdown and crash implements
\* the serial Lifecycle.
THEOREM LifecycleRefined == ASSUME Exclusive PROVE ServerSpec => ImplementsLifecycle
<1>1. ServerInit => L!Init
  BY SameSets DEF ServerInit, Init, L!Init, PanicInit, L!PanicInit, SessionInit, L!SessionInit
<1>2. OwnerInv /\ RequestInv /\ OneCommandInv /\ [ServerNext]_allVars => [L!Next]_(L!vars)
  BY NextRefines
<1>3. ConnectsApart
  BY ExclusiveApart
<1> QED BY <1>1, <1>2, <1>3, Owned, RequestsInOrder, OneCommand, PTL DEF ServerSpec, ImplementsLifecycle, L!Spec
=============================================================================

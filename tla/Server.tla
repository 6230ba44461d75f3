------------------------------- MODULE Server -------------------------------
(***************************************************************************)
(* cmd/oufdee.Server: the daemon with all its requests at once.            *)
(*                                                                         *)
(* Every accepted connection has a goroutine of its own that reads one     *)
(* request, runs its handler and writes one response.  Handlers share the  *)
(* fields session and sessKey, guarded by Server.mu, and the keystore,     *)
(* guarded by its own mutex; neither mutex is held over Session.Start or   *)
(* Session.Close.  A section under a mutex is one step here, and so is     *)
(* everything between two sections that touches no shared state.  The      *)
(* steps of tun.Session, of ouf-panic, of the service and of the keystore  *)
(* are those of Session, OufPanic, Lifecycle and Keystore.                 *)
(***************************************************************************)
EXTENDS Lifecycle, Keystore

CONSTANTS
    Conns,        \* bound: connections open at the same time
    Reuse,        \* bound: does a connection that is closed make room for another?
    Methods,      \* bound: the methods that clients call
    Excluded,     \* pairs of methods that clients never have in flight together
    Timeouts,     \* may `ouf undo` give up and run ouf-panic itself?
    InitialFiles, \* keys.json as earlier daemons may have left it
    Store,        \* the keystore of this daemon
    NoSession,    \* a nil *tun.Session
    NoUrl         \* no URL

ASSUME StoreAssumption == Stores = {Store}

ASSUME NoSessionAssumption == NoSession \notin Sessions

ASSUME InitialFilesAssumption ==
    InitialFiles \subseteq
        {f \in FileState : IsFiniteSet(f.keys) /\ WellFormed(f) /\ ActiveStored(f)}

VARIABLES
    session,  \* Server.session
    sessKey,  \* Server.sessKey
    at,       \* next step of the handler of each connection
    req,      \* its request, and what the handler has read so far
    held,     \* its local variable sess or old
    resp,     \* its response
    via       \* Config.TransportURL of each session

connVars   == <<at, req, held, resp>>
serverVars == <<session, sessKey, connVars, via>>
allVars    == <<vars, keyVars, serverVars>>

\* What the commands of `ouf` send: a method, the name it is about, and in arg the
\* new name or the URL.
KeyRequests ==
    [method : {"remove", "use"}, name : Names, arg : {NoUrl}]
        \cup [method : {"rename"}, name : Names, arg : Names]
        \cup [method : {"add"}, name : Names, arg : Urls]
        \cup [method : {"list"}, name : {NoName}, arg : {NoUrl}]

SessionRequests ==
    [method : {"connect"}, name : Names \cup {NoName}, arg : {NoUrl}]
        \cup [method : {"disconnect", "undo", "status", "ping"}, name : {NoName}, arg : {NoUrl}]

Requests == KeyRequests \cup SessionRequests

NoRequest == [method |-> "none", name |-> NoName, arg |-> NoUrl]

Responses == {"none", "ok", "error", "dirty"}

\* The first step of a method's handler.
Dispatch(r) ==
    CASE r.method = "connect" -> IF r.name = NoName THEN "active" ELSE "get"
      [] r.method \in {"disconnect", "undo"} -> "take"
      [] r.method = "remove" -> "check"
      [] r.method \in {"list", "ping"} -> "read"
      [] OTHER -> r.method

Steps == {"idle", "active", "get", "lock", "switching", "build", "starting", "mark",
          "take", "closing", "undoing", "check", "remove", "rename", "sync", "add",
          "use", "status", "read", "answered", "over"}

ServerTypeOK ==
    /\ session \in Sessions \cup {NoSession}
    /\ sessKey \in Names \cup {NoName}
    /\ at \in [Conns -> Steps]
    /\ req \in [Conns -> [method : Methods \cup {"none"}, name : Names \cup {NoName},
                          arg : Names \cup Urls \cup {NoUrl}]]
    /\ held \in [Conns -> Sessions \cup {NoSession}]
    /\ resp \in [Conns -> Responses]
    /\ via \in [Sessions -> Urls \cup {NoUrl}]

\* Every variable of the daemon and of the components under it has its type.
AllTypeOK == TypeOK /\ KeyTypeOK /\ ServerTypeOK

ServerInit ==
    /\ Init
    /\ disk \in InitialFiles /\ mem = [st \in Stores |-> disk]
    /\ acked = disk.keys /\ doubt = {} /\ writeFaults = MaxWriteFaults
    /\ session = NoSession /\ sessKey = NoName
    /\ at = [c \in Conns |-> "idle"] /\ req = [c \in Conns |-> NoRequest]
    /\ held = [c \in Conns |-> NoSession] /\ resp = [c \in Conns |-> "none"]
    /\ via = [s \in Sessions |-> NoUrl]

-----------------------------------------------------------------------------
(***************************************************************************)
(* Connections.                                                            *)
(***************************************************************************)
Goes(c, from, to) == at[c] = from /\ at' = [at EXCEPT ![c] = to]

\* The handler returns response r.
Answers(c, from, r) == Goes(c, from, "answered") /\ resp' = [resp EXCEPT ![c] = r]

\* A goroutine handles connection c.
Handled(c) == at[c] \notin {"idle", "over"}

\* The place of a connection after it is closed.
AfterClose == IF Reuse THEN "idle" ELSE "over"

InFlight(m) == \E c \in Conns : Handled(c) /\ req[c].method = m

\* Nothing that excludes method m is in flight.  A second undo has no runner of
\* its own in OufPanic, so there is one at a time.
Admitted(m) ==
    /\ \A c \in Conns : Handled(c) => {m, req[c].method} \notin Excluded
    /\ script[Manual] # "idle" => {m, "undo"} \notin Excluded
    /\ m = "undo" => ~InFlight("undo")

\* Run accepts a connection and handle reads the request.
Accept(c, r) ==
    /\ daemon = "running" /\ at[c] = "idle"
    /\ r.method \in Methods /\ Admitted(r.method)
    /\ at' = [at EXCEPT ![c] = Dispatch(r)]
    /\ req' = [req EXCEPT ![c] = r]
    /\ UNCHANGED <<session, sessKey, held, resp, via, keyVars, vars>>

\* handle writes the response, or finds that the client has left or that its
\* deadline has passed, and closes the connection.
Respond(c) ==
    /\ Goes(c, "answered", AfterClose)
    /\ req' = [req EXCEPT ![c] = NoRequest]
    /\ resp' = [resp EXCEPT ![c] = "none"]
    /\ UNCHANGED <<session, sessKey, held, via, keyVars, vars>>

\* doList and ping change nothing.
ReadOnly(c) ==
    /\ Answers(c, "read", "ok")
    /\ UNCHANGED <<session, sessKey, req, held, via, keyVars, vars>>

\* doStatus: not connected while a snapshot exists is reported as a dirty exit.
DoStatus(c) ==
    /\ Answers(c, "status", IF session = NoSession /\ snapshot # NoSnapshot THEN "dirty" ELSE "ok")
    /\ UNCHANGED <<session, sessKey, req, held, via, keyVars, vars>>

-----------------------------------------------------------------------------
(***************************************************************************)
(* connect, disconnect and undo.                                           *)
(***************************************************************************)
Keys == mem[Store].keys

\* Without a name doConnect takes the active key ...
ReadActive(c) ==
    LET name == mem[Store].active IN
    /\ at[c] = "active"
    /\ IF name = NoName THEN Answers(c, "active", "error") /\ UNCHANGED req
       ELSE Goes(c, "active", "get") /\ req' = [req EXCEPT ![c].name = name] /\ UNCHANGED resp
    /\ UNCHANGED <<session, sessKey, held, via, keyVars, vars>>

\* ... and looks the key up.
GetKey(c) ==
    /\ at[c] = "get"
    /\ \/ \E k \in Keys :
            /\ k.name = req[c].name
            /\ Goes(c, "get", "lock") /\ req' = [req EXCEPT ![c].arg = k.url]
            /\ UNCHANGED resp
       \/ /\ req[c].name \notin NamesOf(Keys)
          /\ Answers(c, "get", "error") /\ UNCHANGED req
    /\ UNCHANGED <<session, sessKey, held, via, keyVars, vars>>

\* Mutant: the session is closed but stays published.
TakeUncleared(c) ==
    /\ session # NoSession
    /\ held' = [held EXCEPT ![c] = session]
    /\ pc' = [pc EXCEPT ![session] = "closing"]
    /\ UNCHANGED <<session, sessKey, via, writer, hostVars, panicVars, lifeVars>>

\* The handler takes the session out of the server, to close it.
Take(c) ==
    /\ session # NoSession
    /\ held' = [held EXCEPT ![c] = session]
    /\ session' = NoSession /\ sessKey' = NoName
    /\ pc' = [pc EXCEPT ![session] = "closing"]
    /\ UNCHANGED <<via, writer, hostVars, panicVars, lifeVars>>

\* Connected to the same key already: nothing to do.
AlreadyConnected(c) ==
    /\ session # NoSession /\ sessKey = req[c].name
    /\ Answers(c, "lock", "ok")
    /\ UNCHANGED <<session, sessKey, req, held, via, keyVars, vars>>

\* Connected to another key: the old session is closed first.
SwitchKey(c) ==
    /\ sessKey # req[c].name /\ Take(c)
    /\ Goes(c, "lock", "switching") /\ UNCHANGED <<req, resp, keyVars>>

NotConnected(c) ==
    /\ session = NoSession
    /\ Goes(c, "lock", "build")
    /\ UNCHANGED <<session, sessKey, req, held, resp, via, keyVars, vars>>

\* The handler drops its reference to the session it has closed or could not start.
Release(c) ==
    /\ held' = [held EXCEPT ![c] = NoSession]
    /\ via' = [via EXCEPT ![held[c]] = NoUrl]

\* old.Close has returned.
SwitchClosed(c) ==
    /\ at[c] = "switching" /\ Release(c)
    /\ \/ pc[held[c]] = "closed" /\ Goes(c, "switching", "build") /\ UNCHANGED resp
       \/ pc[held[c]] = "close_failed" /\ Answers(c, "switching", "error")
    /\ UNCHANGED <<session, sessKey, req, keyVars, vars>>

\* A Session object nobody refers to.
Unused(s) == pc[s] \in Over /\ session # s /\ \A c \in Conns : held[c] # s

\* tun.New and the call of Start.
BuildSession(c, s) ==
    /\ Unused(s) /\ Goes(c, "build", "starting")
    /\ held' = [held EXCEPT ![c] = s]
    /\ via' = [via EXCEPT ![s] = req[c].arg]
    /\ pc' = [pc EXCEPT ![s] = "start"]
    /\ writer' = [writer EXCEPT ![s] = NewWriter]
    /\ meddled' = FALSE
    /\ UNCHANGED <<session, sessKey, req, resp, keyVars, daemon, original, panicVars, hostVars>>

StartFailed(c) ==
    /\ at[c] = "starting" /\ pc[held[c]] = "failed"
    /\ Release(c) /\ Answers(c, "starting", "error")
    /\ UNCHANGED <<session, sessKey, req, keyVars, vars>>

\* Mutant: the session is published before Start has returned.
PublishEarly(c) ==
    /\ at[c] = "starting" /\ pc[held[c]] \in Starting \cup {"up"}
    /\ session' = held[c] /\ sessKey' = req[c].name
    /\ held' = [held EXCEPT ![c] = NoSession]
    /\ Goes(c, "starting", "mark")
    /\ UNCHANGED <<req, resp, via, keyVars, vars>>

\* Start has returned nil: the session becomes the server's, in the place of
\* whatever is there.
Publish(c) ==
    /\ at[c] = "starting" /\ pc[held[c]] = "up"
    /\ session' = held[c] /\ sessKey' = req[c].name
    /\ held' = [held EXCEPT ![c] = NoSession]
    /\ Goes(c, "starting", "mark")
    /\ UNCHANGED <<req, resp, via, keyVars, vars>>

\* MarkConnected; that the key is gone or cannot be written is only logged.
Mark(c) ==
    /\ Answers(c, "mark", "ok")
    /\ \/ \E k \in Keys : k.name = req[c].name /\ MarkConnected(Store, k) /\ mem'[Store] # Closed
       \/ req[c].name \notin NamesOf(Keys) /\ UNCHANGED keyVars
    /\ UNCHANGED <<session, sessKey, req, held, via, vars>>

\* doDisconnect and doUndo with a session.
TakeToClose(c) ==
    /\ Take(c)
    /\ Goes(c, "take", "closing") /\ UNCHANGED <<req, resp, keyVars>>

\* Close has returned.
CloseReturns(c) ==
    /\ at[c] = "closing" /\ Release(c)
    /\ \/ pc[held[c]] = "closed" /\ Answers(c, "closing", "ok")
       \/ pc[held[c]] = "close_failed" /\ Answers(c, "closing", "error")
    /\ UNCHANGED <<session, sessKey, req, keyVars, vars>>

\* doDisconnect without a session.
NothingToClose(c) ==
    /\ session = NoSession /\ req[c].method = "disconnect"
    /\ Answers(c, "take", "error")
    /\ UNCHANGED <<session, sessKey, req, held, via, keyVars, vars>>

\* doUndo without a session: RunPanicStandalone.
UndoStandalone(c) ==
    /\ session = NoSession /\ req[c].method = "undo"
    /\ Goes(c, "take", "undoing") /\ Launch(Standalone)
    /\ UNCHANGED <<session, sessKey, req, held, resp, via, keyVars, lifeVars, sessionVars, hostVars>>

StandaloneReturns(c) ==
    /\ Answers(c, "undoing", IF script[Standalone] = "exit0" THEN "ok" ELSE "error")
    /\ Reap(Standalone)
    /\ UNCHANGED <<session, sessKey, req, held, via, keyVars, lifeVars, sessionVars, hostVars>>

-----------------------------------------------------------------------------
(***************************************************************************)
(* Requests about keys.                                                    *)
(***************************************************************************)

\* doRemove first looks at sessKey ...
CheckRemove(c) ==
    /\ IF sessKey = req[c].name THEN Answers(c, "check", "error")
       ELSE Goes(c, "check", "remove") /\ UNCHANGED resp
    /\ UNCHANGED <<session, sessKey, req, held, via, keyVars, vars>>

\* A keystore operation is refused, or fails to persist, or is done and the
\* handler goes on to the step next.
Refused(c, from) == Answers(c, from, "error") /\ UNCHANGED keyVars

\* (A daemon that dies in the middle dies as a whole: ServerCrash.)
Done(c, from, next) ==
    /\ mem'[Store] # Closed
    /\ IF writeFaults' # writeFaults THEN Answers(c, from, "error")
       ELSE IF next = "answered" THEN Answers(c, from, "ok")
       ELSE Goes(c, from, next) /\ UNCHANGED resp

\* ... and then calls Store.Remove.
DoRemove(c) ==
    /\ at[c] = "remove"
    /\ \/ \E k \in Keys : k.name = req[c].name /\ Remove(Store, k) /\ Done(c, "remove", "answered")
       \/ req[c].name \notin NamesOf(Keys) /\ Refused(c, "remove")
    /\ UNCHANGED <<session, sessKey, req, held, via, vars>>

\* doRename first calls Store.Rename ...
DoRename(c) ==
    /\ at[c] = "rename"
    /\ \/ \E k \in Keys : k.name = req[c].name /\ Rename(Store, k, req[c].arg)
                            /\ Done(c, "rename", "sync")
       \/ req[c].arg = req[c].name /\ Goes(c, "rename", "sync") /\ UNCHANGED <<resp, keyVars>>
       \/ /\ req[c].arg # req[c].name
          /\ req[c].name \notin NamesOf(Keys) \/ req[c].arg \in NamesOf(Keys)
          /\ Refused(c, "rename")
    /\ UNCHANGED <<session, sessKey, req, held, via, vars>>

\* Mutant: sessKey keeps the old name.
SyncNothing(c) ==
    /\ Answers(c, "sync", "ok")
    /\ UNCHANGED <<session, sessKey, req, held, via, keyVars, vars>>

\* ... and then lets sessKey follow.
SyncSessKey(c) ==
    /\ Answers(c, "sync", "ok")
    /\ sessKey' = IF sessKey = req[c].name THEN req[c].arg ELSE sessKey
    /\ UNCHANGED <<session, req, held, via, keyVars, vars>>

DoAdd(c) ==
    /\ at[c] = "add"
    /\ \/ Add(Store, req[c].arg, req[c].name) /\ Done(c, "add", "answered")
       \/ /\ \/ Cardinality(Keys) >= MaxKeys
             \/ \E k \in Keys : k.url = req[c].arg \/ k.name = req[c].name
          /\ Refused(c, "add")
    /\ UNCHANGED <<session, sessKey, req, held, via, vars>>

DoUse(c) ==
    /\ at[c] = "use"
    /\ \/ \E k \in Keys : k.name = req[c].name /\ Use(Store, k) /\ Done(c, "use", "answered")
       \/ req[c].name \notin NamesOf(Keys) /\ Refused(c, "use")
    /\ UNCHANGED <<session, sessKey, req, held, via, vars>>

-----------------------------------------------------------------------------
(***************************************************************************)
(* The service and the command line.                                       *)
(***************************************************************************)
NoHandlers == \A c \in Conns : ~Handled(c)

\* As Terminate, with the handlers in flight in view.
SigTerm ==
    /\ daemon = "running" /\ daemon' = "stopping"
    /\ UNCHANGED panicVars \/ KillScripts(Sessions \cup {Standalone})
    /\ UNCHANGED <<original, meddled, sessionVars, hostVars, serverVars, keyVars>>

\* Run, after wg.Wait, takes the session and closes it.
ShutdownTakes ==
    /\ daemon = "stopping" /\ NoHandlers /\ session # NoSession
    /\ session' = NoSession /\ sessKey' = NoName
    /\ pc' = [pc EXCEPT ![session] = "closing"]
    /\ UNCHANGED <<connVars, via, keyVars, writer, hostVars, panicVars, lifeVars>>

\* Run returns and the process ends; a session that nobody refers to any more
\* loses its descriptor.
ServerExit ==
    /\ daemon = "stopping" /\ NoHandlers /\ session = NoSession
    /\ \A s \in Sessions : ~Busy(s)
    /\ daemon' = "dead" /\ Quit(Store)
    /\ pc' = [s \in Sessions |-> IF pc[s] = "up" THEN "new" ELSE pc[s]]
    /\ tun' = IF tun \in Sessions THEN NoTun ELSE tun
    /\ routes' = IF tun \in Sessions THEN {} ELSE routes
    /\ via' = [s \in Sessions |-> NoUrl]
    /\ UNCHANGED <<session, sessKey, connVars, writer, panicVars, original, meddled>>
    /\ UNCHANGED <<ipv6, rules, resolv, resolvTmp, backup, snapshot, faults>>

\* The process dies with its handlers in flight.
ServerCrash ==
    /\ Crash /\ Quit(Store)
    /\ session' = NoSession /\ sessKey' = NoName
    /\ at' = [c \in Conns |-> IF Handled(c) THEN AfterClose ELSE at[c]] /\ req' = [c \in Conns |-> NoRequest]
    /\ held' = [c \in Conns |-> NoSession] /\ resp' = [c \in Conns |-> "none"]
    /\ via' = [s \in Sessions |-> NoUrl]

\* ExecStopPost, whatever else is running.
StopPostRuns ==
    /\ daemon = "dead" /\ daemon' = "stop_post" /\ Launch(StopPost)
    /\ UNCHANGED <<original, meddled, sessionVars, hostVars, serverVars, keyVars>>

StopPostDone == StopPostEnds /\ UNCHANGED <<serverVars, keyVars>>

\* NewServer.
ServerStarts == StartDaemon /\ Open(Store) /\ UNCHANGED serverVars

\* `ouf undo` could not reach the daemon, got an error or no answer in time: it
\* runs ouf-panic itself, while the daemon's handler goes on.
FallbackStarts ==
    /\ Timeouts /\ script[Manual] = "idle"
    /\ daemon # "running" \/ InFlight("undo")
    /\ \A c \in Conns : Handled(c) => {"undo", req[c].method} \notin Excluded \/ req[c].method = "undo"
    /\ Launch(Manual) /\ meddled' = TRUE
    /\ UNCHANGED <<daemon, original, sessionVars, hostVars, serverVars, keyVars>>

FallbackEnds == ManualEnds /\ UNCHANGED <<serverVars, keyVars>>

-----------------------------------------------------------------------------
ConnectStep(c) ==
    \/ ReadActive(c) \/ GetKey(c) \/ AlreadyConnected(c) \/ SwitchKey(c) \/ NotConnected(c)
    \/ SwitchClosed(c) \/ (\E s \in Sessions : BuildSession(c, s))
    \/ StartFailed(c) \/ Publish(c) \/ Mark(c)

CloseStep(c) ==
    TakeToClose(c) \/ CloseReturns(c) \/ NothingToClose(c) \/ UndoStandalone(c) \/ StandaloneReturns(c)

KeyStep(c) ==
    CheckRemove(c) \/ DoRemove(c) \/ DoRename(c) \/ SyncSessKey(c) \/ DoAdd(c) \/ DoUse(c)

Handle(c) == Respond(c) \/ ReadOnly(c) \/ DoStatus(c) \/ ConnectStep(c) \/ CloseStep(c) \/ KeyStep(c)

SessionActs(s) == SessionRuns(s) /\ UNCHANGED <<serverVars, keyVars>>
SessionErrs(s) == SessionFails(s) /\ UNCHANGED <<serverVars, keyVars>>
ScriptActs(r)  == ScriptRuns(r) /\ UNCHANGED <<serverVars, keyVars>>
ScriptErrs(r)  == ScriptFails(r) /\ UNCHANGED <<serverVars, keyVars>>

ServerNext ==
    \/ \E c \in Conns : Handle(c) \/ \E r \in Requests : Accept(c, r)
    \/ \E s \in Sessions : SessionActs(s) \/ SessionErrs(s)
    \/ \E r \in Runners : ScriptActs(r) \/ ScriptErrs(r)
    \/ SigTerm \/ ShutdownTakes \/ ServerExit \/ ServerCrash
    \/ StopPostRuns \/ StopPostDone \/ ServerStarts \/ FallbackStarts \/ FallbackEnds

ServerSpec == ServerInit /\ [][ServerNext]_allVars

\* Goroutines, scripts and systemd make progress; clients, signals and faults
\* are not assumed to come.
ServerFairness ==
    /\ \A c \in Conns : WF_allVars(Handle(c))
    /\ \A s \in Sessions : WF_allVars(SessionActs(s))
    /\ \A r \in Runners : WF_allVars(ScriptActs(r))
    /\ WF_allVars(ShutdownTakes) /\ WF_allVars(ServerExit)
    /\ WF_allVars(StopPostRuns) /\ WF_allVars(StopPostDone) /\ WF_allVars(FallbackEnds)

FairServerSpec == ServerSpec /\ ServerFairness

-----------------------------------------------------------------------------
(***************************************************************************)
(* Properties.                                                             *)
(***************************************************************************)
Owners(s) == {c \in Conns : held[c] = s}

\* However requests interleave, a session has one owner: the server, or the one
\* handler that starts or closes it (or Run itself, when the daemon stops); so no
\* two handlers close the same session and none closes what another has published.
OneOwner ==
    \A s \in Sessions :
        /\ Cardinality(Owners(s)) <= IF session = s THEN 0 ELSE 1
        /\ Busy(s) /\ Owners(s) = {} => daemon = "stopping"

\* The session the server reports as connected has come up and nobody has begun
\* to close it.
PublishedIsUp == session # NoSession => pc[session] = "up"

\* What `ouf status` calls connected: all traffic goes through the tunnel of the
\* very session that is published, and the snapshot to undo it is complete.
ConnectedMeansTunnelled ==
    session # NoSession =>
        /\ ipv6 = "1" /\ tun = session /\ routes = {GwRoute, DefRoute}
        /\ rules = AllPriorities /\ resolv.text = OurContent
        /\ snapshot # NoSnapshot /\ snapshot.done = 1 .. LastAction

\* Except between the two halves of a rename, the published key name is the name,
\* in the keystore, of the URL in use: the connected key is not removed and
\* sessKey follows every rename.
ConnectedKeyStored ==
    session # NoSession /\ (\A c \in Conns : at[c] # "sync") =>
        [name |-> sessKey, url |-> via[session]] \in Keys

\* Nothing is going on and nothing is left to revert.
AllQuiet ==
    /\ NoHandlers /\ Idle /\ ~Connected /\ snapshot = NoSnapshot

\* When all requests are answered, nothing is connected and no snapshot is left,
\* the host is what it was.
QuietIsClean == AllQuiet => HostState = OriginalState

\* A disconnect or an undo is answered with success ("disconnected; host state
\* reverted") only over a host that is what it was.
OkMeansReverted ==
    [][\A c \in Conns :
          req[c].method \in {"disconnect", "undo"} /\ resp[c] = "none" /\ resp'[c] = "ok" =>
              HostState = OriginalState]_allVars

\* As long as a handler may still act for a client, Lifecycle's daemon serves.
L == INSTANCE Lifecycle WITH
        daemon <- IF daemon = "stopping" /\ ~NoHandlers THEN "signalled" ELSE daemon

\* If clients do not have connect, disconnect and undo in flight together, the
\* daemon with its concurrent handlers, switches, key requests, shutdown and crash
\* implements the serial Lifecycle, about which the theorems are.
ImplementsLifecycle == L!Spec

\* Every request is answered.
EveryRequestAnswered == \A c \in Conns : Handled(c) ~> ~Handled(c)

\* An undo, with other reverts of the daemon or of an impatient client running at
\* the same time ("safe to run twice"), in the end leaves the host as it was.
UndoConverges == InFlight("undo") ~> (snapshot = NoSnapshot /\ HostState = OriginalState)

\* A daemon that is asked to stop with requests in flight ends stopped, with the
\* host reverted, if nothing fails any more on the way.
StopUnderLoad ==
    (daemon = "stopping" /\ faults = 0) ~> (daemon = "stopped" /\ HostState = OriginalState)
=============================================================================

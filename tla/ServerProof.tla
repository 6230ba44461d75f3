----------------------------- MODULE ServerProof -----------------------------
(***************************************************************************)
(* Who owns a session: proofs about Server for any set of connections and  *)
(* sessions and any overlap of requests, with failures, crashes, a stop    *)
(* and the ouf-panic of an impatient client at any moment.                 *)
(***************************************************************************)
EXTENDS ServerInv, KeystoreProof

\* As long as a handler runs, the process does.
LEMMA HandlerMeansProcess ==
    ASSUME OwnerInv, NEW c \in Conns, Handled(c)
    PROVE  /\ daemon \in {"running", "stopping"} /\ ~NoHandlers
           /\ \A s \in Sessions : Busy(s) => \E d \in Conns : held[d] = s
BY DEF OwnerInv, NoHandlers, Owners

\* A handler moves between steps at which it holds no session.
LEMMA PlainStep ==
    ASSUME OwnerInv, NEW c \in Conns, NEW x \in Steps \ Holding,
           Handled(c), at[c] \notin Holding,
           at' = [at EXCEPT ![c] = x], UNCHANGED <<session, held, pc, daemon>>
    PROVE  OwnerInv'
<1>1. ControlTypeOK' /\ PublishedIsUp'
  BY DEF OwnerInv, ControlTypeOK, PublishedIsUp
<1>2. ASSUME NEW d \in Conns PROVE OwnerAt(d)'
  <2>1. OwnerAt(d) /\ at'[d] = IF d = c THEN x ELSE at[d]
    BY DEF OwnerInv, ControlTypeOK
  <2> QED BY <2>1 DEF OwnerAt, Holding
<1>3. \A s \in Sessions : ~(Busy(s)' /\ Owners(s)' = {})
  BY HandlerMeansProcess DEF Busy, Owners
<1>4. daemon' \in {"running", "stopping"}
  BY HandlerMeansProcess
<1>5. \A d, e \in Conns : held'[d] = held'[e] /\ held'[d] # NoSession => d = e
  BY DEF OwnerInv
<1> QED BY <1>1, <1>2, <1>3, <1>4, <1>5 DEF OwnerInv

\* A handler that holds no session takes the published one, to close it.
LEMMA TakeInv ==
    ASSUME OwnerInv, NEW c \in Conns, NEW x \in {"switching", "closing"},
           Handled(c), at[c] \notin Holding,
           Take(c), at' = [at EXCEPT ![c] = x]
    PROVE  OwnerInv'
<1> USE NoSessionAssumption
<1>1. /\ session \in Sessions /\ pc[session] = "up" /\ held[c] = NoSession
      /\ \A d \in Conns : OwnerAt(d) /\ held[d] # session
      /\ session' = NoSession /\ held' = [held EXCEPT ![c] = session]
      /\ pc' = [pc EXCEPT ![session] = "closing"] /\ daemon' = daemon
      /\ ControlTypeOK
  BY DEF OwnerInv, OwnerAt, Take, ControlTypeOK, PublishedIsUp, lifeVars
<1>2. ControlTypeOK' /\ PublishedIsUp'
  BY <1>1 DEF ControlTypeOK, PublishedIsUp, Steps, Stopping
<1>3. ASSUME NEW d \in Conns PROVE OwnerAt(d)'
  <2>1. CASE d = c
    BY <1>1, <2>1 DEF OwnerAt, Holding, ControlTypeOK
  <2>2. CASE d # c
    <3>1. at'[d] = at[d] /\ held'[d] = held[d] /\ held[d] # session
      BY <1>1, <2>2 DEF ControlTypeOK
    <3>2. held[d] # NoSession => pc'[held[d]] = pc[held[d]]
      BY <1>1, <3>1 DEF ControlTypeOK
    <3> QED BY <1>1, <3>1, <3>2 DEF OwnerAt, Holding
  <2> QED BY <2>1, <2>2
<1>4. \A d, e \in Conns : held'[d] = held'[e] /\ held'[d] # NoSession => d = e
  BY <1>1 DEF OwnerInv, ControlTypeOK
<1>5. \A s \in Sessions : ~(Busy(s)' /\ Owners(s)' = {})
  <2> SUFFICES ASSUME NEW s \in Sessions, Busy(s)' PROVE \E d \in Conns : held'[d] = s
    BY DEF Owners
  <2>1. CASE s = session
    BY <1>1, <2>1 DEF ControlTypeOK
  <2>2. CASE s # session
    <3>1. PICK d \in Conns : held[d] = s
      BY <1>1, <2>2, HandlerMeansProcess DEF Busy, ControlTypeOK
    <3>2. held'[d] = s
      BY <1>1, <3>1 DEF ControlTypeOK
    <3> QED BY <3>2
  <2> QED BY <2>1, <2>2
<1>6. daemon' \in {"running", "stopping"}
  BY <1>1, HandlerMeansProcess
<1> QED BY <1>2, <1>3, <1>4, <1>5, <1>6 DEF OwnerInv

\* A handler lets go of a session that is over, or that it publishes.
LEMMA LetGoInv ==
    ASSUME OwnerInv, NEW c \in Conns, NEW x \in Steps \ Holding, at[c] \in Holding,
           \/ pc[held[c]] \in Over /\ session' = session
           \/ pc[held[c]] = "up" /\ session' = held[c],
           held' = [held EXCEPT ![c] = NoSession],
           at' = [at EXCEPT ![c] = x], UNCHANGED <<pc, daemon>>
    PROVE  OwnerInv'
<1> USE NoSessionAssumption
<1>1. /\ held[c] \in Sessions /\ ControlTypeOK /\ Handled(c)
      /\ \A d \in Conns : OwnerAt(d) /\ (d # c => held[d] # held[c])
  BY DEF OwnerInv, OwnerAt, ControlTypeOK, Holding, Handled
<1>2. ControlTypeOK' /\ PublishedIsUp'
  BY <1>1 DEF OwnerInv, ControlTypeOK, PublishedIsUp
<1>3. ASSUME NEW d \in Conns PROVE OwnerAt(d)'
  <2>1. CASE d = c
    BY <1>1, <2>1 DEF OwnerAt, Holding, ControlTypeOK
  <2>2. CASE d # c
    <3>1. at'[d] = at[d] /\ held'[d] = held[d] /\ held[d] # held[c]
      BY <1>1, <2>2 DEF ControlTypeOK
    <3> QED BY <1>1, <3>1 DEF OwnerAt, Holding
  <2> QED BY <2>1, <2>2
<1>4. \A d, e \in Conns : held'[d] = held'[e] /\ held'[d] # NoSession => d = e
  BY <1>1 DEF OwnerInv, ControlTypeOK
<1>5. \A s \in Sessions : ~(Busy(s)' /\ Owners(s)' = {})
  <2> SUFFICES ASSUME NEW s \in Sessions, Busy(s)' PROVE \E d \in Conns : held'[d] = s
    BY DEF Owners
  <2>1. PICK d \in Conns : held[d] = s
    BY <1>1, HandlerMeansProcess DEF Busy
  <2>2. d # c
    BY <1>1, <2>1 DEF Busy
  <2> QED BY <1>1, <2>1, <2>2 DEF ControlTypeOK
<1>6. daemon' \in {"running", "stopping"}
  BY <1>1, HandlerMeansProcess
<1> QED BY <1>2, <1>3, <1>4, <1>5, <1>6 DEF OwnerInv

\* A handler of a connect takes a Session object nobody refers to and calls Start.
LEMMA BuildInv ==
    ASSUME OwnerInv, NEW c \in Conns, NEW s \in Sessions, BuildSession(c, s)
    PROVE  OwnerInv'
<1> USE NoSessionAssumption
<1>1. /\ at[c] = "build" /\ at' = [at EXCEPT ![c] = "starting"] /\ held' = [held EXCEPT ![c] = s]
      /\ pc' = [pc EXCEPT ![s] = "start"] /\ UNCHANGED <<session, daemon>>
      /\ pc[s] \in Over /\ session # s /\ \A d \in Conns : held[d] # s
  BY DEF BuildSession, Goes, Unused
<1>2. ControlTypeOK /\ Handled(c) /\ \A d \in Conns : OwnerAt(d)
  BY <1>1 DEF OwnerInv, Handled
<1>3. ControlTypeOK' /\ PublishedIsUp'
  BY <1>1, <1>2 DEF OwnerInv, ControlTypeOK, PublishedIsUp, Steps, Starting, Preparing
<1>4. ASSUME NEW d \in Conns PROVE OwnerAt(d)'
  <2>1. CASE d = c
    BY <1>1, <1>2, <2>1 DEF OwnerAt, Holding, ControlTypeOK, Starting, Preparing
  <2>2. CASE d # c
    <3>1. at'[d] = at[d] /\ held'[d] = held[d] /\ held[d] # s
      BY <1>1, <1>2, <2>2 DEF ControlTypeOK
    <3>2. held[d] # NoSession => pc'[held[d]] = pc[held[d]]
      BY <1>1, <1>2, <3>1 DEF ControlTypeOK
    <3> QED BY <1>1, <1>2, <3>1, <3>2 DEF OwnerAt, Holding
  <2> QED BY <2>1, <2>2
<1>5. \A d, e \in Conns : held'[d] = held'[e] /\ held'[d] # NoSession => d = e
  BY <1>1, <1>2 DEF OwnerInv, ControlTypeOK
<1>6. \A t \in Sessions : ~(Busy(t)' /\ Owners(t)' = {})
  <2> SUFFICES ASSUME NEW t \in Sessions, Busy(t)' PROVE \E d \in Conns : held'[d] = t
    BY DEF Owners
  <2>1. CASE t = s
    BY <1>1, <1>2, <2>1 DEF ControlTypeOK
  <2>2. CASE t # s
    <3>1. PICK d \in Conns : held[d] = t
      BY <1>1, <1>2, <2>2, HandlerMeansProcess DEF Busy, ControlTypeOK
    <3>2. d # c
      BY <1>1, <1>2, <3>1 DEF OwnerAt, Holding
    <3> QED BY <1>1, <1>2, <3>1, <3>2 DEF ControlTypeOK
  <2> QED BY <2>1, <2>2
<1>7. daemon' \in {"running", "stopping"}
  BY <1>1, <1>2, HandlerMeansProcess
<1> QED BY <1>3, <1>4, <1>5, <1>6, <1>7 DEF OwnerInv

\* A handler's steps.
LEMMA HandleInv ==
    ASSUME OwnerInv, NEW c \in Conns, Handle(c)
    PROVE  OwnerInv'
<1>1. AfterClose \in Steps \ Holding
  BY DEF AfterClose, Steps, Holding
<1>2. UNCHANGED vars => UNCHANGED <<pc, daemon>>
  BY DEF vars, sessionVars, lifeVars
<1> USE DEF Goes, Answers, Handled
<1>3. CASE Respond(c) \/ ReadOnly(c) \/ DoStatus(c)
  <2>1. PICK x \in Steps \ Holding : at' = [at EXCEPT ![c] = x]
    BY <1>1, <1>3 DEF Respond, ReadOnly, DoStatus, Steps, Holding
  <2>2. Handled(c) /\ at[c] \notin Holding /\ UNCHANGED <<session, held, pc, daemon>>
    BY <1>2, <1>3 DEF Respond, ReadOnly, DoStatus, Holding
  <2> QED BY <2>1, <2>2, PlainStep
<1>4. CASE ReadActive(c) \/ GetKey(c) \/ AlreadyConnected(c) \/ NotConnected(c) \/ Mark(c)
  <2>1. PICK x \in Steps \ Holding : at' = [at EXCEPT ![c] = x]
    BY <1>4 DEF ReadActive, GetKey, AlreadyConnected, NotConnected, Mark, Steps, Holding
  <2>2. Handled(c) /\ at[c] \notin Holding /\ UNCHANGED <<session, held, pc, daemon>>
    BY <1>2, <1>4 DEF ReadActive, GetKey, AlreadyConnected, NotConnected, Mark, Holding
  <2> QED BY <2>1, <2>2, PlainStep
<1>5. CASE KeyStep(c)
  <2>1. PICK x \in Steps \ Holding : at' = [at EXCEPT ![c] = x]
    BY <1>5 DEF KeyStep, CheckRemove, DoRemove, DoRename, SyncSessKey, DoAdd, DoUse, Done, Refused,
       Steps, Holding
  <2>2. Handled(c) /\ at[c] \notin Holding /\ UNCHANGED <<session, held, pc, daemon>>
    BY <1>2, <1>5 DEF KeyStep, CheckRemove, DoRemove, DoRename, SyncSessKey, DoAdd, DoUse, Holding
  <2> QED BY <2>1, <2>2, PlainStep
<1>6. CASE NothingToClose(c) \/ UndoStandalone(c) \/ StandaloneReturns(c)
  <2>1. PICK x \in Steps \ Holding : at' = [at EXCEPT ![c] = x]
    BY <1>6 DEF NothingToClose, UndoStandalone, StandaloneReturns, Steps, Holding
  <2>2. Handled(c) /\ at[c] \notin Holding /\ UNCHANGED <<session, held, pc, daemon>>
    BY <1>2, <1>6 DEF NothingToClose, UndoStandalone, StandaloneReturns, Holding, sessionVars, lifeVars
  <2> QED BY <2>1, <2>2, PlainStep
<1>7. CASE SwitchKey(c) \/ TakeToClose(c)
  BY <1>7, TakeInv DEF SwitchKey, TakeToClose, Holding
<1>8. CASE SwitchClosed(c) \/ CloseReturns(c) \/ StartFailed(c) \/ Publish(c)
  <2>1. PICK x \in Steps \ Holding : at' = [at EXCEPT ![c] = x]
    BY <1>8 DEF SwitchClosed, CloseReturns, StartFailed, Publish, Steps, Holding
  <2>2. /\ at[c] \in Holding /\ held' = [held EXCEPT ![c] = NoSession] /\ UNCHANGED <<pc, daemon>>
        /\ \/ pc[held[c]] \in Over /\ session' = session
           \/ pc[held[c]] = "up" /\ session' = held[c]
    BY <1>2, <1>8 DEF SwitchClosed, CloseReturns, StartFailed, Publish, Release, Over, Holding
  <2> QED BY <2>1, <2>2, LetGoInv
<1>9. CASE \E s \in Sessions : BuildSession(c, s)
  BY <1>9, BuildInv
<1> QED BY <1>3, <1>4, <1>5, <1>6, <1>7, <1>8, <1>9 DEF Handle, ConnectStep, CloseStep

\* A connection is accepted by a running process.
LEMMA AcceptInv ==
    ASSUME OwnerInv, NEW c \in Conns, NEW r \in Requests, Accept(c, r)
    PROVE  OwnerInv'
<1>1. /\ at[c] = "idle" /\ daemon = "running" /\ UNCHANGED <<session, held, pc, daemon>>
      /\ at' = [at EXCEPT ![c] = Dispatch(r)]
  BY DEF Accept, vars, sessionVars, lifeVars
<1>2. Dispatch(r) \in Steps \ Holding
  <2>1. r.method \in {"remove", "use", "rename", "add", "list", "connect", "disconnect", "undo",
                      "status", "ping"}
    BY DEF Requests, KeyRequests, SessionRequests
  <2> QED BY <2>1 DEF Dispatch, Steps, Holding
<1>3. ControlTypeOK' /\ PublishedIsUp'
  BY <1>1, <1>2 DEF OwnerInv, ControlTypeOK, PublishedIsUp
<1>4. ASSUME NEW d \in Conns PROVE OwnerAt(d)'
  <2>1. OwnerAt(d) /\ at'[d] = IF d = c THEN Dispatch(r) ELSE at[d]
    BY <1>1 DEF OwnerInv, ControlTypeOK
  <2> QED BY <1>1, <1>2, <2>1 DEF OwnerAt, Holding
<1>5. \A s \in Sessions : ~(Busy(s)' /\ Owners(s)' = {})
  BY <1>1 DEF OwnerInv, Busy, Owners
<1> QED BY <1>1, <1>3, <1>4, <1>5 DEF OwnerInv

-----------------------------------------------------------------------------
(***************************************************************************)
(* Sessions and the service.                                               *)
(***************************************************************************)

\* How a session moves by itself.
LEMMA SessionMoves ==
    ASSUME pc \in [Sessions -> Starting \cup Stopping \cup Reverting \cup Over \cup {"up"}],
           NEW s \in Sessions, SessionRuns(s) \/ SessionFails(s)
    PROVE  /\ UNCHANGED lifeVars
           /\ \E p : /\ pc' = [pc EXCEPT ![s] = p]
                     /\ \/ pc[s] \in Starting /\ p \in Starting \cup {"up", "cleanup", "failed"}
                        \/ pc[s] = "cleanup" /\ p \in {"cleanup_panic", "failed"}
                        \/ pc[s] = "cleanup_panic" /\ p = "failed"
                        \/ pc[s] = "closing" /\ p \in {"close_panic", "close_failed"}
                        \/ pc[s] = "close_panic" /\ p \in {"closed", "close_failed"}
<1>1. CASE StartStep(s)
  <2>1. pc[s] \in Starting /\ \E p \in Starting \cup {"up", "cleanup", "failed"} :
                                  pc' = [pc EXCEPT ![s] = p]
    BY <1>1 DEF StartStep, CheckSnapshot, RecordResolvConf, RecordSysctl, CheckTun, PersistPreState,
       DisableIPv6, LogSysctlSet, BuildDevice, CreateTun, LogTunCreate, UnlinkSymlink,
       LogResolvIntent, WriteResolvTmp, RenameResolv, LogResolvDone, LogIntent, AddRouteOrRule,
       LogAdded, Advance, Starting, Preparing, Mutating
  <2> QED BY <2>1 DEF SessionRuns, SessionFails
<1>2. CASE StartFails(s)
  BY <1>2 DEF StartFails, SessionRuns, SessionFails
<1>3. CASE RevertStarts(s) \/ RevertCannotStart(s)
  BY <1>3 DEF RevertStarts, RevertCannotStart, SessionRuns, SessionFails, Stopping
<1>4. CASE RevertEnds(s)
  BY <1>4 DEF RevertEnds, SessionRuns, SessionFails, Reverting
<1> QED BY <1>1, <1>2, <1>3, <1>4 DEF SessionRuns, SessionFails, SessionStep, SessionFailure

\* A session in motion stays its owner's.
LEMMA SessionOwned ==
    ASSUME OwnerInv, NEW s \in Sessions, SessionRuns(s) \/ SessionFails(s),
           UNCHANGED <<session, at, held>>
    PROVE  OwnerInv'
<1> USE NoSessionAssumption
<1>1. ControlTypeOK
  BY DEF OwnerInv
<1>2. PICK p : /\ pc' = [pc EXCEPT ![s] = p]
               /\ \/ pc[s] \in Starting /\ p \in Starting \cup {"up", "cleanup", "failed"}
                  \/ pc[s] = "cleanup" /\ p \in {"cleanup_panic", "failed"}
                  \/ pc[s] = "cleanup_panic" /\ p = "failed"
                  \/ pc[s] = "closing" /\ p \in {"close_panic", "close_failed"}
                  \/ pc[s] = "close_panic" /\ p \in {"closed", "close_failed"}
  BY <1>1, SessionMoves DEF ControlTypeOK
<1>3. UNCHANGED <<daemon, session, at, held>>
  BY <1>1, SessionMoves DEF ControlTypeOK, lifeVars
<1>4. Busy(s) /\ pc[s] # "up"
  BY <1>2 DEF Busy, Over, Starting, Preparing, Mutating
<1>5. ControlTypeOK'
  BY <1>1, <1>2, <1>3 DEF ControlTypeOK, Stopping, Reverting, Over
<1>6. PublishedIsUp'
  BY <1>1, <1>2, <1>3, <1>4 DEF OwnerInv, PublishedIsUp, ControlTypeOK
<1>7. ASSUME NEW d \in Conns PROVE OwnerAt(d)'
  <2>1. OwnerAt(d)
    BY DEF OwnerInv
  <2>2. CASE held[d] = s
    <3>1. pc'[held[d]] = p
      BY <1>1, <1>2, <2>2 DEF ControlTypeOK
    <3>2. CASE at[d] = "starting"
      BY <1>2, <1>3, <2>1, <2>2, <3>1, <3>2 DEF OwnerAt, Holding, Starting, Preparing, Mutating
    <3>3. CASE at[d] \in {"switching", "closing"}
      BY <1>2, <1>3, <2>1, <2>2, <3>1, <3>3 DEF OwnerAt, Holding, Starting, Preparing, Mutating
    <3> QED BY <2>1, <2>2, <3>2, <3>3 DEF OwnerAt, Holding
  <2>3. CASE held[d] # s
    <3>1. held[d] # NoSession => pc'[held[d]] = pc[held[d]]
      BY <1>1, <1>2, <2>3 DEF ControlTypeOK
    <3> QED BY <1>3, <2>1, <3>1 DEF OwnerAt, Holding
  <2> QED BY <2>2, <2>3
<1>8. ASSUME NEW t \in Sessions, Busy(t)', Owners(t)' = {} PROVE (daemon = "stopping" /\ NoHandlers)'
  <2>1. Busy(t)
    BY <1>1, <1>2, <1>4, <1>8 DEF Busy, ControlTypeOK
  <2>2. Owners(t) = {}
    BY <1>3, <1>8 DEF Owners
  <2> QED BY <1>3, <2>1, <2>2 DEF OwnerInv, NoHandlers, Handled
<1>9. daemon' \in {"running", "stopping"}
  BY <1>3, <1>4 DEF OwnerInv, Busy
<1> QED BY <1>3, <1>5, <1>6, <1>7, <1>8, <1>9 DEF OwnerInv

\* Steps that move no session and no handler and do not end the process.
LEMMA ElsewhereInv ==
    ASSUME OwnerInv, UNCHANGED <<session, at, held, pc>>,
           \/ daemon' = daemon
           \/ daemon = "running" /\ daemon' = "stopping"
           \/ daemon \notin {"running", "stopping"}
    PROVE  OwnerInv'
<1>1. ControlTypeOK' /\ PublishedIsUp'
  BY DEF OwnerInv, ControlTypeOK, PublishedIsUp
<1>2. \A c \in Conns : OwnerAt(c)'
  BY DEF OwnerInv, OwnerAt
<1>3. NoHandlers' = NoHandlers
  BY DEF NoHandlers, Handled
<1>4. \A s \in Sessions : Busy(s)' /\ Owners(s)' = {} => (daemon = "stopping" /\ NoHandlers)'
  BY <1>3 DEF OwnerInv, Busy, Owners
<1>5. (daemon \notin {"running", "stopping"} =>
          session = NoSession /\ NoHandlers /\ \A s \in Sessions : pc[s] \in Over)'
  BY <1>3 DEF OwnerInv
<1>6. \A c, d \in Conns : held'[c] = held'[d] /\ held'[c] # NoSession => c = d
  BY DEF OwnerInv
<1> QED BY <1>1, <1>2, <1>4, <1>5, <1>6 DEF OwnerInv

\* Run takes the published session when no handler is left.
LEMMA ShutdownTakesInv ==
    ASSUME OwnerInv, ShutdownTakes
    PROVE  OwnerInv'
<1> USE NoSessionAssumption
<1>1. /\ daemon = "stopping" /\ NoHandlers /\ session \in Sessions /\ session' = NoSession
      /\ pc' = [pc EXCEPT ![session] = "closing"] /\ UNCHANGED <<at, held, daemon>>
      /\ ControlTypeOK
  BY DEF ShutdownTakes, OwnerInv, ControlTypeOK, connVars, lifeVars
<1>2. ControlTypeOK' /\ PublishedIsUp'
  BY <1>1 DEF ControlTypeOK, PublishedIsUp, Stopping
<1>3. \A c \in Conns : held[c] = NoSession /\ at[c] \notin Holding
  BY <1>1 DEF OwnerInv, OwnerAt, NoHandlers, Handled, Holding
<1>4. \A c \in Conns : OwnerAt(c)'
  BY <1>1, <1>3 DEF OwnerAt, Holding
<1>5. (daemon = "stopping" /\ NoHandlers)'
  BY <1>1 DEF NoHandlers, Handled
<1> QED BY <1>1, <1>2, <1>3, <1>4, <1>5 DEF OwnerInv

\* A process that ends leaves neither handlers nor sessions.
LEMMA ProcessEndsInv ==
    ASSUME OwnerInv, ServerExit \/ ServerCrash
    PROVE  OwnerInv'
<1> USE NoSessionAssumption
<1>1. /\ pc' \in [Sessions -> Over] /\ session' = NoSession
      /\ at' \in [Conns -> Steps \ Holding] /\ held' = [c \in Conns |-> NoSession]
      /\ NoHandlers'
  <2>1. CASE ServerExit
    <3>1. /\ NoHandlers /\ session = NoSession /\ \A s \in Sessions : pc[s] \in Over \cup {"up"}
          /\ pc' = [s \in Sessions |-> IF pc[s] = "up" THEN "new" ELSE pc[s]]
          /\ UNCHANGED <<session, at, held>>
      BY <2>1 DEF ServerExit, Busy, connVars
    <3>2. \A c \in Conns : held[c] = NoSession /\ at[c] \notin Holding
      BY <3>1 DEF OwnerInv, OwnerAt, NoHandlers, Handled, Holding
    <3>3. at \in [Conns -> Steps] /\ held \in [Conns -> Sessions \cup {NoSession}]
      BY DEF OwnerInv, ControlTypeOK
    <3> QED BY <3>1, <3>2, <3>3 DEF Over, NoHandlers, Handled
  <2>2. CASE ServerCrash
    <3>1. pc' = [s \in Sessions |-> "new"]
      BY <2>2 DEF ServerCrash, Crash, ProcessesDie
    <3>2. /\ at' = [c \in Conns |-> IF Handled(c) THEN AfterClose ELSE at[c]]
          /\ session' = NoSession /\ held' = [c \in Conns |-> NoSession]
      BY <2>2 DEF ServerCrash
    <3>3. \A c \in Conns : at'[c] \in {"idle", "over"}
      BY <3>2 DEF Handled, AfterClose
    <3> QED BY <3>1, <3>2, <3>3 DEF Over, NoHandlers, Handled, Steps, Holding
  <2> QED BY <2>1, <2>2
<1>2. ControlTypeOK' /\ PublishedIsUp'
  BY <1>1 DEF ControlTypeOK, PublishedIsUp
<1>3. \A c \in Conns : OwnerAt(c)'
  BY <1>1 DEF OwnerAt, Holding
<1>4. \A s \in Sessions : ~Busy(s)' /\ pc'[s] \in Over
  BY <1>1 DEF Busy
<1> QED BY <1>1, <1>2, <1>3, <1>4 DEF OwnerInv

-----------------------------------------------------------------------------
(***************************************************************************)
(* The theorems.                                                           *)
(***************************************************************************)

\* Every step keeps ownership in order.
LEMMA NextOwned ==
    ASSUME OwnerInv, [ServerNext]_allVars
    PROVE  OwnerInv'
<1>1. CASE \E c \in Conns : Handle(c) \/ \E r \in Requests : Accept(c, r)
  BY <1>1, HandleInv, AcceptInv
<1>2. CASE \E s \in Sessions : SessionActs(s) \/ SessionErrs(s)
  BY <1>2, SessionOwned DEF SessionActs, SessionErrs, serverVars, connVars
<1>3. CASE \E r \in Runners : ScriptActs(r) \/ ScriptErrs(r)
  BY <1>3, ElsewhereInv DEF ScriptActs, ScriptErrs, ScriptRuns, ScriptFails, serverVars, connVars,
     sessionVars, lifeVars
<1>4. CASE SigTerm \/ StopPostRuns \/ StopPostDone \/ ServerStarts
  BY <1>4, ElsewhereInv DEF SigTerm, Terminate, StopPostRuns, StopPostDone, StopPostEnds,
     ServerStarts, StartDaemon, serverVars, connVars, sessionVars
<1>5. CASE FallbackStarts \/ FallbackEnds
  BY <1>5, ElsewhereInv DEF FallbackStarts, FallbackEnds, ManualEnds, serverVars, connVars,
     sessionVars, lifeVars
<1>6. CASE ShutdownTakes
  BY <1>6, ShutdownTakesInv
<1>7. CASE ServerExit \/ ServerCrash
  BY <1>7, ProcessEndsInv
<1>8. CASE UNCHANGED allVars
  BY <1>8, ElsewhereInv DEF allVars, vars, serverVars, connVars, sessionVars, lifeVars
<1> QED BY <1>1, <1>2, <1>3, <1>4, <1>5, <1>6, <1>7, <1>8 DEF ServerNext

\* Sessions have owners, whatever requests overlap: what doConnect, doDisconnect,
\* doUndo and Run rely on when they drop Server.mu before Start and Close.
THEOREM Owned == ServerSpec => []OwnerInv
<1>1. ServerInit => OwnerInv
  BY NoSessionAssumption
  DEF ServerInit, Init, SessionInit, OwnerInv, ControlTypeOK, PublishedIsUp, OwnerAt, Holding, Steps,
      Over, Busy, Handled, NoHandlers
<1>2. OwnerInv /\ [ServerNext]_allVars => OwnerInv'
  BY NextOwned
<1> QED BY <1>1, <1>2, PTL DEF ServerSpec

\* No two handlers have the same session and none has the published one; a session
\* that is starting or closing without a handler is the last one, of a daemon that
\* stops.
THEOREM SingleOwner == ServerSpec => []OneOwner
<1>1. OwnerInv => OneOwner
  <2> SUFFICES ASSUME OwnerInv, NEW s \in Sessions
               PROVE  /\ Cardinality(Owners(s)) <= IF session = s THEN 0 ELSE 1
                      /\ Busy(s) /\ Owners(s) = {} => daemon = "stopping"
    BY DEF OneOwner
  <2>1. CASE Owners(s) = {}
    <3>1. Cardinality(Owners(s)) = 0
      BY <2>1, FS_EmptySet
    <3> QED BY <3>1 DEF OwnerInv
  <2>2. CASE Owners(s) # {}
    <3>1. PICK c \in Conns : held[c] = s
      BY <2>2 DEF Owners
    <3>2. Owners(s) = {c} /\ session # s
      BY <3>1, NoSessionAssumption DEF Owners, OwnerInv, OwnerAt
    <3>3. Cardinality(Owners(s)) = 1
      BY <3>2, FS_Singleton
    <3> QED BY <2>2, <3>2, <3>3
  <2> QED BY <2>1, <2>2
<1> QED BY <1>1, Owned, PTL

\* What the server reports as connected has been started and nobody closes it.
THEOREM PublishedUp == ServerSpec => []PublishedIsUp
<1>1. OwnerInv => PublishedIsUp
  BY DEF OwnerInv
<1> QED BY <1>1, Owned, PTL

-----------------------------------------------------------------------------
(***************************************************************************)
(* Requests and the keystore.                                              *)
(***************************************************************************)

\* One daemon has keys.json.
LEMMA StoreIsOne == OneStore /\ Store \in Stores
BY StoreAssumption DEF OneStore

\* As long as a handler runs, the store is open and holds keys.
LEMMA StoreOpen ==
    ASSUME OwnerInv, KeyInv, RequestInv, NEW c \in Conns, Handled(c)
    PROVE  IsOpen(Store) /\ mem[Store] \in FileState /\ Keys \subseteq Key
<1>1. IsOpen(Store)
  BY HandlerMeansProcess DEF RequestInv
<1>2. mem[Store] \in FileState
  BY <1>1, StoreIsOne DEF KeyInv, KeyTypeOK, IsOpen
<1> QED BY <1>1, <1>2 DEF Keys, FileState

\* The keystore's invariant speaks of the keystore's variables only.
LEMMA KeysLeftAlone == ASSUME KeyInv, UNCHANGED keyVars PROVE KeyInv'
BY DEF keyVars, KeyInv, KeyTypeOK, AckedIsDurable, KeysOnDisk, IsOpen, ActiveStoredUnlessFault,
   ActiveStored, Sound, WellFormed

\* A handler's steps use the keystore as Keystore says.
LEMMA HandleKeys ==
    ASSUME OwnerInv, KeyInv, RequestInv, NEW c \in Conns, Handle(c)
    PROVE  KeyInv'
<1> USE StoreIsOne
<1>1. CASE Mark(c) \/ DoUse(c)
  <2>1. Handled(c)
    BY <1>1 DEF Mark, DoUse, Answers, Goes, Handled
  <2> QED BY <1>1, <2>1, StoreOpen, UseInv, KeysLeftAlone
          DEF Mark, DoUse, Use, MarkConnected, Refused
<1>2. CASE DoRemove(c)
  <2>1. Handled(c)
    BY <1>2 DEF DoRemove, Handled
  <2> QED BY <1>2, <2>1, StoreOpen, RemoveInv, KeysLeftAlone DEF DoRemove, Refused
<1>3. CASE DoRename(c)
  <2>1. Handled(c) /\ req[c].arg \in Names
    BY <1>3 DEF DoRename, Handled, RequestInv, RequestAt
  <2> QED BY <1>3, <2>1, StoreOpen, RenameInv, KeysLeftAlone DEF DoRename, Refused
<1>4. CASE DoAdd(c)
  <2>1. req[c].name \in Names /\ req[c].arg \in Urls
    BY <1>4 DEF DoAdd, RequestInv, RequestAt
  <2> QED BY <1>4, <2>1, AddInv, KeysLeftAlone DEF DoAdd, Refused
<1>5. ASSUME UNCHANGED keyVars PROVE KeyInv'
  BY <1>5, KeysLeftAlone
<1> QED BY <1>1, <1>2, <1>3, <1>4, <1>5 DEF Handle, ConnectStep, CloseStep, KeyStep, Respond, ReadOnly,
        DoStatus, ReadActive, GetKey, AlreadyConnected, SwitchKey, NotConnected, SwitchClosed,
        BuildSession, StartFailed, Publish, TakeToClose, CloseReturns, NothingToClose, UndoStandalone,
        StandaloneReturns, CheckRemove, SyncSessKey

\* Every step of the daemon is a step of its keystore or leaves it alone.
LEMMA NextKeys ==
    ASSUME OwnerInv, KeyInv, RequestInv, [ServerNext]_allVars
    PROVE  KeyInv'
<1>1. CASE \E c \in Conns : Handle(c)
  BY <1>1, HandleKeys
<1>2. CASE ServerExit \/ ServerCrash
  BY <1>2, StoreIsOne, QuitInv DEF ServerExit, ServerCrash
<1>3. CASE ServerStarts
  BY <1>3, StoreIsOne, OpenInv DEF ServerStarts
<1>4. ASSUME UNCHANGED keyVars PROVE KeyInv'
  BY <1>4, KeysLeftAlone
<1> QED BY <1>1, <1>2, <1>3, <1>4 DEF ServerNext, allVars, Accept, SessionActs, SessionErrs, ScriptActs,
        ScriptErrs, SigTerm, ShutdownTakes, StopPostRuns, StopPostDone, FallbackStarts, FallbackEnds

\* Operations leave the store open.
LEMMA StoreStaysOpen ==
    ASSUME OwnerInv, KeyInv, RequestInv, NEW c \in Conns, Handle(c)
    PROVE  IsOpen(Store)'
<1>1. Handled(c)
  BY DEF Handle, ConnectStep, CloseStep, KeyStep, Respond, ReadOnly, DoStatus, ReadActive, GetKey,
     AlreadyConnected, SwitchKey, NotConnected, SwitchClosed, BuildSession, StartFailed, Publish, Mark,
     TakeToClose, CloseReturns, NothingToClose, UndoStandalone, StandaloneReturns, CheckRemove,
     DoRemove, DoRename, SyncSessKey, DoAdd, DoUse, Done, Refused, Answers, Goes, Handled
<1>2. UNCHANGED keyVars => IsOpen(Store)'
  BY <1>1, StoreOpen DEF keyVars, IsOpen
<1>3. CASE Mark(c) \/ DoUse(c) \/ DoRemove(c) \/ DoRename(c) \/ DoAdd(c)
  BY <1>2, <1>3 DEF Mark, DoUse, DoRemove, DoRename, DoAdd, Done, Refused, IsOpen
<1> QED BY <1>2, <1>3 DEF Handle, ConnectStep, CloseStep, KeyStep, Respond, ReadOnly,
        DoStatus, ReadActive, GetKey, AlreadyConnected, SwitchKey, NotConnected, SwitchClosed,
        BuildSession, StartFailed, Publish, TakeToClose, CloseReturns, NothingToClose, UndoStandalone,
        StandaloneReturns, CheckRemove, SyncSessKey

RequestType ==
    [method : Methods \cup {"none"}, name : Names \cup {NoName}, arg : Names \cup Urls \cup {NoUrl}]

\* A handler moves, with the request it had or as it forgets it.
LEMMA RequestMove ==
    ASSUME OwnerInv, OwnerInv', RequestInv, NEW c \in Conns, NEW x \in Steps, NEW q \in RequestType,
           Handled(c), at' = [at EXCEPT ![c] = x], req' = [req EXCEPT ![c] = q],
           x \in {"idle", "over"} \/ q.method = req[c].method, RequestAt(c)',
           sessKey' \in Names \cup {NoName}, resp' \in [Conns -> Responses],
           via' \in [Sessions -> Urls \cup {NoUrl}], IsOpen(Store)'
    PROVE  RequestInv'
<1>1. ServerTypeOK /\ Apart /\ \A d \in Conns : RequestAt(d)
  BY DEF RequestInv
<1>2. ServerTypeOK'
  BY <1>1 DEF ServerTypeOK, OwnerInv, ControlTypeOK, RequestType
<1>3. \A d \in Conns : d # c => at'[d] = at[d] /\ req'[d] = req[d]
  BY <1>1 DEF ServerTypeOK
<1>4. at'[c] = x /\ req'[c] = q
  BY <1>1 DEF ServerTypeOK
<1>5. \A d \in Conns : RequestAt(d)'
  BY <1>1, <1>3 DEF RequestAt
<1>6. \A d \in Conns : Handled(d)' => Handled(d) /\ req'[d].method = req[d].method
  BY <1>3, <1>4 DEF Handled
<1>7. Apart'
  BY <1>1, <1>6 DEF Apart
<1> QED BY <1>2, <1>5, <1>7 DEF RequestInv

\* A handler's steps keep the requests in order.
LEMMA HandleRequests ==
    ASSUME OwnerInv, OwnerInv', KeyInv, RequestInv, NEW c \in Conns, Handle(c)
    PROVE  RequestInv'
<1> DEFINE Moves(x, q) == at' = [at EXCEPT ![c] = x] /\ req' = [req EXCEPT ![c] = q]
<1>1. /\ ServerTypeOK /\ RequestAt(c) /\ OwnerAt(c) /\ IsOpen(Store)'
      /\ req[c] \in RequestType /\ at \in [Conns -> Steps] /\ req \in [Conns -> RequestType]
      /\ req = [req EXCEPT ![c] = req[c]]
  BY StoreStaysOpen DEF RequestInv, OwnerInv, ServerTypeOK, RequestType
<1>2. AfterClose \in {"idle", "over"}
  BY DEF AfterClose
<1>3. ASSUME NEW r \in Responses, resp' \in {resp, [resp EXCEPT ![c] = r]}
      PROVE  resp' \in [Conns -> Responses]
  BY <1>1, <1>3 DEF ServerTypeOK
<1>4. via' = via \/ Release(c) => via' \in [Sessions -> Urls \cup {NoUrl}]
  BY <1>1 DEF Release, ServerTypeOK
<1>5. sessKey' = sessKey => sessKey' \in Names \cup {NoName}
  BY <1>1 DEF ServerTypeOK
<1>6. {"none", "ok", "error", "dirty"} = Responses
  BY DEF Responses
<1> USE DEF Goes, Answers, Handled
<1>7. CASE Respond(c)
  <2>1. NoRequest \in RequestType
    BY DEF NoRequest, RequestType
  <2>2. Moves(AfterClose, NoRequest) /\ AfterClose \in Steps /\ at[c] = "answered"
    BY <1>2, <1>7 DEF Respond, Steps
  <2>3. RequestAt(c)'
    BY <1>1, <1>2, <2>2 DEF RequestAt, Connecting
  <2>4. /\ resp' \in [Conns -> Responses] /\ sessKey' = sessKey /\ via' = via
    BY <1>3, <1>6, <1>7 DEF Respond
  <2> QED BY <1>1, <1>2, <1>4, <1>5, <2>1, <2>2, <2>3, <2>4, RequestMove
<1>8. CASE ReadActive(c) /\ mem[Store].active # NoName
  <2> DEFINE q == [req[c] EXCEPT !.name = mem[Store].active]
  <2>1. mem[Store].active \in Names
    BY <1>8, StoreOpen DEF ReadActive, FileState
  <2>2. q \in RequestType /\ q.method = req[c].method /\ q.name \in Names
    BY <1>1, <2>1 DEF RequestType
  <2>3. Moves("get", q) /\ at[c] = "active" /\ "get" \in Steps
    BY <1>1, <1>8 DEF ReadActive, Steps
  <2>4. RequestAt(c)'
    BY <1>1, <2>2, <2>3 DEF RequestAt, Connecting
  <2>5. resp' \in [Conns -> Responses] /\ sessKey' = sessKey /\ via' = via
    BY <1>3, <1>6, <1>8 DEF ReadActive
  <2> QED BY <1>1, <1>4, <1>5, <2>2, <2>3, <2>4, <2>5, RequestMove
<1>9. CASE GetKey(c) /\ at'[c] = "lock"
  <2>1. PICK k \in Keys : k.name = req[c].name /\ Moves("lock", [req[c] EXCEPT !.arg = k.url])
    BY <1>1, <1>9 DEF GetKey
  <2> DEFINE q == [req[c] EXCEPT !.arg = k.url]
  <2>2. k.url \in Urls
    BY <1>9, StoreOpen DEF GetKey, Key
  <2>3. q \in RequestType /\ q.method = req[c].method /\ q.name = req[c].name /\ q.arg \in Urls
    BY <1>1, <2>2 DEF RequestType
  <2>4. at[c] = "get" /\ "lock" \in Steps
    BY <1>9 DEF GetKey, Steps
  <2>5. RequestAt(c)'
    BY <1>1, <2>1, <2>3, <2>4 DEF RequestAt, Connecting
  <2>6. resp' \in [Conns -> Responses] /\ sessKey' = sessKey /\ via' = via
    BY <1>3, <1>6, <1>9 DEF GetKey
  <2> QED BY <1>1, <1>4, <1>5, <2>1, <2>3, <2>4, <2>5, <2>6, RequestMove
<1>10. ASSUME NEW x \in Steps, at' = [at EXCEPT ![c] = x], req' = req, Handled(c),
              RequestAt(c)', sessKey' \in Names \cup {NoName}, resp' \in [Conns -> Responses],
              via' \in [Sessions -> Urls \cup {NoUrl}]
       PROVE  RequestInv'
  BY <1>1, <1>10, RequestMove
<1>11. CASE ReadOnly(c) \/ DoStatus(c) \/ Mark(c) \/ AlreadyConnected(c) \/ NotConnected(c)
            \/ (ReadActive(c) /\ mem[Store].active = NoName) \/ (GetKey(c) /\ at'[c] # "lock")
  <2>1. PICK x \in Steps : at' = [at EXCEPT ![c] = x] /\ x \in {"answered", "build"}
                           /\ (x = "build" => at[c] = "lock") /\ req' = req /\ Handled(c)
    BY <1>1, <1>11 DEF ReadOnly, DoStatus, Mark, AlreadyConnected, NotConnected, ReadActive, GetKey, Steps
  <2>2. RequestAt(c)'
    BY <1>1, <2>1 DEF RequestAt, Connecting
  <2>3. resp' \in [Conns -> Responses] /\ sessKey' = sessKey /\ via' = via
    BY <1>3, <1>6, <1>11 DEF ReadOnly, DoStatus, Mark, AlreadyConnected, NotConnected, ReadActive, GetKey
  <2> QED BY <1>4, <1>5, <1>10, <2>1, <2>2, <2>3
<1>12. CASE SwitchKey(c) \/ TakeToClose(c)
  <2>1. PICK x \in Steps : at' = [at EXCEPT ![c] = x] /\ req' = req /\ Handled(c)
                           /\ x \in {"switching", "closing"}
                           /\ (x = "switching" => at[c] = "lock") /\ (x = "closing" => at[c] = "take")
    BY <1>12 DEF SwitchKey, TakeToClose, Steps
  <2>2. RequestAt(c)'
    BY <1>1, <2>1 DEF RequestAt, Connecting
  <2>3. resp' \in [Conns -> Responses] /\ sessKey' = NoName /\ via' = via
    BY <1>1, <1>12 DEF SwitchKey, TakeToClose, Take, ServerTypeOK
  <2> QED BY <1>4, <1>10, <2>1, <2>2, <2>3
<1>13. CASE SwitchClosed(c) \/ StartFailed(c) \/ CloseReturns(c)
  <2>1. PICK x \in Steps : at' = [at EXCEPT ![c] = x] /\ req' = req /\ Handled(c)
                           /\ x \in {"answered", "build"} /\ (x = "build" => at[c] = "switching")
    BY <1>13 DEF SwitchClosed, StartFailed, CloseReturns, Steps
  <2>2. RequestAt(c)'
    BY <1>1, <2>1 DEF RequestAt, Connecting
  <2>3. resp' \in [Conns -> Responses] /\ sessKey' = sessKey /\ Release(c)
    BY <1>3, <1>6, <1>13 DEF SwitchClosed, StartFailed, CloseReturns
  <2> QED BY <1>4, <1>5, <1>10, <2>1, <2>2, <2>3
<1>14. CASE \E s \in Sessions : BuildSession(c, s)
  <2>1. /\ at' = [at EXCEPT ![c] = "starting"] /\ req' = req /\ at[c] = "build"
        /\ "starting" \in Steps /\ resp' = resp /\ sessKey' = sessKey
    BY <1>14 DEF BuildSession, Steps
  <2>2. RequestAt(c)' /\ req[c].arg \in Urls
    BY <1>1, <2>1 DEF RequestAt, Connecting
  <2>3. via' \in [Sessions -> Urls \cup {NoUrl}]
    BY <1>1, <1>14, <2>2 DEF BuildSession, ServerTypeOK
  <2> QED BY <1>1, <1>5, <1>10, <2>1, <2>2, <2>3 DEF ServerTypeOK
<1>15. CASE Publish(c)
  <2>1. /\ at' = [at EXCEPT ![c] = "mark"] /\ req' = req /\ at[c] = "starting"
        /\ "mark" \in Steps /\ resp' = resp /\ sessKey' = req[c].name /\ via' = via
    BY <1>15 DEF Publish, Steps
  <2>2. RequestAt(c)' /\ req[c].name \in Names
    BY <1>1, <2>1 DEF RequestAt, Connecting
  <2> QED BY <1>1, <1>4, <1>10, <2>1, <2>2 DEF ServerTypeOK
<1>16. CASE NothingToClose(c) \/ UndoStandalone(c) \/ StandaloneReturns(c)
  <2>1. PICK x \in Steps : at' = [at EXCEPT ![c] = x] /\ req' = req /\ Handled(c)
                           /\ x \in {"answered", "undoing"}
                           /\ (x = "undoing" => at[c] = "take" /\ req[c].method = "undo")
    BY <1>16 DEF NothingToClose, UndoStandalone, StandaloneReturns, Steps
  <2>2. RequestAt(c)'
    BY <1>1, <2>1 DEF RequestAt, Connecting
  <2>3. resp' \in [Conns -> Responses] /\ sessKey' = sessKey /\ via' = via
    BY <1>3, <1>6, <1>16 DEF NothingToClose, UndoStandalone, StandaloneReturns
  <2> QED BY <1>4, <1>5, <1>10, <2>1, <2>2, <2>3
<1>17. CASE CheckRemove(c) \/ DoRemove(c) \/ DoRename(c) \/ DoAdd(c) \/ DoUse(c)
  <2>1. PICK x \in Steps : at' = [at EXCEPT ![c] = x] /\ req' = req /\ Handled(c)
                           /\ x \in {"answered", "remove", "sync"}
                           /\ (x = "remove" => at[c] = "check") /\ (x = "sync" => at[c] = "rename")
    BY <1>17 DEF CheckRemove, DoRemove, DoRename, DoAdd, DoUse, Done, Refused, Steps
  <2>2. RequestAt(c)'
    BY <1>1, <2>1 DEF RequestAt, Connecting
  <2>3. resp' \in [Conns -> Responses] /\ sessKey' = sessKey /\ via' = via
    BY <1>3, <1>6, <1>17 DEF CheckRemove, DoRemove, DoRename, DoAdd, DoUse, Done, Refused
  <2> QED BY <1>4, <1>5, <1>10, <2>1, <2>2, <2>3
<1>18. CASE SyncSessKey(c)
  <2>1. /\ at' = [at EXCEPT ![c] = "answered"] /\ req' = req /\ at[c] = "sync"
        /\ "answered" \in Steps /\ via' = via
    BY <1>18 DEF SyncSessKey, Steps
  <2>2. RequestAt(c)' /\ req[c].arg \in Names
    BY <1>1, <2>1 DEF RequestAt, Connecting
  <2>3. resp' \in [Conns -> Responses] /\ sessKey' \in Names \cup {NoName}
    BY <1>1, <1>3, <1>6, <1>18, <2>2 DEF SyncSessKey, ServerTypeOK
  <2> QED BY <1>4, <1>10, <2>1, <2>2, <2>3
<1> QED BY <1>7, <1>8, <1>9, <1>11, <1>12, <1>13, <1>14, <1>15, <1>16, <1>17, <1>18
        DEF Handle, ConnectStep, CloseStep, KeyStep

\* A request that is accepted is well-formed and apart from those in flight.
LEMMA AcceptRequests ==
    ASSUME OwnerInv, OwnerInv', RequestInv, NEW c \in Conns, NEW r \in Requests, Accept(c, r)
    PROVE  RequestInv'
<1>1. /\ at[c] = "idle" /\ at' = [at EXCEPT ![c] = Dispatch(r)] /\ req' = [req EXCEPT ![c] = r]
      /\ r.method \in Methods /\ Admitted(r.method) /\ UNCHANGED <<sessKey, resp, via, mem, daemon>>
  BY DEF Accept, keyVars, vars, lifeVars
<1>2. ServerTypeOK /\ Apart /\ \A d \in Conns : RequestAt(d)
  BY DEF RequestInv
<1>3. r \in RequestType
  BY <1>1 DEF Requests, KeyRequests, SessionRequests, RequestType
<1>4. ServerTypeOK'
  BY <1>1, <1>2, <1>3 DEF ServerTypeOK, OwnerInv, ControlTypeOK, RequestType
<1>5. at'[c] = Dispatch(r) /\ req'[c] = r
  BY <1>1, <1>2 DEF ServerTypeOK
<1>6. \A d \in Conns : d # c => at'[d] = at[d] /\ req'[d] = req[d]
  BY <1>1, <1>2 DEF ServerTypeOK
<1>7. RequestAt(c)'
  <2>1. CASE r \in SessionRequests
    BY <1>5, <2>1 DEF SessionRequests, Dispatch, RequestAt, Connecting
  <2>2. CASE r \in KeyRequests
    BY <1>5, <2>2 DEF KeyRequests, Dispatch, RequestAt, Connecting
  <2> QED BY <2>1, <2>2 DEF Requests
<1>8. \A d \in Conns : RequestAt(d)'
  BY <1>2, <1>6, <1>7 DEF RequestAt
<1>9. Apart'
  <2> SUFFICES ASSUME NEW d \in Conns, NEW e \in Conns, d # e, Handled(d)', Handled(e)'
               PROVE  {req'[d].method, req'[e].method} \notin Excluded
    BY DEF Apart
  <2>1. CASE d # c /\ e # c
    BY <1>2, <1>6, <2>1 DEF Apart, Handled
  <2>2. CASE d = c
    BY <1>1, <1>5, <1>6, <2>2 DEF Admitted, Handled
  <2>3. CASE e = c
    <3>1. {r.method, req[d].method} \notin Excluded
      BY <1>1, <1>6, <2>3 DEF Admitted, Handled
    <3>2. {req'[d].method, req'[e].method} = {r.method, req[d].method}
      BY <1>5, <1>6, <2>3
    <3> QED BY <3>1, <3>2
  <2> QED BY <2>1, <2>2, <2>3
<1> QED BY <1>1, <1>4, <1>8, <1>9 DEF RequestInv, IsOpen

\* Steps of sessions, scripts and the service leave the handlers and their requests
\* alone.
LEMMA RequestsLeftAlone ==
    ASSUME OwnerInv', RequestInv, UNCHANGED <<at, req, resp>>, sessKey' \in {sessKey, NoName},
           via' = via, daemon' \in {"running", "stopping"} => IsOpen(Store)'
    PROVE  RequestInv'
<1>1. ServerTypeOK /\ Apart /\ \A d \in Conns : RequestAt(d)
  BY DEF RequestInv
<1>2. ServerTypeOK'
  BY <1>1 DEF ServerTypeOK, OwnerInv, ControlTypeOK
<1>3. Apart' /\ \A d \in Conns : RequestAt(d)'
  BY <1>1 DEF Apart, Handled, RequestAt
<1> QED BY <1>2, <1>3 DEF RequestInv

\* A process that ends leaves no requests.
LEMMA ProcessEndsRequests ==
    ASSUME OwnerInv', RequestInv, ServerExit \/ ServerCrash
    PROVE  RequestInv'
<1>1. ServerTypeOK /\ via' = [s \in Sessions |-> NoUrl] /\ daemon' = "dead"
  BY DEF RequestInv, ServerExit, ServerCrash, Crash
<1>2. /\ NoHandlers' /\ sessKey' \in Names \cup {NoName} /\ resp' \in [Conns -> Responses]
      /\ req' \in [Conns -> RequestType]
  BY <1>1 DEF OwnerInv, ServerExit, ServerCrash, connVars, ServerTypeOK, RequestType, NoRequest, Responses
<1>3. ServerTypeOK'
  BY <1>1, <1>2 DEF ServerTypeOK, OwnerInv, ControlTypeOK, RequestType
<1>4. Apart' /\ \A d \in Conns : RequestAt(d)'
  BY <1>2 DEF NoHandlers, Handled, Apart, RequestAt, Connecting
<1> QED BY <1>1, <1>3, <1>4 DEF RequestInv

\* Every step keeps the requests in order.
LEMMA NextRequests ==
    ASSUME OwnerInv, OwnerInv', KeyInv, RequestInv, [ServerNext]_allVars
    PROVE  RequestInv'
<1>1. CASE \E c \in Conns : Handle(c) \/ \E r \in Requests : Accept(c, r)
  BY <1>1, HandleRequests, AcceptRequests
<1>2. CASE ServerExit \/ ServerCrash
  BY <1>2, ProcessEndsRequests
<1>3. CASE ServerStarts
  <2>1. IsOpen(Store)'
    BY <1>3, StoreIsOne, FileStateAssumption
    DEF ServerStarts, Open, IsOpen, KeyInv, KeyTypeOK, Empty, FileState
  <2> QED BY <1>3, <2>1, RequestsLeftAlone DEF ServerStarts, serverVars, connVars
<1>4. CASE SigTerm \/ StopPostRuns \/ StopPostDone \/ ShutdownTakes
  <2>1. UNCHANGED <<at, req, resp, via, mem>> /\ sessKey' \in {sessKey, NoName}
    BY <1>4 DEF SigTerm, StopPostRuns, StopPostDone, ShutdownTakes, serverVars, connVars, keyVars
  <2>2. daemon' \in {"running", "stopping"} => daemon \in {"running", "stopping"}
    BY <1>4 DEF SigTerm, Terminate, StopPostRuns, StopPostDone, StopPostEnds, ShutdownTakes, lifeVars
  <2> QED BY <2>1, <2>2, RequestsLeftAlone DEF RequestInv, IsOpen
<1>5. ASSUME UNCHANGED <<serverVars, keyVars, daemon>> PROVE RequestInv'
  BY <1>5, RequestsLeftAlone DEF RequestInv, IsOpen, serverVars, connVars, keyVars
<1>6. CASE \/ \E s \in Sessions : SessionActs(s) \/ SessionErrs(s)
           \/ \E r \in Runners : ScriptActs(r) \/ ScriptErrs(r)
           \/ FallbackStarts \/ FallbackEnds \/ UNCHANGED allVars
  BY <1>5, <1>6 DEF SessionActs, SessionErrs, SessionRuns, SessionFails, ScriptActs, ScriptErrs,
     ScriptRuns, ScriptFails, FallbackStarts, FallbackEnds, ManualEnds, lifeVars, allVars, vars
<1> QED BY <1>1, <1>2, <1>3, <1>4, <1>6 DEF ServerNext

\* The keystore and the requests of the daemon are in order.
THEOREM RequestsInOrder == ServerSpec => [](RequestInv /\ KeyInv)
<1>1. ServerInit => RequestInv /\ KeyInv
  <2> SUFFICES ASSUME ServerInit PROVE RequestInv /\ KeyInv
    OBVIOUS
  <2>1. /\ disk \in FileState /\ IsFiniteSet(disk.keys) /\ WellFormed(disk) /\ ActiveStored(disk)
        /\ mem = [st \in Stores |-> disk] /\ acked = disk.keys /\ doubt = {} /\ writeFaults = MaxWriteFaults
    BY InitialFilesAssumption DEF ServerInit
  <2>2. disk # NoFile /\ disk # Closed /\ disk.keys \in SUBSET Key
    BY <2>1, FileStateAssumption DEF FileState
  <2>3. KeyInv
    BY <2>1, <2>2, MaxWriteFaultsAssumption
    DEF KeyInv, KeyTypeOK, AckedIsDurable, KeysOnDisk, ActiveStoredUnlessFault, Sound
  <2>4. ServerTypeOK /\ NoHandlers
    BY DEF ServerInit, ServerTypeOK, NoRequest, Responses, Steps, NoHandlers, Handled
  <2>5. Apart /\ \A c \in Conns : RequestAt(c)
    BY <2>4 DEF NoHandlers, Handled, Apart, RequestAt, Connecting
  <2>6. IsOpen(Store)
    BY <2>1, <2>2, StoreIsOne DEF IsOpen
  <2> QED BY <2>3, <2>4, <2>5, <2>6 DEF RequestInv
<1>2. OwnerInv /\ OwnerInv' /\ RequestInv /\ KeyInv /\ [ServerNext]_allVars => (RequestInv /\ KeyInv)'
  BY NextKeys, NextRequests
<1> QED BY <1>1, <1>2, Owned, PTL DEF ServerSpec

\* Whatever requests overlap, what the daemon told its clients about keys is what
\* it will read from keys.json when it is started again.
THEOREM ServedKeysDurable == ServerSpec => []AckedIsDurable
<1>1. KeyInv => AckedIsDurable
  BY DEF KeyInv
<1> QED BY <1>1, RequestsInOrder, PTL

-----------------------------------------------------------------------------
(***************************************************************************)
(* The connected key.                                                      *)
(***************************************************************************)

Entry(name, url) == [name |-> name, url |-> url]

\* Steps that neither touch the keys, the published session and its URL nor bring a
\* handler to a step at which more is claimed.
LEMMA KeyedFrame ==
    ASSUME KeyedInv, RequestInv', UNCHANGED <<session, sessKey, req>>, Keys \subseteq Keys',
           session # NoSession => via'[session] = via[session],
           \A c \in Conns :
               /\ at'[c] \in Connecting => at[c] \in Connecting
               /\ at'[c] = "starting" =>
                     /\ at[c] = "starting" /\ held'[c] = held[c]
                     /\ via'[held[c]] = via[held[c]]
               /\ at'[c] = "remove" => at[c] = "remove"
               /\ at'[c] = "sync" <=> at[c] = "sync"
    PROVE  KeyedInv'
<1>1. ConnectedKeyStored'
  BY DEF KeyedInv, ConnectedKeyStored
<1>2. \A c \in Conns : KeyAt(c)'
  BY DEF KeyedInv, KeyAt
<1> QED BY <1>1, <1>2 DEF KeyedInv

\* A key operation runs alone among connects, renames and removals.
LEMMA KeyOpAlone ==
    ASSUME KeysApart, RequestInv, NEW c \in Conns, NEW d \in Conns, d # c,
           at[c] \in {"check", "remove", "rename", "sync"}, at[d] \in {"rename", "sync"} \cup Connecting
    PROVE  FALSE
<1>1. req[c].method \in {"rename", "remove"} /\ req[d].method \in {"connect", "rename"}
  BY DEF RequestInv, RequestAt
<1>2. {req[c].method, req[d].method} \notin Excluded
  BY DEF RequestInv, Apart, Handled, Connecting
<1>3. {req[c].method, req[d].method} = {req[d].method, req[c].method}
  OBVIOUS
<1> QED BY <1>1, <1>2, <1>3 DEF KeysApart

\* What an operation does to the keys in memory, for a handler.
LEMMA KeysAfter ==
    ASSUME OwnerInv, KeyInv, RequestInv, NEW c \in Conns, Handled(c), NEW new, NEW back,
           NEW gone, NEW come, back.keys = Keys, Commit(Store, new, back, gone, come),
           mem'[Store] # Closed
    PROVE  \/ Keys' = new.keys /\ writeFaults' = writeFaults
           \/ Keys' = Keys /\ writeFaults' # writeFaults
<1>1. mem \in [Stores -> FileState \cup {Closed}] /\ Store \in Stores /\ writeFaults \in Int
  BY StoreIsOne, MaxWriteFaultsAssumption DEF KeyInv, KeyTypeOK
<1> QED BY <1>1 DEF Commit, Keys

LEMMA DoRemoveKeyed ==
    ASSUME KeysApart, OwnerInv, KeyInv, RequestInv', KeyedInv, NEW c \in Conns, DoRemove(c)
    PROVE  KeyedInv'
<1>1. /\ at[c] = "remove" /\ at' = [at EXCEPT ![c] = "answered"] /\ Handled(c)
      /\ UNCHANGED <<session, sessKey, req, held, via>> /\ RequestInv
      /\ at \in [Conns -> Steps]
  BY DEF DoRemove, Done, Refused, Answers, Goes, Handled, KeyedInv, RequestInv, ServerTypeOK
<1>2. \A d \in Conns : d # c => at[d] \notin {"sync"} \cup Connecting
  BY <1>1, KeyOpAlone
<1>3. \A k \in Keys : k.name # req[c].name => k \in Keys'
  <2>1. CASE UNCHANGED keyVars
    BY <2>1 DEF Keys, keyVars
  <2>2. ASSUME NEW k \in Keys, k.name = req[c].name, Remove(Store, k), mem'[Store] # Closed
        PROVE  Keys' = Keys \ {k} \/ Keys' = Keys
    BY <1>1, <2>2, KeysAfter DEF Remove, Keys
  <2> QED BY <2>1, <2>2 DEF DoRemove, Done, Refused
<1>4. sessKey # req[c].name
  BY <1>1 DEF KeyedInv, KeyAt
<1>5. ConnectedKeyStored'
  BY <1>1, <1>2, <1>3, <1>4 DEF KeyedInv, ConnectedKeyStored
<1>6. \A d \in Conns : KeyAt(d)'
  BY <1>1, <1>2 DEF KeyedInv, KeyAt, Connecting
<1> QED BY <1>1, <1>5, <1>6 DEF KeyedInv

LEMMA DoRenameKeyed ==
    ASSUME KeysApart, OwnerInv, KeyInv, RequestInv', KeyedInv, NEW c \in Conns, DoRename(c)
    PROVE  KeyedInv'
<1>1. /\ at[c] = "rename" /\ Handled(c) /\ at \in [Conns -> Steps]
      /\ \/ at' = [at EXCEPT ![c] = "sync"] \/ at' = [at EXCEPT ![c] = "answered"]
      /\ UNCHANGED <<session, sessKey, req, held, via>> /\ RequestInv
  BY DEF DoRename, Done, Refused, Answers, Goes, Handled, KeyedInv, RequestInv, ServerTypeOK
<1>2. \A d \in Conns : d # c => at[d] \notin {"sync"} \cup Connecting
  BY <1>1, KeyOpAlone
<1>3. session # NoSession => Entry(sessKey, via[session]) \in Keys
  BY <1>1, <1>2 DEF KeyedInv, ConnectedKeyStored, Entry
<1>4. at'[c] \in {"sync", "answered"} /\ \A d \in Conns : d # c => at'[d] = at[d]
  BY <1>1
<1>5. \/ Keys' = Keys /\ at'[c] = "answered"
      \/ Keys' = Keys /\ at'[c] = "sync" /\ req[c].arg = req[c].name
      \/ \E k \in Keys : k.name = req[c].name /\ at'[c] = "sync"
                          /\ Keys' = (Keys \ {k}) \cup {Entry(req[c].arg, k.url)}
  <2>1. CASE Refused(c, "rename")
    BY <1>1, <2>1 DEF Refused, keyVars, Keys, Answers, Goes
  <2>2. ASSUME NEW k \in Keys, k.name = req[c].name, Rename(Store, k, req[c].arg),
               Done(c, "rename", "sync")
        PROVE  \/ Keys' = Keys /\ at'[c] = "answered"
               \/ at'[c] = "sync" /\ Keys' = (Keys \ {k}) \cup {Entry(req[c].arg, k.url)}
    <3>1. k \in Key
      BY <1>1, <2>2, StoreOpen
    <3>2. [k EXCEPT !.name = req[c].arg] = Entry(req[c].arg, k.url)
      BY <3>1 DEF Key, Entry
    <3>3. \/ Keys' = (Keys \ {k}) \cup {Entry(req[c].arg, k.url)} /\ writeFaults' = writeFaults
          \/ Keys' = Keys /\ writeFaults' # writeFaults
      BY <1>1, <2>2, <3>2, KeysAfter DEF Rename, Keys, Done
    <3> QED BY <1>1, <2>2, <3>3 DEF Done, Answers, Goes
  <2>3. CASE req[c].arg = req[c].name /\ Goes(c, "rename", "sync") /\ UNCHANGED keyVars
    BY <1>1, <2>3 DEF Goes, keyVars, Keys
  <2> QED BY <2>1, <2>2, <2>3 DEF DoRename
<1>6. CASE Keys' = Keys /\ at'[c] = "answered"
  <2>1. ConnectedKeyStored'
    BY <1>1, <1>3, <1>6 DEF ConnectedKeyStored, Entry
  <2>2. \A d \in Conns : KeyAt(d)'
    BY <1>1, <1>2, <1>4, <1>6 DEF KeyedInv, KeyAt, Connecting
  <2> QED BY <1>1, <2>1, <2>2 DEF KeyedInv
<1>7. ASSUME NEW k \in Keys, k.name = req[c].name, at'[c] = "sync",
             Keys' = (Keys \ {k}) \cup {Entry(req[c].arg, k.url)}
      PROVE  KeyedInv'
  <2>1. ConnectedKeyStored'
    BY <1>7 DEF ConnectedKeyStored
  <2>2. \A d \in Conns : d # c => KeyAt(d)'
    BY <1>1, <1>2, <1>4 DEF KeyedInv, KeyAt, Connecting
  <2>3. KeyAt(c)'
    <3> SUFFICES ASSUME session # NoSession
                 PROVE  Entry(IF sessKey = req[c].name THEN req[c].arg ELSE sessKey, via[session]) \in Keys'
      BY <1>1, <1>7 DEF KeyAt, Connecting, Entry
    <3>1. CASE sessKey = req[c].name
      <4>1. \A i, j \in Keys : i.name = j.name => i = j
        BY <1>1, StoreOpen, StoreIsOne DEF KeyInv, Sound, WellFormed, Keys
      <4>2. k = Entry(sessKey, via[session])
        BY <1>3, <1>7, <3>1, <4>1 DEF Entry
      <4> QED BY <1>7, <3>1, <4>2 DEF Entry
    <3>2. CASE sessKey # req[c].name
      BY <1>3, <1>7, <3>2 DEF Entry
    <3> QED BY <3>1, <3>2
  <2> QED BY <1>1, <2>1, <2>2, <2>3 DEF KeyedInv
<1>8. CASE Keys' = Keys /\ at'[c] = "sync" /\ req[c].arg = req[c].name
  <2>1. ConnectedKeyStored'
    BY <1>8 DEF ConnectedKeyStored
  <2>2. \A d \in Conns : d # c => KeyAt(d)'
    BY <1>1, <1>2, <1>4 DEF KeyedInv, KeyAt, Connecting
  <2>3. KeyAt(c)'
    BY <1>1, <1>3, <1>8 DEF KeyAt, Connecting, Entry
  <2> QED BY <1>1, <2>1, <2>2, <2>3 DEF KeyedInv
<1> QED BY <1>5, <1>6, <1>7, <1>8

\* The steps of a connect up to the lock, and requests that read or add keys.
LEMMA LookupKeyed ==
    ASSUME OwnerInv, KeyInv, RequestInv', KeyedInv, NEW c \in Conns, ReadActive(c) \/ GetKey(c)
    PROVE  KeyedInv'
<1>1. /\ at[c] \in {"active", "get"} /\ RequestInv /\ Handled(c)
      /\ at \in [Conns -> Steps] /\ req \in [Conns -> RequestType]
      /\ UNCHANGED <<session, sessKey, held, via>> /\ Keys' = Keys
  BY DEF ReadActive, GetKey, KeyedInv, RequestInv, ServerTypeOK, Handled, RequestType, keyVars, Keys
<1>2. \A d \in Conns : d # c => at'[d] = at[d] /\ req'[d] = req[d]
  BY <1>1 DEF ReadActive, GetKey, Goes, Answers
<1>3. /\ at'[c] \in {"get", "lock", "answered"}
      /\ at'[c] = "lock" => Entry(req'[c].name, req'[c].arg) \in Keys
  <2>1. CASE ReadActive(c)
    BY <1>1, <2>1 DEF ReadActive, Goes, Answers
  <2>2. ASSUME NEW k \in Keys, k.name = req[c].name, Goes(c, "get", "lock"),
               req' = [req EXCEPT ![c].arg = k.url]
        PROVE  at'[c] = "lock" /\ Entry(req'[c].name, req'[c].arg) \in Keys
    <3>1. k \in Key
      BY <1>1, <2>2, StoreOpen
    <3>2. req'[c].name = k.name /\ req'[c].arg = k.url
      BY <1>1, <2>2 DEF RequestType
    <3>3. k = Entry(k.name, k.url)
      BY <3>1 DEF Key, Entry
    <3> QED BY <1>1, <2>2, <3>2, <3>3 DEF Goes
  <2>3. CASE Answers(c, "get", "error")
    BY <1>1, <2>3 DEF Answers, Goes
  <2> QED BY <2>1, <2>2, <2>3 DEF GetKey
<1>4. ConnectedKeyStored'
  BY <1>1, <1>2, <1>3 DEF KeyedInv, ConnectedKeyStored
<1>5. \A d \in Conns : KeyAt(d)'
  BY <1>1, <1>2, <1>3 DEF KeyedInv, KeyAt, Connecting, Entry
<1> QED BY <1>1, <1>4, <1>5 DEF KeyedInv

\* The published session is taken, by a handler or by Run.
LEMMA TakenKeyed ==
    ASSUME KeyedInv, RequestInv', session' = NoSession, sessKey' = NoName,
           UNCHANGED <<req, via>>, Keys' = Keys,
           \A d \in Conns :
               /\ at'[d] \in Connecting => at[d] \in Connecting
               /\ at'[d] = "starting" => at[d] = "starting" /\ held'[d] = held[d]
    PROVE  KeyedInv'
<1>1. \A d \in Conns : at'[d] = "remove" => req'[d].name # NoName
  BY NoNameAssumption DEF RequestInv, RequestAt
<1>2. \A d \in Conns : KeyAt(d)'
  BY <1>1 DEF KeyedInv, KeyAt
<1> QED BY <1>2 DEF KeyedInv, ConnectedKeyStored

\* A connect publishes the session of its key.
LEMMA PublishKeyed ==
    ASSUME KeysApart, OwnerInv, KeyInv, RequestInv', KeyedInv, NEW c \in Conns, Publish(c)
    PROVE  KeyedInv'
<1>1. /\ at[c] = "starting" /\ at' = [at EXCEPT ![c] = "mark"] /\ at \in [Conns -> Steps]
      /\ session' = held[c] /\ sessKey' = req[c].name /\ held' = [held EXCEPT ![c] = NoSession]
      /\ held \in [Conns -> Sessions \cup {NoSession}]
      /\ UNCHANGED <<req, via>> /\ Keys' = Keys /\ RequestInv
  BY DEF Publish, Goes, KeyedInv, RequestInv, ServerTypeOK, keyVars, Keys
<1>2. \A d \in Conns : d # c => at[d] \notin {"remove", "sync"}
  BY <1>1, KeyOpAlone DEF Connecting
<1>3. \A d \in Conns : d # c => at'[d] = at[d] /\ held'[d] = held[d]
  BY <1>1
<1>4. /\ Entry(req[c].name, req[c].arg) \in Keys /\ via[held[c]] = req[c].arg
      /\ held[c] # NoSession /\ at'[c] = "mark"
  BY <1>1 DEF KeyedInv, KeyAt, Connecting, Entry, OwnerInv, OwnerAt, Holding
<1>5. ConnectedKeyStored'
  BY <1>1, <1>4 DEF ConnectedKeyStored, Entry
<1>6. \A d \in Conns : KeyAt(d)'
  BY <1>1, <1>2, <1>3, <1>4 DEF KeyedInv, KeyAt, Connecting, Entry
<1> QED BY <1>1, <1>4, <1>5, <1>6 DEF KeyedInv

\* A connect builds the session of its key.
LEMMA BuildKeyed ==
    ASSUME OwnerInv, RequestInv', KeyedInv, NEW c \in Conns, NEW s \in Sessions, BuildSession(c, s)
    PROVE  KeyedInv'
<1> USE NoSessionAssumption
<1>1. /\ at[c] = "build" /\ at' = [at EXCEPT ![c] = "starting"] /\ at \in [Conns -> Steps]
      /\ held' = [held EXCEPT ![c] = s] /\ held \in [Conns -> Sessions \cup {NoSession}]
      /\ via' = [via EXCEPT ![s] = req[c].arg] /\ via \in [Sessions -> Urls \cup {NoUrl}]
      /\ UNCHANGED <<session, sessKey, req>> /\ Keys' = Keys
      /\ session # s /\ \A d \in Conns : held[d] # s
      /\ session \in Sessions \cup {NoSession}
  BY DEF BuildSession, Unused, Goes, KeyedInv, RequestInv, ServerTypeOK, keyVars, Keys
<1>2. \A d \in Conns : d # c => at'[d] = at[d] /\ held'[d] = held[d]
  BY <1>1
<1>3. at'[c] = "starting" /\ held'[c] = s /\ via'[s] = req[c].arg
  BY <1>1
<1>4. session # NoSession => via'[session] = via[session]
  BY <1>1
<1>5. \A d \in Conns : at[d] = "starting" => held[d] \in Sessions /\ via'[held[d]] = via[held[d]]
  BY <1>1 DEF OwnerInv, OwnerAt, Holding
<1>6. ConnectedKeyStored'
  BY <1>1, <1>2, <1>3, <1>4 DEF KeyedInv, ConnectedKeyStored
<1>7. \A d \in Conns : KeyAt(d)'
  BY <1>1, <1>2, <1>3, <1>4, <1>5 DEF KeyedInv, KeyAt, Connecting
<1> QED BY <1>1, <1>6, <1>7 DEF KeyedInv

\* The session a handler releases is neither the published one nor another handler's.
LEMMA ReleaseKeyed ==
    ASSUME OwnerInv, RequestInv', KeyedInv, NEW c \in Conns,
           SwitchClosed(c) \/ StartFailed(c) \/ CloseReturns(c)
    PROVE  KeyedInv'
<1> USE NoSessionAssumption
<1>1. /\ at[c] \in Holding /\ held[c] \in Sessions /\ held[c] # session /\ Release(c)
      /\ at \in [Conns -> Steps] /\ held \in [Conns -> Sessions \cup {NoSession}]
      /\ via \in [Sessions -> Urls \cup {NoUrl}] /\ session \in Sessions \cup {NoSession}
      /\ UNCHANGED <<session, sessKey, req>> /\ Keys' = Keys
  BY DEF SwitchClosed, StartFailed, CloseReturns, OwnerInv, OwnerAt, Holding, KeyedInv, RequestInv,
     ServerTypeOK, keyVars, Keys
<1>2. \/ at' = [at EXCEPT ![c] = "answered"]
      \/ at[c] = "switching" /\ at' = [at EXCEPT ![c] = "build"]
  BY DEF SwitchClosed, StartFailed, CloseReturns, Answers, Goes
<1>3. /\ \A d \in Conns : d # c => at'[d] = at[d] /\ held'[d] = held[d]
      /\ at'[c] \in {"answered", "build"} /\ (at'[c] = "build" => at[c] = "switching")
  BY <1>1, <1>2 DEF Release
<1>4. session # NoSession => via'[session] = via[session]
  BY <1>1 DEF Release
<1>5. \A d \in Conns : d # c /\ at[d] = "starting" => via'[held[d]] = via[held[d]]
  BY <1>1 DEF Release, OwnerInv, OwnerAt, Holding
<1> QED BY <1>1, <1>3, <1>4, <1>5, KeyedFrame DEF Connecting, Holding

\* A connection comes or goes: nothing is claimed of its request.
LEMMA ConnectionKeyed ==
    ASSUME OwnerInv, RequestInv', KeyedInv, NEW c \in Conns,
           Respond(c) \/ \E r \in Requests : Accept(c, r)
    PROVE  KeyedInv'
<1>1. PICK x, q : /\ at' = [at EXCEPT ![c] = x] /\ req' = [req EXCEPT ![c] = q]
                  /\ x \notin {"sync", "remove"} \cup Connecting
  <2>1. CASE Respond(c)
    <3>1. AfterClose \notin {"sync", "remove"} \cup Connecting
      BY DEF AfterClose, Connecting
    <3> QED BY <2>1, <3>1 DEF Respond, Goes
  <2>2. ASSUME NEW r \in Requests, Accept(c, r) PROVE Dispatch(r) \notin {"sync", "remove"} \cup Connecting
    <3>1. r.method \in {"remove", "use", "rename", "add", "list", "connect", "disconnect", "undo",
                        "status", "ping"}
      BY DEF Requests, KeyRequests, SessionRequests
    <3> QED BY <3>1 DEF Dispatch, Connecting
  <2> QED BY <2>1, <2>2 DEF Accept
<1>2. /\ at[c] \in {"idle", "answered"} /\ at \in [Conns -> Steps] /\ req \in [Conns -> RequestType]
      /\ UNCHANGED <<session, sessKey, held, via>> /\ Keys' = Keys
  BY DEF Respond, Accept, Goes, KeyedInv, RequestInv, ServerTypeOK, RequestType, keyVars, Keys
<1>3. at'[c] = x /\ \A d \in Conns : d # c => at'[d] = at[d] /\ req'[d] = req[d]
  BY <1>1, <1>2
<1>4. ConnectedKeyStored'
  BY <1>1, <1>2, <1>3 DEF KeyedInv, ConnectedKeyStored
<1>5. \A d \in Conns : KeyAt(d)'
  BY <1>1, <1>2, <1>3 DEF KeyedInv, KeyAt, Connecting
<1> QED BY <1>2, <1>4, <1>5 DEF KeyedInv

\* The second half of a rename.
LEMMA SyncKeyed ==
    ASSUME KeysApart, RequestInv', KeyedInv, NEW c \in Conns, SyncSessKey(c)
    PROVE  KeyedInv'
<1>1. /\ at[c] = "sync" /\ at' = [at EXCEPT ![c] = "answered"] /\ at \in [Conns -> Steps]
      /\ sessKey' = IF sessKey = req[c].name THEN req[c].arg ELSE sessKey
      /\ UNCHANGED <<session, req, held, via>> /\ Keys' = Keys /\ RequestInv
      /\ req[c].name \in Names
  BY DEF SyncSessKey, Answers, Goes, KeyedInv, RequestInv, RequestAt, ServerTypeOK, keyVars, Keys
<1>2. \A d \in Conns : d # c => at[d] \notin {"remove", "sync"} \cup Connecting
  BY <1>1, KeyOpAlone
<1>3. session # NoSession => Entry(sessKey', via[session]) \in Keys
  BY <1>1 DEF KeyedInv, KeyAt, Entry
<1>4. session = NoSession => sessKey' = NoName
  BY <1>1, NoNameAssumption DEF KeyedInv
<1>5. ConnectedKeyStored'
  BY <1>1, <1>3 DEF ConnectedKeyStored, Entry
<1>6. \A d \in Conns : KeyAt(d)'
  BY <1>1, <1>2 DEF KeyedInv, KeyAt, Connecting
<1> QED BY <1>1, <1>4, <1>5, <1>6 DEF KeyedInv

\* The check of a removal.
LEMMA CheckRemoveKeyed ==
    ASSUME RequestInv', KeyedInv, NEW c \in Conns, CheckRemove(c)
    PROVE  KeyedInv'
<1>1. /\ at[c] = "check" /\ at \in [Conns -> Steps]
      /\ \/ at' = [at EXCEPT ![c] = "answered"]
         \/ sessKey # req[c].name /\ at' = [at EXCEPT ![c] = "remove"]
      /\ UNCHANGED <<session, sessKey, req, held, via>> /\ Keys' = Keys
  BY DEF CheckRemove, Answers, Goes, KeyedInv, RequestInv, ServerTypeOK, keyVars, Keys
<1>2. ConnectedKeyStored'
  BY <1>1 DEF KeyedInv, ConnectedKeyStored
<1>3. \A d \in Conns : KeyAt(d)'
  BY <1>1 DEF KeyedInv, KeyAt, Connecting
<1> QED BY <1>1, <1>2, <1>3 DEF KeyedInv

\* A handler's steps.
LEMMA HandleKeyed ==
    ASSUME KeysApart, OwnerInv, KeyInv, RequestInv', KeyedInv, NEW c \in Conns, Handle(c)
    PROVE  KeyedInv'
<1>1. at \in [Conns -> Steps] /\ RequestInv
  BY DEF KeyedInv, RequestInv, ServerTypeOK
<1> USE DEF Answers, Goes
<1>2. CASE SwitchKey(c) \/ TakeToClose(c)
  <2>1. /\ session' = NoSession /\ sessKey' = NoName /\ UNCHANGED <<req, via>> /\ Keys' = Keys
        /\ held' = [held EXCEPT ![c] = session]
        /\ \/ at[c] = "lock" /\ at' = [at EXCEPT ![c] = "switching"]
           \/ at' = [at EXCEPT ![c] = "closing"]
    BY <1>2 DEF SwitchKey, TakeToClose, Take, keyVars, Keys
  <2>2. held \in [Conns -> Sessions \cup {NoSession}]
    BY DEF OwnerInv, ControlTypeOK
  <2> QED BY <1>1, <2>1, <2>2, TakenKeyed DEF Connecting
<1>3. CASE DoAdd(c) \/ DoUse(c) \/ Mark(c)
  <2>1. /\ at[c] \in {"add", "use", "mark"} /\ at' = [at EXCEPT ![c] = "answered"] /\ Handled(c)
        /\ UNCHANGED <<session, sessKey, req, held, via>>
    BY <1>3 DEF DoAdd, DoUse, Mark, Done, Refused, Handled
  <2>2. Keys \subseteq Keys'
    <3>1. UNCHANGED keyVars => Keys' = Keys
      BY DEF keyVars, Keys
    <3>2. ASSUME Add(Store, req[c].arg, req[c].name), mem'[Store] # Closed
          PROVE  Keys \subseteq Keys'
      BY <1>1, <2>1, <3>2, KeysAfter DEF Add, Keys
    <3>3. ASSUME NEW k, SetActive(Store, k), mem'[Store] # Closed
          PROVE  Keys \subseteq Keys'
      <4>1. mem[Store] \in FileState
        BY <1>1, <2>1, StoreOpen
      <4>2. [mem[Store] EXCEPT !.active = k.name].keys = Keys
        BY <4>1 DEF FileState, Keys
      <4> QED BY <1>1, <2>1, <3>3, <4>2, KeysAfter DEF SetActive, Keys
    <3> QED BY <1>3, <3>1, <3>2, <3>3 DEF DoAdd, DoUse, Mark, Use, MarkConnected, Refused, Done
  <2> QED BY <1>1, <2>1, <2>2, KeyedFrame DEF Connecting
<1>4. CASE \/ ReadOnly(c) \/ DoStatus(c) \/ AlreadyConnected(c) \/ NotConnected(c)
           \/ NothingToClose(c) \/ UndoStandalone(c) \/ StandaloneReturns(c)
  <2>1. /\ \/ at' = [at EXCEPT ![c] = "answered"]
           \/ at[c] = "lock" /\ at' = [at EXCEPT ![c] = "build"]
           \/ at' = [at EXCEPT ![c] = "undoing"]
        /\ at[c] # "sync"
        /\ UNCHANGED <<session, sessKey, req, held, via>> /\ Keys' = Keys
    BY <1>4 DEF ReadOnly, DoStatus, AlreadyConnected, NotConnected, NothingToClose, UndoStandalone,
       StandaloneReturns, keyVars, Keys
  <2> QED BY <1>1, <2>1, KeyedFrame DEF Connecting
<1> QED BY <1>1, <1>2, <1>3, <1>4, ConnectionKeyed, LookupKeyed, BuildKeyed, ReleaseKeyed, PublishKeyed,
           CheckRemoveKeyed, DoRemoveKeyed, DoRenameKeyed, SyncKeyed
        DEF Handle, ConnectStep, CloseStep, KeyStep

\* Every step.
LEMMA NextKeyed ==
    ASSUME KeysApart, OwnerInv, OwnerInv', KeyInv, KeyedInv, [ServerNext]_allVars
    PROVE  KeyedInv'
<1>1. RequestInv'
  BY NextRequests DEF KeyedInv
<1>2. CASE \E c \in Conns : Handle(c) \/ \E r \in Requests : Accept(c, r)
  BY <1>1, <1>2, HandleKeyed, ConnectionKeyed
<1>3. CASE ShutdownTakes
  BY <1>1, <1>3, TakenKeyed DEF ShutdownTakes, connVars, keyVars, Keys
<1>4. ASSUME NoHandlers', session' = NoSession, sessKey' = NoName PROVE KeyedInv'
  <2>1. ConnectedKeyStored'
    BY <1>4 DEF ConnectedKeyStored
  <2>2. \A c \in Conns : at'[c] \in {"idle", "over"}
    BY <1>4 DEF NoHandlers, Handled
  <2>3. \A c \in Conns : KeyAt(c)'
    BY <2>2 DEF KeyAt, Connecting
  <2> QED BY <1>1, <1>4, <2>1, <2>3 DEF KeyedInv
<1>5. CASE ServerExit \/ ServerCrash
  <2>1. session' = NoSession /\ sessKey' = NoName /\ daemon' = "dead"
    BY <1>5 DEF ServerExit, ServerCrash, Crash, KeyedInv
  <2> QED BY <1>4, <2>1 DEF OwnerInv
<1>6. CASE ServerStarts
  <2>1. session' = NoSession /\ sessKey' = NoName /\ NoHandlers'
    BY <1>6 DEF ServerStarts, StartDaemon, serverVars, connVars, OwnerInv, KeyedInv, NoHandlers, Handled
  <2> QED BY <1>4, <2>1
<1>7. ASSUME UNCHANGED <<serverVars, keyVars>> PROVE KeyedInv'
  BY <1>1, <1>7, KeyedFrame DEF serverVars, connVars, keyVars, Keys
<1> QED BY <1>2, <1>3, <1>5, <1>6, <1>7 DEF ServerNext, SessionActs, SessionErrs, ScriptActs, ScriptErrs,
        SigTerm, StopPostRuns, StopPostDone, FallbackStarts, FallbackEnds, allVars

\* With clients that keep connects, renames and removals apart, the key of a connect
\* is there until it is answered and sessKey follows every rename.
THEOREM Keyed == ASSUME KeysApart PROVE ServerSpec => []KeyedInv
<1>1. ServerInit /\ RequestInv => KeyedInv
  BY DEF ServerInit, KeyedInv, ConnectedKeyStored, KeyAt, Connecting
<1>2. OwnerInv /\ OwnerInv' /\ KeyInv /\ KeyedInv /\ [ServerNext]_allVars => KeyedInv'
  BY NextKeyed
<1> QED BY <1>1, <1>2, Owned, RequestsInOrder, PTL DEF ServerSpec

\* The key `ouf status` names is stored under that name with the URL in use, except
\* between the two halves of a rename (doConnect, doRemove and doRename).
THEOREM KeyKept == ASSUME KeysApart PROVE ServerSpec => []ConnectedKeyStored
<1>1. KeyedInv => ConnectedKeyStored
  BY DEF KeyedInv
<1> QED BY <1>1, Keyed, PTL
=============================================================================

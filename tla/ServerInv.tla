------------------------------ MODULE ServerInv ------------------------------
(***************************************************************************)
(* The inductive invariants of Server: who owns a session, whatever        *)
(* requests overlap, and what clients may rely on that connect and undo    *)
(* one at a time.                                                          *)
(***************************************************************************)
EXTENDS Server, LifecycleInv

\* The steps at which a handler holds a session.
Holding == {"switching", "starting", "closing"}

\* What the handler of connection c knows of the session it holds.
OwnerAt(c) ==
    /\ held[c] = NoSession <=> at[c] \notin Holding
    /\ held[c] # NoSession => held[c] # session
    /\ at[c] = "starting" =>
          pc[held[c]] \in Starting \cup {"up", "cleanup", "cleanup_panic", "failed"}
    /\ at[c] \in {"switching", "closing"} =>
          pc[held[c]] \in {"closing", "close_panic", "closed", "close_failed"}

\* The types this part of the invariant needs.
ControlTypeOK ==
    /\ session \in Sessions \cup {NoSession}
    /\ at \in [Conns -> Steps] /\ held \in [Conns -> Sessions \cup {NoSession}]
    /\ pc \in [Sessions -> Starting \cup Stopping \cup Reverting \cup Over \cup {"up"}]

\* The inductive invariant that OneOwner and PublishedIsUp rest on, for any overlap
\* of requests: handlers hold different sessions, none holds the published one, a
\* session in motion is some handler's or the stopping daemon's last, and a process
\* that has ended has left neither handlers nor sessions.
OwnerInv ==
    /\ ControlTypeOK /\ PublishedIsUp
    /\ \A c \in Conns : OwnerAt(c)
    /\ \A c, d \in Conns : held[c] = held[d] /\ held[c] # NoSession => c = d
    /\ \A s \in Sessions : Busy(s) /\ Owners(s) = {} => daemon = "stopping" /\ NoHandlers
    /\ daemon \notin {"running", "stopping"} =>
          session = NoSession /\ NoHandlers /\ \A s \in Sessions : pc[s] \in Over

-----------------------------------------------------------------------------
(***************************************************************************)
(* Requests and keys.                                                      *)
(***************************************************************************)

\* The steps of a connect at which its key has been looked up.
Connecting == {"lock", "switching", "build", "starting", "mark"}

\* What the steps of a handler say of its request.
RequestAt(c) ==
    /\ at[c] \in {"active", "get"} \cup Connecting => req[c].method = "connect"
    /\ at[c] \in {"get"} \cup Connecting => req[c].name \in Names
    /\ at[c] \in Connecting => req[c].arg \in Urls
    /\ at[c] \in {"take", "closing"} => req[c].method \in {"disconnect", "undo"}
    /\ at[c] = "undoing" => req[c].method = "undo"
    /\ at[c] \in {"check", "remove"} => req[c].method = "remove" /\ req[c].name \in Names
    /\ at[c] \in {"rename", "sync"} =>
          req[c].method = "rename" /\ req[c].name \in Names /\ req[c].arg \in Names
    /\ at[c] = "add" => req[c].method = "add" /\ req[c].name \in Names /\ req[c].arg \in Urls
    /\ at[c] = "use" => req[c].method = "use" /\ req[c].name \in Names
    /\ at[c] = "read" => req[c].method \in {"list", "ping"}
    /\ at[c] = "status" => req[c].method = "status"

\* Requests that exclude each other are not in flight together.
Apart ==
    \A c, d \in Conns :
        c # d /\ Handled(c) /\ Handled(d) => {req[c].method, req[d].method} \notin Excluded

\* Well-formed requests, apart from each other, in a process that has the store open.
RequestInv ==
    /\ ServerTypeOK /\ Apart
    /\ \A c \in Conns : RequestAt(c)
    /\ daemon \in {"running", "stopping"} => IsOpen(Store)

\* The proviso of this part: clients do not rename or remove keys while one of them
\* connects or renames (ClaimRemove.cfg and ClaimRename.cfg show what happens else).
KeysApart == \A a \in {"connect", "rename"}, b \in {"rename", "remove"} : {a, b} \in Excluded

\* The key of a connect is stored until the connect is answered, and a key that is
\* about to be removed is not the connected one.
KeyAt(c) ==
    /\ at[c] \in Connecting => [name |-> req[c].name, url |-> req[c].arg] \in Keys
    /\ at[c] = "starting" => via[held[c]] = req[c].arg
    /\ at[c] = "remove" => sessKey # req[c].name
    /\ at[c] = "sync" /\ session # NoSession =>
          [name |-> IF sessKey = req[c].name THEN req[c].arg ELSE sessKey,
           url |-> via[session]] \in Keys

\* The inductive invariant, on top of OwnerInv, RequestInv and KeyInv, that
\* ConnectedKeyStored rests on: between GetKey and MarkConnected nobody takes the key
\* of a connect away, and between the two halves of a rename the connected key has
\* the name that SyncSessKey will give it.
KeyedInv ==
    /\ RequestInv /\ ConnectedKeyStored
    /\ session = NoSession => sessKey = NoName
    /\ \A c \in Conns : KeyAt(c)

-----------------------------------------------------------------------------
(***************************************************************************)
(* One connect at a time, and an undo on its own.                          *)
(***************************************************************************)

\* The proviso of this part: clients connect one at a time, undo only when no other of
\* connect, disconnect and undo is in flight, and do not give up on an undo
\* (ClaimConnects.cfg, ClaimUndo.cfg, ClaimOneSession.cfg and ClaimGetBack.cfg show what
\* happens else); they disconnect whenever they like.
ConnectsApart ==
    /\ ~Timeouts /\ {"connect"} \in Excluded
    /\ \A a \in {"connect", "disconnect", "undo"} : {a, "undo"} \in Excluded

\* The stronger proviso of OkInv and of ImplementsLifecycle: clients have one of connect,
\* disconnect and undo in flight at a time.
Exclusive ==
    ~Timeouts /\ \A a, b \in {"connect", "disconnect", "undo"} : {a, b} \in Excluded

\* The steps of connect, disconnect and undo.
Commanding == {"active", "get", "take", "undoing"} \cup Connecting \cup Holding

\* At these steps nothing is published.
Alone == {"build", "undoing", "switching", "starting"}

\* The program counters of a session whose TUN device may exist.
WithTun == (Mutating \ {"ipv6", "ipv6_log", "device", "tun"}) \cup Stopping \cup {"up"}

\* Every script is waited for: by the handler of an undo, by systemd or by the session
\* that started it.
Awaited(r) ==
    script[r] # "idle" =>
        \/ r = Standalone /\ \E c \in Conns : at[c] = "undoing"
        \/ r = StopPost /\ daemon = "stop_post"
        \/ r \in Sessions /\ pc[r] \in Reverting

\* A session that Run closes itself when the daemon stops.
Left(s) == Busy(s) /\ Owners(s) = {}

\* The inductive invariant, on top of OwnerInv and RequestInv, that makes the serial
\* Lifecycle of the concurrent Server: a script runs only for the one who waits for
\* it, a session is up only for the one who owns it, nothing is published while a
\* connect or a standalone script is at work, and a TUN device belongs to a session
\* that has yet to close it.
OneCommandInv ==
    /\ ~meddled /\ script \in [Runners -> Commands \cup Exits \cup {"idle"}]
    /\ \A r \in Runners : Awaited(r)
    /\ \A c \in Conns : at[c] \in Alone => session = NoSession
    /\ \A s \in Sessions :
          /\ pc[s] = "up" => session = s \/ Owners(s) # {}
          /\ Left(s) => session = NoSession /\ pc[s] \in {"closing", "close_panic"}
          /\ tun = s => pc[s] \in WithTun
    /\ \A s, t \in Sessions : Left(s) /\ Left(t) => s = t

\* On top of these, what OkMeansReverted rests on: as long as a script's success has
\* not been reported, by the script or by the session that ran it, the host is what it
\* was (the snapshot may still be there, if it could not be removed).
OkInv ==
    /\ \A r \in Runners : script[r] = "exit0" => HostState = OriginalState
    /\ \A c \in Conns : at[c] \in {"switching", "closing"} /\ pc[held[c]] = "closed" =>
                            HostState = OriginalState
==============================================================================

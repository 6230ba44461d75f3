------------------------------ MODULE MCServer ------------------------------
(* The instances of Server that TLC checks. *)
EXTENDS ServerInv, TLC

CONSTANTS n1, n2, u1, u2

StoredKeys == {[name |-> n1, url |-> u1], [name |-> n2, url |-> u2]}

\* Two stored keys, the first one active.
TwoKeys == {[keys |-> StoredKeys, active |-> n1]}

OneKey == {[keys |-> {[name |-> n1, url |-> u1]}, active |-> n1]}

\* Clients have one of connect, disconnect and undo in flight at a time.
OneAtATime == {{a, b} : a, b \in {"connect", "disconnect", "undo"}}

\* Nor do they rename or remove keys while one of them connects or renames.
Orderly == OneAtATime \cup {{a, b} : a \in {"connect", "rename"}, b \in {"rename", "remove"}}

\* Clients connect one at a time and undo alone, but disconnect at any time.
OneConnect == OneAtATime \ {{"connect", "disconnect"}, {"disconnect"}}

\* Clients connect one at a time, and that is all they agree on.
NotTwoConnects == {{"connect"}}

\* Connections and session objects have no identity.
Interchangeable == Permutations(Conns) \cup Permutations(Sessions)

\* Start of session s has returned: the host is tunnelled.
UpHost(s) ==
    /\ original \in {o \in Originals : o.tun = NoTun}
    /\ ipv6 = "1" /\ tun = s /\ routes = {GwRoute, DefRoute} /\ rules = AllPriorities
    /\ resolv = RegularFile(OurContent, "0644") /\ resolvTmp = FALSE
    /\ backup = IF original.resolv.kind = "file" THEN original.resolv.text ELSE BadBackup
    /\ snapshot = [resolv_conf |-> OriginalState.resolv, value_before |-> original.ipv6,
                   actions |-> LastAction, done |-> 1 .. LastAction]
    /\ faults = MaxFaults /\ daemon = "running" /\ meddled = FALSE /\ PanicInit
    /\ disk \in InitialFiles /\ mem = [st \in Stores |-> disk]
    /\ acked = disk.keys /\ doubt = {} /\ writeFaults = MaxWriteFaults
    /\ pc = [x \in Sessions |-> IF x = s THEN "up" ELSE "new"]
    /\ writer = [x \in Sessions |-> IF x = s THEN snapshot ELSE NewWriter]
    /\ via = [x \in Sessions |-> IF x = s THEN u1 ELSE NoUrl]
    /\ resp = [c \in Conns |-> "none"]

\* A daemon that one client has connected with the first key, and nothing in flight.
UpInit ==
    /\ session \in Sessions /\ sessKey = n1 /\ UpHost(session)
    /\ at = [c \in Conns |-> "idle"] /\ req = [c \in Conns |-> NoRequest]
    /\ held = [c \in Conns |-> NoSession]

\* A daemon whose handler of a connect with the first key is about to publish it.
StartedInit ==
    \E s \in Sessions, d \in Conns :
        /\ session = NoSession /\ sessKey = NoName /\ UpHost(s)
        /\ at = [c \in Conns |-> IF c = d THEN "starting" ELSE "idle"]
        /\ req = [c \in Conns |-> IF c = d THEN [method |-> "connect", name |-> n1, arg |-> u1]
                                  ELSE NoRequest]
        /\ held = [c \in Conns |-> IF c = d THEN s ELSE NoSession]

\* Of the hosts, one whose sysctl a session changes and that has no interface with
\* our name; the others are for the runs of Lifecycle and of ServerSpec.
Plain == original.ipv6 = "0" /\ original.tun = NoTun

\* A daemon that is not connected when the requests arrive, one that is, and one
\* that is about to be.
PlainFresh   == ServerInit /\ Plain
PlainUp      == UpInit /\ Plain
PlainStarted == StartedInit /\ Plain

FreshSpec   == PlainFresh /\ [][ServerNext]_allVars
UpSpec      == PlainUp /\ [][ServerNext]_allVars
StartedSpec == PlainStarted /\ [][ServerNext]_allVars

FairFreshSpec == FreshSpec /\ ServerFairness

\* ServerNext without the end of the daemon.
StayNext ==
    \/ \E c \in Conns : Handle(c) \/ \E r \in Requests : Accept(c, r)
    \/ \E s \in Sessions : SessionActs(s) \/ SessionErrs(s)
    \/ \E r \in Runners : ScriptActs(r) \/ ScriptErrs(r)
    \/ FallbackStarts \/ FallbackEnds

\* A daemon that is connected and that nobody stops.
StaySpec     == PlainUp /\ [][StayNext]_allVars
FairStaySpec == StaySpec /\ ServerFairness
=============================================================================

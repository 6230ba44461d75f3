---------------------------- MODULE ServerClaims ----------------------------
(***************************************************************************)
(* What the README and the comments say of the daemon and what concurrent  *)
(* requests make of it.  TLC finds every property here violated, each with *)
(* the configuration that README.md names (section 4).                     *)
(***************************************************************************)
EXTENDS MCServer

\* README.md:22: "If anything goes wrong you can always get back to a working
\* network" and scripts/ouf-panic:4: "Safe to run twice" - when no request is in
\* flight, one run of ouf-panic gives the host back.
\* ClaimGetBack.cfg: two scripts revert one session, the daemon's and the fallback of a
\* client that gave up on its undo, where resolv.conf is a symlink.  The slower one reads
\* no target, because the faster one has just removed the snapshot, and deletes the link
\* that the faster one has restored.
\* ClaimConnects.cfg: two connects at once.  The second one finds no snapshot yet, then
\* backs up the resolv.conf of the first, over the backup of the administrator's, and
\* stops at the first one's TUN; the true hash in the first one's snapshot refuses that
\* backup ever after.
AlwaysGetBack == NoHandlers /\ Idle => AlwaysRevertible

\* scripts/ouf-panic:3 and README.md:84: "Safe to run when nothing is broken" and
\* "safe if the daemon is dead, missing, or in an unknown state" - an undo leaves
\* no rules behind that no snapshot remembers.  It runs under a connect.
UndoIsSafe == NoHandlers /\ Idle /\ snapshot = NoSnapshot => rules = {}

\* cmd/oufdee/server.go:26: the server owns "(at most one) active tun.Session".
AtMostOneSession == Cardinality({s \in Sessions : pc[s] = "up"}) <= 1

\* cmd/oufdee/server.go:231: "Refuse to remove the currently-connected key".
ConnectedKeyKept ==
    NoHandlers /\ session # NoSession => \E k \in Keys : k.url = via[session]

\* cmd/oufdee/server.go:249: "Keep session's key-name pointer in sync if it renamed
\* the active one".
SessKeyInSync ==
    NoHandlers /\ session # NoSession =>
        \A k \in Keys : k.url = via[session] => k.name = sessKey

\* cmd/oufdee/server.go:385: "A snapshot file present while we're not connected
\* means a prior dirty exit" - when it is reported, nothing is being connected or
\* disconnected.
DirtyMeansDirtyExit ==
    [][\A c \in Conns : resp[c] = "none" /\ resp'[c] = "dirty" => \A s \in Sessions : ~Busy(s)]_allVars

\* scripts/ouf-panic:8: exit code 1 is "snapshot present but revert failed".
ExitOneMeansPresent ==
    [][\A r \in Runners : script[r] # "exit1" /\ script'[r] = "exit1" => snapshot # NoSnapshot]_allVars
=============================================================================

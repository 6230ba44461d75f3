-------------------------------- MODULE Host --------------------------------
(***************************************************************************)
(* The host state that oufdee mutates, and the snapshot file that records  *)
(* how to undo it.                                                         *)
(*                                                                         *)
(* The kernel side: the IPv6 sysctl, the TUN interface, the routes of our  *)
(* own routing table and the policy rules.  The file side:                 *)
(* /etc/resolv.conf, its temporary file, the backup copy and snapshot.json *)
(* under /var/lib/outline-fedora.                                          *)
(*                                                                         *)
(* internal/tun appends the actions of one session in a fixed order (the   *)
(* PLAN below), so the actions list of a snapshot is a prefix of that plan *)
(* and is represented by its length.                                       *)
(***************************************************************************)
EXTENDS Integers, FiniteSets

CONSTANTS
    Sessions,        \* tun.Session objects, the owners of a TUN descriptor
    NumBypasses,     \* len(bypasses) in installRouting: 7
    RulePriority,    \* Config.RoutingRulePriority: 23333 by default
    MaxFaults,       \* bound: calls that may fail in one behaviour
    SoftDeletesFail, \* may a deletion wrapped in soft_run fail unnoticed?
    Contents,        \* contents a resolv.conf written by others can have
    Targets,         \* targets a resolv.conf symlink can have
    OurContent,      \* what writeResolvConf writes
    NoText,          \* no content and no target
    BadBackup,       \* a backup that is missing, or that is a torn copy
    NoTun,           \* no interface has our name
    ForeignTun,      \* an interface with our name that we did not create
    NoSnapshot       \* snapshot.json is absent

ASSUME NumBypassesAssumption == NumBypasses \in Nat \ {0}

\* Config.Validate refuses a rule priority below 1000.
ASSUME RulePriorityAssumption ==
    RulePriority \in Nat /\ RulePriority >= 1000 /\ RulePriority > NumBypasses

ASSUME MaxFaultsAssumption == MaxFaults \in Nat

ASSUME SoftDeletesFailAssumption == SoftDeletesFail \in BOOLEAN

Texts == Contents \cup Targets \cup {OurContent, NoText}

ASSUME TextAssumption ==
    /\ OurContent \notin Contents \cup Targets \cup {NoText}
    /\ NoText \notin Contents \cup Targets
    /\ BadBackup \notin Texts

ASSUME TunAssumption ==
    /\ NoTun \notin Sessions /\ ForeignTun \notin Sessions
    /\ NoTun # ForeignTun

VARIABLES
    ipv6,       \* net.ipv6.conf.all.disable_ipv6, "0" or "1"
    tun,        \* who owns the interface called TunName
    routes,     \* routes of table RoutingTableID
    rules,      \* priorities at which our policy rules exist
    resolv,     \* /etc/resolv.conf
    resolvTmp,  \* does /etc/resolv.conf.ouf.tmp exist?
    backup,     \* content of backup/resolv.conf
    snapshot,   \* snapshot.json
    faults      \* calls that may still fail

hostVars == <<ipv6, tun, routes, rules, resolv, resolvTmp, backup, snapshot, faults>>

-----------------------------------------------------------------------------
(***************************************************************************)
(* The plan: position of every action of a session.                        *)
(***************************************************************************)
SysctlSet   == 1
TunCreate   == 2
ResolvWrite == 3
GwRoute     == 4
DefRoute    == 5
FirstBypass == 6
Catchall    == FirstBypass + NumBypasses
LastAction  == Catchall

\* The priority of the rule that action a adds: bypass i has priority
\* RoutingRulePriority - len(bypasses) + i, the catchall comes last.
Prio(a) == RulePriority - Catchall + a

\* The priorities of the rules that actions a to b add.
RulesOf(a, b) == Prio(a) .. Prio(b)

AllPriorities == RulesOf(FirstBypass, Catchall)
Bypasses      == RulesOf(FirstBypass, Catchall - 1)

-----------------------------------------------------------------------------
(***************************************************************************)
(* internal/snapshot.  A snapshot (the file, and the writer's copy of it   *)
(* in memory) holds the recorded pre-state and the actions.  The text of a *)
(* regular file in resolv_conf stands for sha256_before: the hash          *)
(* identifies the content that was backed up.                              *)
(***************************************************************************)
Kinds == {"absent", "file", "symlink"}

ResolvConfState == [kind : Kinds, text : Texts]

Snapshot == [resolv_conf : ResolvConfState, value_before : {"0", "1"},
             actions : 0 .. LastAction, done : SUBSET (1 .. LastAction)]

ASSUME NoSnapshotAssumption == NoSnapshot \notin Snapshot

\* snapshot.New: no pre-state recorded yet, no actions.
NewWriter == [resolv_conf |-> [kind |-> "absent", text |-> NoText],
              value_before |-> "0", actions |-> 0, done |-> {}]

AppendAction(w, isDone) ==
    [w EXCEPT !.actions = @ + 1,
              !.done = IF isDone THEN @ \cup {w.actions + 1} ELSE @]

MarkLastDone(w) ==
    [w EXCEPT !.done = IF w.actions = 0 THEN @ ELSE @ \cup {w.actions}]

\* The rule_add entries of a snapshot, in order; the i-th is Prio(FirstBypass + i).
RuleCount(sn) == IF sn.actions < FirstBypass THEN 0 ELSE sn.actions - FirstBypass + 1

RecordedPriorities(sn) == RulesOf(FirstBypass, sn.actions)

-----------------------------------------------------------------------------
(***************************************************************************)
(* Kernel and file operations.                                             *)
(***************************************************************************)
Fault == faults > 0 /\ faults' = faults - 1

AbsentFile        == [kind |-> "absent", text |-> NoText, mode |-> "none"]
RegularFile(t, m) == [kind |-> "file", text |-> t, mode |-> m]
Symlink(t)        == [kind |-> "symlink", text |-> t, mode |-> "none"]

ResolvFiles == [kind : Kinds, text : Texts, mode : {"none", "0600", "0644"}]

\* What others put at /etc/resolv.conf.
ForeignResolvFiles == {AbsentFile} \cup {RegularFile(c, "0644") : c \in Contents}
                                   \cup {Symlink(t) : t \in Targets}

\* An interface that goes away takes the routes through it along.
RemoveTun == tun' = NoTun /\ routes' = {}

\* The descriptor of session s is closed: its (non-persistent) interface goes.
CloseTun(s) ==
    /\ tun' = IF tun = s THEN NoTun ELSE tun
    /\ routes' = IF tun = s THEN {} ELSE routes

HostTypeOK ==
    /\ ipv6 \in {"0", "1"}
    /\ tun \in Sessions \cup {NoTun, ForeignTun}
    /\ routes \subseteq {GwRoute, DefRoute}
    /\ rules \subseteq AllPriorities
    /\ resolv \in ResolvFiles
    /\ resolvTmp \in BOOLEAN
    /\ backup \in Texts \cup {BadBackup}
    /\ snapshot \in Snapshot \cup {NoSnapshot}
    /\ faults \in 0 .. MaxFaults
=============================================================================

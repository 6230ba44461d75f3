----------------------------- MODULE Validation -----------------------------
(***************************************************************************)
(* internal/tun.Config and the two places that decide whether a session    *)
(* may own an interface, a routing table and a rule priority: Validate,    *)
(* before anything is touched, and the checks of scripts/ouf-panic, before *)
(* anything is reverted.  A session that the first lets through and the    *)
(* second refuses cannot be undone.                                        *)
(*                                                                         *)
(* An interface name is its length and what the two checks know of it:     *)
(* "free", "lo" or "critical" (eth*, en*, wl*, virbr*, docker*, br-*,      *)
(* veth* and "*"); the name of length 0 is empty.                          *)
(***************************************************************************)
EXTENDS Integers

CONSTANTS
    TunNames,   \* the values of Config.TunName, ...
    Tables,     \* ... Config.RoutingTableID and ...
    Priorities  \* ... Config.RoutingRulePriority that callers try

ASSUME ConfigAssumption ==
    /\ TunNames \subseteq [kind : {"free", "lo", "critical"}, len : Nat]
    /\ Tables \subseteq Int /\ Priorities \subseteq Int

VARIABLES
    stage,  \* how far the session is
    cfg,    \* its configuration
    marks   \* our_marks of its snapshot

-----------------------------------------------------------------------------
DefaultTunName             == [kind |-> "free", len |-> 7]
DefaultRoutingTableID      == 233
DefaultRoutingRulePriority == 23333
MaxTunNameLen              == 15

Configs == [name : TunNames, table : Tables, priority : Priorities, url : BOOLEAN]

\* Mutant: zero values stay.
ApplyNoDefaults(c) == c

ApplyDefaults(c) ==
    [name     |-> IF c.name.len = 0 THEN DefaultTunName ELSE c.name,
     table    |-> IF c.table = 0 THEN DefaultRoutingTableID ELSE c.table,
     priority |-> IF c.priority = 0 THEN DefaultRoutingRulePriority ELSE c.priority,
     url      |-> c.url]

\* Mutant: the table of the default routes is not reserved.
ValidateDefaultTable(c) ==
    /\ c.name.len \in 1 .. MaxTunNameLen /\ c.name.kind # "lo"
    /\ c.table > 0 /\ c.table \notin {254, 255}
    /\ c.priority >= 1000
    /\ c.url

Validate(c) ==
    /\ c.name.len \in 1 .. MaxTunNameLen /\ c.name.kind # "lo"
    /\ c.table > 0 /\ c.table \notin {253, 254, 255} /\ ~(c.table > 252 /\ c.table < 256)
    /\ c.priority >= 1000
    /\ c.url

\* The sanity checks of ouf-panic.
PanicAccepts(m) ==
    /\ m.name.len > 0 /\ m.name.kind \notin {"lo", "critical"}
    /\ m.table > 0 /\ m.table \notin {253, 254, 255}
    /\ ~(m.priority < 1000)

MarksOf(c) == [name |-> c.name, table |-> c.table, priority |-> c.priority]

-----------------------------------------------------------------------------
ValidationInit == cfg \in Configs /\ marks = MarksOf(cfg) /\ stage = "config"

\* tun.New.
BuildConfig ==
    /\ stage = "config"
    /\ cfg' = ApplyDefaults(cfg)
    /\ stage' = IF Validate(cfg') THEN "built" ELSE "refused"
    /\ UNCHANGED marks

\* Start writes the first snapshot and may stop anywhere after it.
RecordMarks ==
    /\ stage = "built" /\ stage' = "recorded"
    /\ marks' = MarksOf(cfg)
    /\ UNCHANGED cfg

\* ouf-panic reads the marks, and dies or goes on to revert.
CheckMarks ==
    /\ stage = "recorded"
    /\ stage' = IF PanicAccepts(marks) THEN "reverting" ELSE "died"
    /\ UNCHANGED <<cfg, marks>>

ValidationNext == BuildConfig \/ RecordMarks \/ CheckMarks

validationVars == <<stage, cfg, marks>>

ValidationSpec == ValidationInit /\ [][ValidationNext]_validationVars

-----------------------------------------------------------------------------
(***************************************************************************)
(* Properties.                                                             *)
(***************************************************************************)

\* For tables and priorities, Validate and ouf-panic agree in both directions: the
\* script never gives up on a session that was let through, except for the name of
\* its interface, and a session is refused only for its name, its URL, or marks that
\* the script would refuse too.
NumbersInLockstep ==
    /\ stage = "died" => marks.name.kind = "critical"
    /\ stage = "refused" =>
        ~cfg.url \/ cfg.name.kind = "lo" \/ cfg.name.len > MaxTunNameLen
            \/ ~PanicAccepts(MarksOf(cfg))

\* A Config that sets only the URL, as the daemon's does, is always let through and
\* can always be undone.
ZeroValuesAreSafe ==
    cfg.url /\ cfg.name \in {DefaultTunName} \cup {n \in TunNames : n.len = 0}
            /\ cfg.table \in {0, DefaultRoutingTableID}
            /\ cfg.priority \in {0, DefaultRoutingRulePriority} =>
        stage \notin {"refused", "died"}

Fields == [name : [kind : {"free", "lo", "critical"}, len : Nat], table : Int, priority : Int, url : BOOLEAN]

\* The inductive invariant: what the stages have checked.
ValidationInv ==
    /\ cfg \in Fields
    /\ stage \in {"config", "built", "refused", "recorded", "reverting", "died"}
    /\ stage = "refused" =>
          cfg.name.len > 0 /\ cfg.table # 0 /\ cfg.priority # 0 /\ ~Validate(cfg)
    /\ stage \in {"built", "recorded", "reverting", "died"} => Validate(cfg)
    /\ stage \in {"recorded", "reverting", "died"} => marks = MarksOf(cfg)
    /\ stage = "died" => ~PanicAccepts(marks)

\* internal/tun/config.go:88: Validate "enforces the 'our stuff only' bounds that the
\* panic script also enforces. Keep in lockstep with the checks in scripts/ouf-panic"
\* - what is let through can be undone.
InLockstep == stage # "died"
=============================================================================

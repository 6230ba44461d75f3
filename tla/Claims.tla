------------------------------- MODULE Claims -------------------------------
(***************************************************************************)
(* What the README, the docs and the comments of the repository say and    *)
(* the code does not do.  TLC finds every property here violated, each     *)
(* with the configuration that README.md names (section 4).                *)
(***************************************************************************)
EXTENDS Lifecycle

\* README.md:84: ouf-panic "reverts all host state to what it was before you
\* connected" - the permissions of /etc/resolv.conf included.
RevertsResolvMode ==
    Idle /\ ~Connected /\ snapshot = NoSnapshot => resolv = original.resolv

\* internal/tun/config.go:6: "Every host-mutating action is recorded in a
\* snapshot BEFORE it happens" - an effect of ours is in the actions on disk.
RecordedBeforeItHappens ==
    snapshot # NoSnapshot =>
        \A a \in 1 .. LastAction : a > snapshot.actions =>
            ~Applied(a) \/ (a = SysctlSet /\ original.ipv6 = "1")

\* internal/tun/routing_linux.go:76: every rule is "documented in the snapshot so
\* ouf-panic removes each one", for every priority Config.Validate lets through.
PanicRemovesEachRule == snapshot # NoSnapshot => rules \subseteq Deletable(snapshot)

\* scripts/ouf-panic:7: exit code 0 is "clean (nothing to revert, or revert
\* succeeded)".
ExitZeroMeansClean ==
    \A r \in Runners : script[r] = "exit0" => rules = {}

\* README.md:116: besides the files it lists, "Nothing else is written" - a
\* reverted host holds no file of ours in /etc.
NothingElseLeft == Idle /\ ~Connected /\ snapshot = NoSnapshot => ~resolvTmp

\* docs/snapshot-format.md:117: the panic script will "Never touch a rule at a
\* priority other than our_marks.rule_priority".
OnlyTouchesOurPriority ==
    [][\A r \in Runners : script[r] = "rules" /\ script'[r] = "rules" =>
            rules \ rules' \subseteq {RulePriority}]_vars
=============================================================================

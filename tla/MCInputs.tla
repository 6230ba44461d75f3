------------------------------ MODULE MCInputs ------------------------------
(* What the program makes of its inputs: labels of keys and configurations of *)
(* sessions.  The two have nothing to do with each other, so that names       *)
(* change only before the configuration is looked at, and only for one.       *)
EXTENDS KeyNames, Validation

\* No label, one that leaves room for any suffix, one for one digit only and one for none.
SomeLabels ==
    {<<>>, <<"A">>, <<"A", "A", "A", "A">>, <<"A", "A", "A", "A", "A", " ", "A">>}

\* These and labels up to one character longer than a name may be, and shorter ones of
\* more kinds.
ShortLabels ==
    SomeLabels \cup
    BoundedSeq({"A", " "}, 4) \cup {<<x>> \o [i \in 1 .. n |-> "A"] \o <<y>> :
                                      x, y \in {"A", " ", "_"}, n \in 2 .. MaxNameLen - 1}
        \cup BoundedSeq({"A", "k", "_", " "}, 3)

\* Names that deriveName itself might try.
SomeNames == {<<"a", "-", "1">>, <<"k", "e", "y", "-", "1", "0">>}

\* Keys that may go again (a bound).
Removable == SomeNames \cup {<<"a">>, <<"a", "-", "9">>}

\* The edges of every range.
SomeTunNames ==
    {[kind |-> "free", len |-> n] : n \in {0, 1, 7, 15, 16}}
        \cup {[kind |-> "lo", len |-> 2]}
        \cup {[kind |-> "critical", len |-> n] : n \in {1, 4, 16}}

SomeTables == {-1, 0, 1, 252, 253, 254, 255, 256}

SomePriorities == {-1, 0, 999, 1000}

Untouched == stage = "config" /\ cfg.url /\ cfg.name.len = 0 /\ cfg.table = 0 /\ cfg.priority = 0

InputsInit == NamesInit /\ ValidationInit

InputsNext ==
    \/ Untouched /\ NamesNext /\ names \ names' \subseteq Removable /\ UNCHANGED validationVars
    \/ names = {} /\ ValidationNext /\ UNCHANGED names

InputsSpec == InputsInit /\ [][InputsNext]_<<names, validationVars>>
=============================================================================

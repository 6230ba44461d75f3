------------------------------ MODULE KeyNames ------------------------------
(***************************************************************************)
(* The names that internal/keystore gives to keys whose client suggests    *)
(* none: normalize makes a name of the label in the URL, deriveName makes  *)
(* it different from the names in use.  Keystore takes such a name as an   *)
(* arbitrary free and valid one; here it is shown to be one.               *)
(*                                                                         *)
(* A name and a label are sequences of characters.  "A" stands for any     *)
(* upper case letter, "a" for any lower case letter or digit of a label,   *)
(* " " for any character that is neither a letter, a digit nor "_".        *)
(***************************************************************************)
EXTENDS Integers, Sequences, SequencesExt

CONSTANTS
    Labels,      \* labels that URLs can have
    AddedLabels, \* those whose keys are added, and ...
    Suggested,   \* ... names that clients suggest (bounds of the state space)
    MaxNameLen,  \* maxNameLen: 32
    MaxTries,    \* the last suffix that deriveName tries: 9999
    MaxNames     \* maxKeys: 128

\* The bound on tries is above the bound on keys.
ASSUME TriesAssumption ==
    MaxTries \in Nat /\ MaxTries <= 9999 /\ MaxNames \in 1 .. MaxTries

VARIABLE names  \* the names of the stored keys

-----------------------------------------------------------------------------
Digit(i) == <<"0", "1", "2", "3", "4", "5", "6", "7", "8", "9">>[i + 1]

Alphanumeric == {"a", "k", "e", "y"} \cup {Digit(i) : i \in 0 .. 9}

\* The characters of labels.
Characters == Alphanumeric \cup {"_", "-", "A", " "}

ASSUME LabelsAssumption == Labels \subseteq Seq(Characters)

\* nameOK and maxNameLen.
ValidName(n) ==
    /\ n # <<>> /\ Len(n) <= MaxNameLen
    /\ n[1] \in Alphanumeric
    /\ \A i \in 1 .. Len(n) : n[i] \in Alphanumeric \cup {"_", "-"}

ToLower(label) == ReplaceAll(label, "A", "a")

\* The body of normalize's loop: other characters become one "-", and none at the
\* start.  (The last character written is "-" exactly when lastDash is set.)
PutRune(out, r) ==
    IF r \in Alphanumeric \cup {"_"} THEN Append(out, r)
    ELSE IF out = <<>> \/ Last(out) = "-" THEN out
    ELSE Append(out, "-")

\* The loop: what has been written after each of the characters.
PutRunes(label) ==
    LET out[i \in 0 .. Len(label)] == IF i = 0 THEN <<>> ELSE PutRune(out[i - 1], label[i])
    IN out[Len(label)]

TrimRight(s) == SubSeq(s, 1, SelectLastInSeq(s, LAMBDA c : c \notin {"-", "_"}))

Truncate(s) == IF Len(s) > MaxNameLen THEN SubSeq(s, 1, MaxNameLen) ELSE s

\* Leading characters that are not alphanumeric are dropped.
StripLeft(s) ==
    LET first == SelectInSeq(s, LAMBDA c : c \in Alphanumeric)
    IN IF first = 0 THEN <<>> ELSE SubSeq(s, first, Len(s))

\* Mutant: upper case letters are not lowered, and so are lost.
NormalizeCase(label) == StripLeft(Truncate(TrimRight(PutRunes(label))))

Normalize(label) == StripLeft(Truncate(TrimRight(PutRunes(ToLower(label)))))

FallbackName == <<"k", "e", "y">>

\* A number as fmt's %d writes it.
Decimal(i) ==
    LET d(p) == Digit((i \div p) % 10) IN
    CASE i < 10                -> <<d(1)>>
      [] 10 <= i /\ i < 100    -> <<d(10), d(1)>>
      [] 100 <= i /\ i < 1000  -> <<d(100), d(10), d(1)>>
      [] OTHER                 -> <<d(1000), d(100), d(10), d(1)>>

Suffix(i) == <<"-">> \o Decimal(i)

\* The last key-i, too, is a name.
ASSUME MaxNameLenAssumption ==
    MaxNameLen \in Nat /\ Len(FallbackName) + Len(Suffix(MaxTries)) <= MaxNameLen

\* Mutant: the candidate may be too long.
CandidateLong(base, i) == base \o Suffix(i)

\* base-i, or key-i where that is too long.
Candidate(base, i) ==
    IF Len(base) + Len(Suffix(i)) > MaxNameLen THEN FallbackName \o Suffix(i) ELSE base \o Suffix(i)

DeriveName(label, existing) ==
    LET base    == IF Normalize(label) = <<>> THEN FallbackName ELSE Normalize(label)
        free(n) == n \notin existing /\ ValidName(n)
        tries   == [i \in 1 .. MaxTries |-> Candidate(base, i)]
        first   == SelectInSeq(tries, free)
    IN IF free(base) THEN base ELSE IF first = 0 THEN FallbackName ELSE tries[first]

-----------------------------------------------------------------------------
NamesInit == names = {}

\* Add refuses an invalid name, a name in use and a key beyond the bound.
AddKey(n) ==
    /\ Cardinality(names) < MaxNames /\ ValidName(n) /\ n \notin names
    /\ names' = names \cup {n}

AddDerived(label) == AddKey(DeriveName(label, names))

AddSuggested(n) == AddKey(n)

RemoveKey(n) == n \in names /\ names' = names \ {n}

NamesNext ==
    \/ \E label \in AddedLabels : AddDerived(label)
    \/ \E n \in Suggested : AddSuggested(n)
    \/ \E n \in names : RemoveKey(n)

NamesSpec == NamesInit /\ [][NamesNext]_names

-----------------------------------------------------------------------------
(***************************************************************************)
(* Properties.                                                             *)
(***************************************************************************)

\* Whatever label a URL has and whatever names are in use, deriveName returns a
\* valid name that is free as long as the store is not full: an `ouf add` without
\* a name is not refused because of its name, and the last resort of deriveName,
\* which may be in use, is not reached.
DerivedNameIsUsable ==
    Cardinality(names) < MaxNames =>
        \A label \in Labels :
            LET n == DeriveName(label, names) IN ValidName(n) /\ n \notin names

\* The letters and digits of s, in order.
Letters(s) ==
    LET kept[i \in 0 .. Len(s)] ==
            IF i = 0 THEN <<>>
            ELSE IF s[i] \in Alphanumeric THEN Append(kept[i - 1], s[i]) ELSE kept[i - 1]
    IN kept[Len(s)]

\* The name tells the label: a label that leaves room for the suffixes that a full store
\* takes gives a name that begins with the letters and digits of the label, all of them,
\* in order and lower case, whatever names are in use; only a label without any becomes
\* key or key-i.  (Where the room is less, key-i comes as soon as base-i is too long.)
NameTellsLabel ==
    \A label \in Labels :
        Len(label) + Len(Suffix(MaxNames)) <= MaxNameLen =>
            IsPrefix(Letters(ToLower(label)), Letters(DeriveName(label, names)))

\* keystore.go:424: normalize replaces other characters "collapsing runs and
\* trimming" - no stored name ends in a separator.  Truncation comes after.
NamesAreTrimmed == \A n \in names : Last(n) \notin {"-", "_"}
=============================================================================

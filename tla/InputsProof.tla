---------------------------- MODULE InputsProof ----------------------------
(***************************************************************************)
(* What the program makes of its inputs, proved for every label and every  *)
(* configuration: the theorems of KeyNames and of Validation.              *)
(*                                                                         *)
(* normalize and deriveName are loops over characters, so that the lemmas  *)
(* about them are inductions over data.  The induction rules of the        *)
(* library take an operator; here an induction is on a set of natural      *)
(* numbers (NatSets), whose least missing element leads to a               *)
(* contradiction.                                                          *)
(***************************************************************************)
EXTENDS KeyNames, Validation, FiniteSetTheorems, SequenceTheorems, WellFoundedInduction, TLAPS

-----------------------------------------------------------------------------
\* What tun.New, Start and the script have checked holds at every stage: defaults
\* are applied before Validate looks, and the marks are those of a valid Config.
THEOREM ValidationInvariance == ValidationSpec => []ValidationInv
<1>1. ValidationInit => ValidationInv
  BY ConfigAssumption DEF ValidationInit, ValidationInv, Configs, Fields
<1>2. ValidationInv /\ [ValidationNext]_validationVars => ValidationInv'
  <2> SUFFICES ASSUME ValidationInv, [ValidationNext]_validationVars PROVE ValidationInv'
    OBVIOUS
  <2>1. CASE BuildConfig
    <3> USE DEF ApplyDefaults, DefaultTunName, DefaultRoutingTableID, DefaultRoutingRulePriority
    <3>1. cfg' = ApplyDefaults(cfg) /\ cfg \in Fields
      BY <2>1 DEF BuildConfig, ValidationInv
    <3>2. cfg'.name.len > 0 /\ cfg'.table # 0 /\ cfg'.priority # 0
      BY <3>1 DEF Fields
    <3>3. cfg' \in Fields
      BY <3>1 DEF Fields
    <3> QED
      BY <2>1, <3>2, <3>3 DEF BuildConfig, ValidationInv, Validate
  <2>2. CASE RecordMarks
    BY <2>2 DEF RecordMarks, ValidationInv, Validate
  <2>3. CASE CheckMarks
    BY <2>3 DEF CheckMarks, ValidationInv, Validate, PanicAccepts
  <2>4. CASE UNCHANGED validationVars
    BY <2>4 DEF validationVars, ValidationInv, Validate, PanicAccepts, MarksOf
  <2> QED
    BY <2>1, <2>2, <2>3, <2>4 DEF ValidationNext
<1> QED
  BY <1>1, <1>2, PTL DEF ValidationSpec

\* The two checks agree on every integer, not only at the edges TLC tries.
THEOREM ValidationLockstep == ValidationSpec => []NumbersInLockstep
<1>1. ValidationInv => NumbersInLockstep
  BY DEF ValidationInv, NumbersInLockstep, Fields, Validate, PanicAccepts, MarksOf, MaxTunNameLen
<1> QED
  BY <1>1, ValidationInvariance, PTL

\* A Config that leaves name, table and priority to applyDefaults is neither refused
\* by Validate nor abandoned by ouf-panic.
THEOREM DefaultsAreSafe == ValidationSpec => []ZeroValuesAreSafe
<1>1. ValidationInv => ZeroValuesAreSafe
  BY DEF ValidationInv, ZeroValuesAreSafe, Fields, Validate, PanicAccepts, MarksOf, MaxTunNameLen,
     DefaultTunName, DefaultRoutingTableID, DefaultRoutingRulePriority
<1> QED
  BY <1>1, ValidationInvariance, PTL

-----------------------------------------------------------------------------
\* Induction on natural numbers, for a set of them in place of a property.
LEMMA NatSets ==
    ASSUME NEW S, 0 \in S, \A n \in Nat : n \in S => n + 1 \in S
    PROVE  Nat \subseteq S
<1> DEFINE T == Nat \ S
<1> SUFFICES ASSUME T # {} PROVE FALSE
  OBVIOUS
<1>1. PICK n \in T : \A m \in T : ~(<<m, n>> \in OpToRel(<, Nat))
  BY WFMin, NatLessThanWellFounded, Zenon
<1>2. n \in Nat /\ n # 0 /\ n - 1 \in Nat /\ n - 1 < n
  OBVIOUS
<1>3. n - 1 \in T
  BY <1>2
<1>4. <<n - 1, n>> \in OpToRel(<, Nat)
  BY <1>2 DEF OpToRel
<1> QED
  BY <1>1, <1>3, <1>4, Zenon

\* The loop of normalize does what its body says, one character after another.
LEMMA RunesLoop ==
    ASSUME NEW s \in Seq(Characters)
    PROVE  \E out : /\ PutRunes(s) = out[Len(s)]
                    /\ out[0] = <<>>
                    /\ \A i \in 1 .. Len(s) : out[i] = PutRune(out[i - 1], s[i])
<1> DEFINE Loop(f, k) ==
      f = [i \in 0 .. k |-> IF i = 0 THEN <<>> ELSE PutRune(f[i - 1], s[i])]
           S == {k \in Nat : \E f : Loop(f, k)}
<1>1. 0 \in S
  <2> DEFINE f == [i \in 0 .. 0 |-> <<>>]
  <2>1. Loop(f, 0)
    OBVIOUS
  <2> QED
    BY <2>1
<1>2. ASSUME NEW k \in Nat, k \in S PROVE k + 1 \in S
  <2>1. PICK f : Loop(f, k)
    BY <1>2
  <2> DEFINE g == [i \in 0 .. k + 1 |-> IF i <= k THEN f[i] ELSE PutRune(f[k], s[k + 1])]
  <2> HIDE DEF Loop
  <2>2. \A i \in 0 .. k : f[i] = IF i = 0 THEN <<>> ELSE PutRune(f[i - 1], s[i])
    BY <2>1 DEF Loop
  <2>3. \A i \in 0 .. k + 1 : g[i] = IF i = 0 THEN <<>> ELSE PutRune(g[i - 1], s[i])
    BY <2>2
  <2>4. Loop(g, k + 1)
    BY <2>3 DEF Loop
  <2> QED
    BY <2>4
<1>3. Len(s) \in S
  <2> HIDE DEF S
  <2> QED
    BY <1>1, <1>2, NatSets
<1> DEFINE out == CHOOSE f : Loop(f, Len(s))
<1>4. Loop(out, Len(s))
  BY <1>3
<1>5. PutRunes(s) = out[Len(s)]
  BY DEF PutRunes
<1>6. out[0] = <<>> /\ \A i \in 1 .. Len(s) : out[i] = PutRune(out[i - 1], s[i])
  <2> HIDE DEF out
  <2> QED
    BY <1>4
<1> QED
  BY <1>5, <1>6

\* The same for Letters, ...
LEMMA LettersLoop ==
    ASSUME NEW s \in Seq(Characters)
    PROVE  \E kept : /\ Letters(s) = kept[Len(s)]
                     /\ kept[0] = <<>>
                     /\ \A i \in 1 .. Len(s) :
                           kept[i] = IF s[i] \in Alphanumeric THEN Append(kept[i - 1], s[i])
                                     ELSE kept[i - 1]
<1> DEFINE Step(f, i) == IF s[i] \in Alphanumeric THEN Append(f[i - 1], s[i]) ELSE f[i - 1]
           Loop(f, k) == f = [i \in 0 .. k |-> IF i = 0 THEN <<>> ELSE Step(f, i)]
           S == {k \in Nat : \E f : Loop(f, k)}
<1>1. 0 \in S
  <2> DEFINE f == [i \in 0 .. 0 |-> <<>>]
  <2>1. Loop(f, 0)
    OBVIOUS
  <2> QED
    BY <2>1
<1>2. ASSUME NEW k \in Nat, k \in S PROVE k + 1 \in S
  <2>1. PICK f : Loop(f, k)
    BY <1>2
  <2> DEFINE next == IF s[k + 1] \in Alphanumeric THEN Append(f[k], s[k + 1]) ELSE f[k]
             g == [i \in 0 .. k + 1 |-> IF i <= k THEN f[i] ELSE next]
  <2> HIDE DEF Loop
  <2>2. \A i \in 0 .. k : f[i] = IF i = 0 THEN <<>> ELSE Step(f, i)
    BY <2>1 DEF Loop
  <2>3. \A i \in 0 .. k + 1 : g[i] = IF i = 0 THEN <<>> ELSE Step(g, i)
    BY <2>2
  <2>4. Loop(g, k + 1)
    BY <2>3 DEF Loop
  <2> QED
    BY <2>4
<1>3. Len(s) \in S
  <2> HIDE DEF S
  <2> QED
    BY <1>1, <1>2, NatSets
<1> DEFINE kept == CHOOSE f : Loop(f, Len(s))
<1>4. Loop(kept, Len(s))
  BY <1>3
<1>5. Letters(s) = kept[Len(s)]
  BY DEF Letters
<1>6. kept[0] = <<>> /\ \A i \in 1 .. Len(s) : kept[i] = Step(kept, i)
  <2> HIDE DEF kept, Step
  <2> QED
    BY <1>4
<1> QED
  BY <1>5, <1>6

\* ... which is determined by what it makes of no character and of one more.
LEMMA LettersEmpty == Letters(<<>>) = <<>>
<1>1. <<>> \in Seq(Characters) /\ Len(<<>>) = 0
  BY EmptySeq
<1> QED
  BY <1>1, LettersLoop

LEMMA LettersAppend ==
    ASSUME NEW s \in Seq(Characters), NEW c \in Characters
    PROVE  Letters(Append(s, c)) =
              IF c \in Alphanumeric THEN Append(Letters(s), c) ELSE Letters(s)
<1> DEFINE t == Append(s, c)
<1>1. /\ t \in Seq(Characters) /\ Len(t) = Len(s) + 1 /\ t[Len(s) + 1] = c
      /\ \A i \in 1 .. Len(s) : t[i] = s[i]
  <2>1. t \in Seq(Characters) /\ Len(t) = Len(s) + 1
    BY AppendProperties
  <2>2. t[Len(s) + 1] = c
    BY AppendProperties
  <2>3. \A i \in 1 .. Len(s) : t[i] = s[i]
    BY AppendProperties
  <2> QED
    BY <2>1, <2>2, <2>3
<1> HIDE DEF t
<1>2. PICK f : /\ Letters(s) = f[Len(s)] /\ f[0] = <<>>
               /\ \A i \in 1 .. Len(s) :
                     f[i] = IF s[i] \in Alphanumeric THEN Append(f[i - 1], s[i]) ELSE f[i - 1]
  BY LettersLoop
<1>3. PICK g : /\ Letters(t) = g[Len(t)] /\ g[0] = <<>>
               /\ \A i \in 1 .. Len(t) :
                     g[i] = IF t[i] \in Alphanumeric THEN Append(g[i - 1], t[i]) ELSE g[i - 1]
  BY LettersLoop, <1>1
<1> DEFINE S == {k \in Nat : k <= Len(s) => g[k] = f[k]}
<1>4. 0 \in S
  BY <1>2, <1>3
<1>5. ASSUME NEW k \in Nat, k \in S PROVE k + 1 \in S
  <2> SUFFICES ASSUME k + 1 <= Len(s) PROVE g[k + 1] = f[k + 1]
    OBVIOUS
  <2>1. k + 1 \in 1 .. Len(s) /\ k + 1 \in 1 .. Len(t) /\ (k + 1) - 1 = k /\ g[k] = f[k]
    BY <1>1, <1>5
  <2> QED
    BY <1>1, <1>2, <1>3, <2>1
<1>6. g[Len(s)] = f[Len(s)]
  <2>1. Len(s) \in S
    <3> HIDE DEF S
    <3> QED
      BY <1>4, <1>5, NatSets
  <2> QED
    BY <2>1
<1>7. Len(t) \in 1 .. Len(t) /\ Len(t) - 1 = Len(s)
  BY <1>1
<1> QED
  BY <1>1, <1>2, <1>3, <1>6, <1>7 DEF t

LEMMA LettersType == ASSUME NEW s \in Seq(Characters) PROVE Letters(s) \in Seq(Characters)
<1>1. PICK f : /\ Letters(s) = f[Len(s)] /\ f[0] = <<>>
               /\ \A i \in 1 .. Len(s) :
                     f[i] = IF s[i] \in Alphanumeric THEN Append(f[i - 1], s[i]) ELSE f[i - 1]
  BY LettersLoop
<1> DEFINE S == {k \in Nat : k <= Len(s) => f[k] \in Seq(Characters)}
<1>2. 0 \in S
  BY <1>1, EmptySeq
<1>3. ASSUME NEW k \in Nat, k \in S PROVE k + 1 \in S
  <2> SUFFICES ASSUME k + 1 <= Len(s) PROVE f[k + 1] \in Seq(Characters)
    OBVIOUS
  <2>1. k + 1 \in 1 .. Len(s) /\ (k + 1) - 1 = k /\ f[k] \in Seq(Characters)
    BY <1>3
  <2>2. s[k + 1] \in Characters
    BY <2>1, ElementOfSeq
  <2>3. Append(f[k], s[k + 1]) \in Seq(Characters)
    BY <2>1, <2>2, AppendProperties
  <2> QED
    BY <1>1, <2>1, <2>3
<1>4. Len(s) \in S
  <2> HIDE DEF S
  <2> QED
    BY <1>2, <1>3, NatSets
<1> QED
  BY <1>1, <1>4

LEMMA LettersSubSeq ==
    ASSUME NEW s \in Seq(Characters), NEW m \in 1 .. Len(s), NEW n \in m .. Len(s)
    PROVE  Letters(SubSeq(s, m, n)) =
              IF s[n] \in Alphanumeric THEN Append(Letters(SubSeq(s, m, n - 1)), s[n])
              ELSE Letters(SubSeq(s, m, n - 1))
<1> DEFINE t == SubSeq(s, m, n - 1)
<1>1. s[n] \in Characters /\ \A i \in m .. n - 1 : s[i] \in Characters
  BY ElementOfSeq
<1>2. t \in Seq(Characters)
  BY <1>1, SubSeqProperties
<1>3. SubSeq(s, m, n) = t \o <<s[n]>>
  BY SubSeqRecursiveSecond
<1> HIDE DEF t
<1>4. SubSeq(s, m, n) = Append(t, s[n])
  BY <1>1, <1>2, <1>3, AppendIsConcat
<1>5. Letters(Append(t, s[n])) = IF s[n] \in Alphanumeric THEN Append(Letters(t), s[n]) ELSE Letters(t)
  BY <1>1, <1>2, LettersAppend
<1> QED
  BY <1>4, <1>5 DEF t

\* No letter is lost at the end of a sequence whose end has none, ...
LEMMA LettersDropRight ==
    ASSUME NEW s \in Seq(Characters), NEW k \in 0 .. Len(s),
           \A i \in k + 1 .. Len(s) : s[i] \notin Alphanumeric
    PROVE  Letters(SubSeq(s, 1, k)) = Letters(s)
<1> DEFINE S == {j \in Nat : k + j <= Len(s) =>
                    Letters(SubSeq(s, 1, k + j)) = Letters(SubSeq(s, 1, k))}
<1>1. 0 \in S
  OBVIOUS
<1>2. ASSUME NEW j \in Nat, j \in S PROVE j + 1 \in S
  <2> DEFINE n == k + (j + 1)
  <2> SUFFICES ASSUME n <= Len(s) PROVE Letters(SubSeq(s, 1, n)) = Letters(SubSeq(s, 1, k))
    OBVIOUS
  <2>1. 1 \in 1 .. Len(s) /\ n \in 1 .. Len(s) /\ n \in k + 1 .. Len(s) /\ n - 1 = k + j
    OBVIOUS
  <2>2. Letters(SubSeq(s, 1, n)) = Letters(SubSeq(s, 1, n - 1))
    <3> HIDE DEF n
    <3> QED
      BY <2>1, LettersSubSeq
  <2>3. Letters(SubSeq(s, 1, k + j)) = Letters(SubSeq(s, 1, k))
    BY <1>2
  <2> QED
    BY <2>1, <2>2, <2>3
<1>3. Len(s) - k \in S
  <2>1. Len(s) - k \in Nat
    OBVIOUS
  <2> HIDE DEF S
  <2> QED
    BY <1>1, <1>2, <2>1, NatSets
<1>4. k + (Len(s) - k) = Len(s)
  OBVIOUS
<1>5. Letters(SubSeq(s, 1, Len(s))) = Letters(SubSeq(s, 1, k))
  BY <1>3, <1>4
<1> QED
  BY <1>5, SubSeqFull

\* ... and none at the start of one whose start has none.
LEMMA LettersDropLeft ==
    ASSUME NEW s \in Seq(Characters), NEW k \in 1 .. Len(s) + 1,
           \A i \in 1 .. k - 1 : s[i] \notin Alphanumeric
    PROVE  Letters(SubSeq(s, k, Len(s))) = Letters(s)
<1>1. Letters(SubSeq(s, 1, k - 1)) = <<>>
  <2> DEFINE t == SubSeq(s, 1, k - 1)
  <2>1. \A i \in 1 .. k - 1 : s[i] \in Characters
    BY ElementOfSeq
  <2>2. t \in Seq(Characters) /\ Len(t) = k - 1 /\ \A i \in 1 .. k - 1 : t[i] = s[i]
    BY <2>1, SubSeqProperties
  <2> HIDE DEF t
  <2>3. 0 \in 0 .. Len(t) /\ \A i \in 0 + 1 .. Len(t) : t[i] \notin Alphanumeric
    BY <2>2
  <2>4. Letters(SubSeq(t, 1, 0)) = Letters(t)
    BY <2>2, <2>3, LettersDropRight
  <2>5. SubSeq(t, 1, 0) = <<>>
    BY SubSeqEmpty
  <2> QED
    BY <2>4, <2>5, LettersEmpty DEF t
<1> DEFINE S == {j \in Nat : k - 1 + j <= Len(s) =>
                    Letters(SubSeq(s, k, k - 1 + j)) = Letters(SubSeq(s, 1, k - 1 + j))}
<1>2. 0 \in S
  <2>1. SubSeq(s, k, k - 1) = <<>>
    BY SubSeqEmpty
  <2>2. k - 1 + 0 = k - 1
    OBVIOUS
  <2> QED
    BY <1>1, <2>1, <2>2, LettersEmpty
<1>3. ASSUME NEW j \in Nat, j \in S PROVE j + 1 \in S
  <2> DEFINE n == k - 1 + (j + 1)
  <2> SUFFICES ASSUME n <= Len(s) PROVE Letters(SubSeq(s, k, n)) = Letters(SubSeq(s, 1, n))
    OBVIOUS
  <2>1. /\ 1 \in 1 .. Len(s) /\ n \in 1 .. Len(s) /\ k \in 1 .. Len(s) /\ n \in k .. Len(s)
        /\ n - 1 = k - 1 + j
    OBVIOUS
  <2>2. Letters(SubSeq(s, k, n - 1)) = Letters(SubSeq(s, 1, n - 1))
    BY <1>3, <2>1
  <2> HIDE DEF n
  <2> QED
    BY <2>1, <2>2, LettersSubSeq
<1>4. Len(s) - (k - 1) \in S
  <2>1. Len(s) - (k - 1) \in Nat
    OBVIOUS
  <2> HIDE DEF S
  <2> QED
    BY <1>2, <1>3, <2>1, NatSets
<1>5. k - 1 + (Len(s) - (k - 1)) = Len(s)
  OBVIOUS
<1>6. Letters(SubSeq(s, k, Len(s))) = Letters(SubSeq(s, 1, Len(s)))
  BY <1>4, <1>5
<1> QED
  BY <1>6, SubSeqFull

-----------------------------------------------------------------------------
\* SelectInSeq and SelectLastInSeq take the least and the greatest of some indices.
LEMMA LeastIndex ==
    ASSUME NEW n \in Nat, NEW I, I \subseteq 1 .. n, I # {}
    PROVE  Min(I) \in I /\ \A j \in I : Min(I) <= j
<1>1. PICK i \in I : \A j \in I : ~(<<j, i>> \in OpToRel(<, Nat))
  <2>1. I \subseteq Nat
    OBVIOUS
  <2> QED
    BY <2>1, WFMin, NatLessThanWellFounded, Zenon
<1>2. \A j \in I : i <= j
  <2>1. ASSUME NEW j \in I, j < i PROVE <<j, i>> \in OpToRel(<, Nat)
    BY <2>1 DEF OpToRel
  <2>2. \A j \in I : ~(j < i)
    BY <1>1, <2>1, Zenon
  <2> QED
    BY <2>2
<1> QED
  BY <1>2 DEF Min

LEMMA GreatestIndex ==
    ASSUME NEW n \in Nat, NEW I, I \subseteq 1 .. n, I # {}
    PROVE  Max(I) \in I /\ \A j \in I : Max(I) >= j
<1> DEFINE S == {k \in Nat : (\E i \in I : i > n - k) => \E i \in I : \A j \in I : i >= j}
<1>1. 0 \in S
  OBVIOUS
<1>2. ASSUME NEW k \in Nat, k \in S PROVE k + 1 \in S
  <2> SUFFICES ASSUME NEW i \in I, i > n - (k + 1), ~\E j \in I : j > n - k
               PROVE  \A j \in I : i >= j
    BY <1>2
  <2> QED
    OBVIOUS
<1>3. n \in S
  <2> HIDE DEF S
  <2> QED
    BY <1>1, <1>2, NatSets
<1>4. \E i \in I : i > n - n
  <2>1. PICK i : i \in I
    OBVIOUS
  <2>2. i > n - n
    BY <2>1
  <2> QED
    BY <2>1, <2>2
<1>5. \E i \in I : \A j \in I : i >= j
  BY <1>3, <1>4
<1> QED
  BY <1>5 DEF Max

\* SelectInSeq and SelectLastInSeq return 0 where there is no index.
FirstOf(I) == IF I # {} THEN Min(I) ELSE 0

LastOf(I) == IF I # {} THEN Max(I) ELSE 0

LEMMA FirstIndex ==
    ASSUME NEW n \in Nat, NEW I, I \subseteq 1 .. n
    PROVE  /\ FirstOf(I) = 0 => I = {}
           /\ FirstOf(I) # 0 => FirstOf(I) \in I /\ \A i \in 1 .. FirstOf(I) - 1 : i \notin I
<1>1. CASE I = {}
  BY <1>1 DEF FirstOf
<1>2. CASE I # {}
  <2>1. FirstOf(I) \in I /\ \A j \in I : FirstOf(I) <= j
    BY <1>2, LeastIndex DEF FirstOf
  <2>2. PICK k \in 1 .. n : k = FirstOf(I)
    BY <2>1
  <2>3. k \in I /\ \A i \in 1 .. k - 1 : i \notin I
    BY <2>1, <2>2
  <2> QED
    BY <2>2, <2>3
<1> QED
  BY <1>1, <1>2

LEMMA LastIndex ==
    ASSUME NEW n \in Nat, NEW I, I \subseteq 1 .. n
    PROVE  LastOf(I) \in 0 .. n /\ \A i \in LastOf(I) + 1 .. n : i \notin I
<1>1. CASE I = {}
  BY <1>1 DEF LastOf
<1>2. CASE I # {}
  <2>1. LastOf(I) \in I /\ \A j \in I : LastOf(I) >= j
    BY <1>2, GreatestIndex DEF LastOf
  <2>2. PICK k \in 1 .. n : k = LastOf(I)
    BY <2>1
  <2>3. k \in 0 .. n /\ \A i \in k + 1 .. n : i \notin I
    BY <2>1, <2>2
  <2> QED
    BY <2>2, <2>3
<1> QED
  BY <1>1, <1>2

Alphabet == Alphanumeric \cup {"_", "-"}

LEMMA Digits ==
    /\ \A i \in 0 .. 9 : Digit(i) \in {"0", "1", "2", "3", "4", "5", "6", "7", "8", "9"}
    /\ \A i, j \in 0 .. 9 : Digit(i) = Digit(j) => i = j
<1>1. /\ Digit(0) = "0" /\ Digit(1) = "1" /\ Digit(2) = "2" /\ Digit(3) = "3" /\ Digit(4) = "4"
      /\ Digit(5) = "5" /\ Digit(6) = "6" /\ Digit(7) = "7" /\ Digit(8) = "8" /\ Digit(9) = "9"
  BY DEF Digit
<1>2. \A i \in 0 .. 9 : i \in {0, 1, 2, 3, 4, 5, 6, 7, 8, 9}
  OBVIOUS
<1> QED
  BY <1>1, <1>2

LEMMA AlphabetType == /\ Alphabet \subseteq Characters /\ Alphanumeric \subseteq Alphabet
                      /\ "-" \notin Alphanumeric /\ "_" \notin Alphanumeric
<1>1. \A c \in Alphanumeric : c \in {"a", "k", "e", "y", "0", "1", "2", "3", "4", "5", "6", "7", "8", "9"}
  BY Digits DEF Alphanumeric
<1>2. "-" \notin Alphanumeric /\ "_" \notin Alphanumeric
  BY <1>1
<1> QED
  BY <1>2 DEF Alphabet, Characters

LEMMA Joined ==
    \A s, t \in Seq(Alphabet) :
        /\ s \o t \in Seq(Alphabet) /\ Len(s \o t) = Len(s) + Len(t)
        /\ \A i \in 1 .. Len(s) + Len(t) : (s \o t)[i] = IF i <= Len(s) THEN s[i] ELSE t[i - Len(s)]
<1> SUFFICES ASSUME NEW s \in Seq(Alphabet), NEW t \in Seq(Alphabet)
             PROVE  /\ s \o t \in Seq(Alphabet) /\ Len(s \o t) = Len(s) + Len(t)
                    /\ \A i \in 1 .. Len(s) + Len(t) :
                          (s \o t)[i] = IF i <= Len(s) THEN s[i] ELSE t[i - Len(s)]
  BY Zenon
<1> DEFINE A == Alphabet
<1> HIDE DEF A
<1>1. s \in Seq(A) /\ t \in Seq(A)
  BY DEF A
<1>2. /\ s \o t \in Seq(A) /\ Len(s \o t) = Len(s) + Len(t)
      /\ \A i \in 1 .. Len(s) + Len(t) : (s \o t)[i] = IF i <= Len(s) THEN s[i] ELSE t[i - Len(s)]
  BY <1>1, ConcatProperties
<1> QED
  BY <1>2 DEF A

LEMMA Alphabets == Seq(Alphanumeric) \subseteq Seq(Alphabet) /\ Seq(Alphabet) \subseteq Seq(Characters)
<1>1. Alphanumeric \subseteq Alphabet /\ Alphabet \subseteq Characters
  BY AlphabetType
<1>2. ASSUME NEW s \in Seq(Alphanumeric) PROVE s \in Seq(Alphabet)
  BY <1>1, SeqMonotonic, Zenon
<1>3. ASSUME NEW s \in Seq(Alphabet) PROVE s \in Seq(Characters)
  BY <1>1, SeqMonotonic, Zenon
<1> QED
  BY <1>2, <1>3

\* normalize's loop writes characters of names, at most one per character, and all
\* the letters.
LEMMA RunesWritten ==
    ASSUME NEW s \in Seq(Characters)
    PROVE  /\ PutRunes(s) \in Seq(Alphabet)
           /\ Len(PutRunes(s)) <= Len(s)
           /\ Letters(PutRunes(s)) = Letters(s)
<1>1. PICK out : /\ PutRunes(s) = out[Len(s)]
                 /\ out[0] = <<>>
                 /\ \A i \in 1 .. Len(s) : out[i] = PutRune(out[i - 1], s[i])
  BY RunesLoop
<1> DEFINE Good(k) == /\ out[k] \in Seq(Alphabet) /\ Len(out[k]) <= k
                      /\ Letters(out[k]) = Letters(SubSeq(s, 1, k))
           S == {k \in Nat : k <= Len(s) => Good(k)}
<1>2. 0 \in S
  <2>1. SubSeq(s, 1, 0) = <<>>
    BY SubSeqEmpty
  <2> QED
    <3>1. <<>> \in Seq(Alphabet) /\ Len(<<>>) = 0
      BY EmptySeq
    <3>2. Good(0)
      <4>1. Len(out[0]) <= 0
        BY <1>1, <3>1
      <4> QED
        BY <1>1, <2>1, <3>1, <4>1, Zenon
    <3> QED
      BY <3>2
<1>3. ASSUME NEW k \in Nat, k \in S PROVE k + 1 \in S
  <2> SUFFICES ASSUME k + 1 <= Len(s) PROVE Good(k + 1)
    OBVIOUS
  <2> DEFINE o == out[k]
             r == s[k + 1]
             keep(c) == IF c \in Alphanumeric THEN Append(Letters(o), c) ELSE Letters(o)
  <2>1. /\ 1 \in 1 .. Len(s) /\ k + 1 \in 1 .. Len(s) /\ (k + 1) - 1 = k
        /\ o \in Seq(Alphabet) /\ Len(o) <= k /\ Letters(o) = Letters(SubSeq(s, 1, k))
    BY <1>3
  <2>2. r \in Characters
    BY <2>1, ElementOfSeq
  <2>3. out[k + 1] = PutRune(o, r)
    BY <1>1, <2>1
  <2>4. Letters(SubSeq(s, 1, k + 1)) = keep(r)
    BY <2>1, LettersSubSeq
  <2>5. o \in Seq(Characters) /\ Len(o) \in Nat
    BY <2>1, AlphabetType, SeqMonotonic, LenProperties
  <2> HIDE DEF o, r
  <2>6. ASSUME NEW c \in Alphabet
        PROVE  /\ Append(o, c) \in Seq(Alphabet) /\ Len(Append(o, c)) <= k + 1
               /\ Letters(Append(o, c)) = keep(c)
    <3>1. Append(o, c) \in Seq(Alphabet) /\ Len(Append(o, c)) = Len(o) + 1
      BY <2>1, AppendProperties
    <3>2. c \in Characters
      BY AlphabetType
    <3>3. Letters(Append(o, c)) = keep(c)
      BY <2>5, <3>2, LettersAppend
    <3>4. Len(Append(o, c)) <= k + 1
      BY <2>1, <2>5, <3>1
    <3> QED
      BY <3>1, <3>3, <3>4
  <2> HIDE DEF keep
  <2>7. CASE r \in Alphanumeric \cup {"_"}
    <3>1. PutRune(o, r) = Append(o, r) /\ r \in Alphabet
      BY <2>7 DEF PutRune, Alphabet
    <3>2. Letters(Append(o, r)) = Letters(SubSeq(s, 1, k + 1))
      BY <2>4, <2>6, <3>1, Zenon
    <3>3. Append(o, r) \in Seq(Alphabet) /\ Len(Append(o, r)) <= k + 1
      BY <2>6, <3>1
    <3> QED
      BY <2>3, <3>1, <3>2, <3>3, Zenon
  <2>8. CASE r \notin Alphanumeric \cup {"_"}
    <3>1. PutRune(o, r) \in {o, Append(o, "-")} /\ "-" \in Alphabet
      BY <2>8 DEF PutRune, Alphabet
    <3>2. Letters(Append(o, "-")) = Letters(o) /\ Letters(SubSeq(s, 1, k + 1)) = Letters(o)
      BY <2>4, <2>6, <2>8, <3>1, AlphabetType, Zenon DEF keep
    <3>3. Append(o, "-") \in Seq(Alphabet) /\ Len(Append(o, "-")) <= k + 1
      BY <2>6, <3>1
    <3>4. o \in Seq(Alphabet) /\ Len(o) <= k + 1
      BY <2>1, <2>5
    <3> QED
      BY <2>3, <3>1, <3>2, <3>3, <3>4, Zenon
  <2> QED
    BY <2>7, <2>8
<1>4. Len(s) \in S
  <2> HIDE DEF S
  <2> QED
    BY <1>2, <1>3, NatSets
<1>5. SubSeq(s, 1, Len(s)) = s
  BY SubSeqFull
<1>6. Good(Len(s))
  BY <1>4
<1> QED
  BY <1>1, <1>5, <1>6

\* Trimming drops separators, ...
LEMMA Trimmed ==
    ASSUME NEW s \in Seq(Alphabet)
    PROVE  /\ TrimRight(s) \in Seq(Alphabet)
           /\ Len(TrimRight(s)) <= Len(s)
           /\ Letters(TrimRight(s)) = Letters(s)
<1>1. Len(s) \in Nat
  BY LenProperties
<1> DEFINE I == {i \in 1 .. Len(s) : s[i] \notin {"-", "_"}}
<1>2. TrimRight(s) = SubSeq(s, 1, LastOf(I))
  BY DEF TrimRight, SelectLastInSeq, LastOf
<1>3. PICK k \in 0 .. Len(s) : k = LastOf(I) /\ \A i \in k + 1 .. Len(s) : i \notin I
  <2>1. I \subseteq 1 .. Len(s)
    OBVIOUS
  <2> HIDE DEF I
  <2> QED
    BY <1>1, <2>1, LastIndex
<1>4. k \in Nat /\ k <= Len(s)
  BY <1>1
<1>5. \A i \in k + 1 .. Len(s) : s[i] \notin Alphanumeric
  <2>1. \A i \in k + 1 .. Len(s) : i \in 1 .. Len(s)
    BY <1>1, <1>4
  <2> QED
    BY <1>3, <2>1, AlphabetType
<1>6. s \in Seq(Characters)
  BY AlphabetType, SeqMonotonic, Zenon
<1>7. Letters(SubSeq(s, 1, k)) = Letters(s)
  BY <1>3, <1>5, <1>6, LettersDropRight
<1>8. \A i \in 1 .. k : s[i] \in Alphabet
  BY <1>1, <1>4, ElementOfSeq
<1>9. SubSeq(s, 1, k) \in Seq(Alphabet) /\ Len(SubSeq(s, 1, k)) = k
  BY <1>1, <1>4, <1>8, SubSeqProperties
<1>10. TrimRight(s) = SubSeq(s, 1, k)
  BY <1>2, <1>3, Zenon
<1> QED
  BY <1>7, <1>9, <1>4, <1>10

\* ... truncating drops characters only of what is too long, ...
LEMMA Truncated ==
    ASSUME NEW s \in Seq(Alphabet)
    PROVE  /\ Truncate(s) \in Seq(Alphabet)
           /\ Len(Truncate(s)) <= MaxNameLen /\ Len(Truncate(s)) <= Len(s)
           /\ Len(s) <= MaxNameLen => Truncate(s) = s
<1>1. CASE Len(s) <= MaxNameLen
  BY <1>1, MaxNameLenAssumption DEF Truncate
<1>2. CASE Len(s) > MaxNameLen
  <2>1. \A i \in 1 .. MaxNameLen : s[i] \in Alphabet
    BY <1>2, MaxNameLenAssumption, ElementOfSeq
  <2>2. SubSeq(s, 1, MaxNameLen) \in Seq(Alphabet) /\ Len(SubSeq(s, 1, MaxNameLen)) = MaxNameLen
    BY <2>1, MaxNameLenAssumption, SubSeqProperties
  <2>3. Truncate(s) = SubSeq(s, 1, MaxNameLen) /\ ~(Len(s) <= MaxNameLen)
    BY <1>2, MaxNameLenAssumption DEF Truncate
  <2> QED
    BY <1>2, <2>2, <2>3, MaxNameLenAssumption
<1> QED
  BY <1>1, <1>2, MaxNameLenAssumption

\* ... and stripping drops what is before the first letter.
LEMMA Stripped ==
    ASSUME NEW s \in Seq(Alphabet)
    PROVE  /\ StripLeft(s) \in Seq(Alphabet)
           /\ Len(StripLeft(s)) <= Len(s)
           /\ StripLeft(s) # <<>> => StripLeft(s)[1] \in Alphanumeric
           /\ Letters(StripLeft(s)) = Letters(s)
<1> DEFINE I == {i \in 1 .. Len(s) : s[i] \in Alphanumeric}
<1>1. StripLeft(s) = IF FirstOf(I) = 0 THEN <<>> ELSE SubSeq(s, FirstOf(I), Len(s))
  BY DEF StripLeft, SelectInSeq, FirstOf
<1>2. s \in Seq(Characters) /\ Len(s) \in Nat
  BY AlphabetType, SeqMonotonic, LenProperties
<1>3. /\ FirstOf(I) = 0 => I = {}
      /\ FirstOf(I) # 0 => FirstOf(I) \in I /\ \A i \in 1 .. FirstOf(I) - 1 : i \notin I
  <2>1. I \subseteq 1 .. Len(s)
    OBVIOUS
  <2> HIDE DEF I
  <2> QED
    BY <1>2, <2>1, FirstIndex
<1>4. CASE FirstOf(I) = 0
  <2>1. StripLeft(s) = <<>>
    BY <1>1, <1>4
  <2>2. 0 \in 0 .. Len(s) /\ \A i \in 0 + 1 .. Len(s) : s[i] \notin Alphanumeric
    BY <1>2, <1>3, <1>4
  <2>3. SubSeq(s, 1, 0) = <<>>
    BY SubSeqEmpty
  <2>4. Letters(SubSeq(s, 1, 0)) = Letters(s)
    BY <1>2, <2>2, LettersDropRight
  <2>5. <<>> \in Seq(Alphabet) /\ Len(<<>>) <= Len(s)
    BY <1>2, EmptySeq
  <2> QED
    BY <2>1, <2>3, <2>4, <2>5, Zenon
<1>5. CASE FirstOf(I) # 0
  <2>1. PICK k \in 1 .. Len(s) : k = FirstOf(I) /\ k \in I /\ \A i \in 1 .. k - 1 : i \notin I
    BY <1>3, <1>5
  <2>2. s[k] \in Alphanumeric /\ \A i \in 1 .. k - 1 : s[i] \notin Alphanumeric
    <3>1. \A i \in 1 .. k - 1 : i \in 1 .. Len(s)
      BY <1>2, <2>1
    <3> QED
      BY <2>1, <3>1
  <2> DEFINE t == SubSeq(s, k, Len(s))
  <2>3. StripLeft(s) = t
    BY <1>1, <1>5, <2>1
  <2>4. Letters(t) = Letters(s)
    BY <1>2, <2>2, LettersDropLeft
  <2>5. \A i \in k .. Len(s) : s[i] \in Alphabet
    BY <2>2, ElementOfSeq
  <2>6. t \in Seq(Alphabet) /\ Len(t) = Len(s) - k + 1 /\ \A i \in 1 .. Len(s) - k + 1 : t[i] = s[k + i - 1]
    BY <1>2, <2>2, <2>5, SubSeqProperties
  <2>7. t[1] = s[k] /\ Len(t) <= Len(s)
    BY <1>2, <2>2, <2>6
  <2> QED
    BY <2>2, <2>3, <2>4, <2>6, <2>7
<1> QED
  BY <1>4, <1>5

\* normalize returns a valid name or none, and keeps the letters of a label that is
\* not too long.
LEMMA Normalized ==
    ASSUME NEW label \in Seq(Characters)
    PROVE  /\ Normalize(label) \in Seq(Alphabet)
           /\ Len(Normalize(label)) <= Len(label)
           /\ Normalize(label) # <<>> => ValidName(Normalize(label))
           /\ Len(label) <= MaxNameLen => Letters(Normalize(label)) = Letters(ToLower(label))
<1> DEFINE lower == ToLower(label)
           a == PutRunes(lower)
           b == TrimRight(a)
           c == Truncate(b)
           d == StripLeft(c)
<1>1. lower \in Seq(Characters) /\ Len(lower) = Len(label)
  <2> DEFINE f == [i \in 1 .. Len(label) |-> IF label[i] = "A" THEN "a" ELSE label[i]]
  <2>1. Len(label) \in Nat /\ "a" \in Characters
    BY LenProperties DEF Characters, Alphanumeric
  <2>2. f \in [1 .. Len(label) -> Characters]
    BY <2>1, ElementOfSeq
  <2>3. f \in Seq(Characters)
    BY <2>1, <2>2, SeqDef
  <2> QED
    BY <2>1, <2>3 DEF ToLower, ReplaceAll
<1> HIDE DEF lower
<1>2. a \in Seq(Alphabet) /\ Len(a) <= Len(lower) /\ Letters(a) = Letters(lower)
  BY <1>1, RunesWritten
<1> HIDE DEF a
<1>3. b \in Seq(Alphabet) /\ Len(b) <= Len(a) /\ Letters(b) = Letters(a)
  BY <1>2, Trimmed
<1> HIDE DEF b
<1>4. /\ c \in Seq(Alphabet) /\ Len(c) <= MaxNameLen /\ Len(c) <= Len(b)
      /\ Len(b) <= MaxNameLen => c = b
  BY <1>3, Truncated
<1> HIDE DEF c
<1>5. /\ d \in Seq(Alphabet) /\ Len(d) <= Len(c) /\ Letters(d) = Letters(c)
      /\ d # <<>> => d[1] \in Alphanumeric
  BY <1>4, Stripped
<1>6. Normalize(label) = d
  BY DEF Normalize, lower, a, b, c
<1> HIDE DEF d
<1>7. /\ Len(label) \in Nat /\ Len(lower) \in Nat /\ Len(a) \in Nat /\ Len(b) \in Nat
      /\ Len(c) \in Nat /\ Len(d) \in Nat
  BY <1>1, <1>2, <1>3, <1>4, <1>5, LenProperties
<1>8. Len(d) <= Len(label) /\ Len(d) <= MaxNameLen
  BY <1>1, <1>2, <1>3, <1>4, <1>5, <1>7, MaxNameLenAssumption
<1>9. Len(label) <= MaxNameLen => Letters(d) = Letters(lower)
  BY <1>1, <1>2, <1>3, <1>4, <1>5, <1>7, MaxNameLenAssumption
<1>10. ASSUME d # <<>> PROVE ValidName(d)
  <2>1. \A i \in 1 .. Len(d) : d[i] \in Alphanumeric \cup {"_", "-"}
    BY <1>5, ElementOfSeq DEF Alphabet
  <2> QED
    BY <1>5, <1>8, <1>10, <2>1 DEF ValidName
<1> QED
  BY <1>5, <1>6, <1>8, <1>9, <1>10 DEF lower

-----------------------------------------------------------------------------
\* The digits of a number.
LEMMA Places ==
    ASSUME NEW i \in Nat, i <= 9999
    PROVE  /\ i = 1000 * ((i \div 1000) % 10) + 100 * ((i \div 100) % 10) + 10 * ((i \div 10) % 10)
                    + (i % 10)
           /\ i % 10 \in 0 .. 9 /\ (i \div 10) % 10 \in 0 .. 9
           /\ (i \div 100) % 10 \in 0 .. 9 /\ (i \div 1000) % 10 \in 0 .. 9
<1> DEFINE a == i \div 10
           b == i \div 100
           c == i \div 1000
           x == i % 10
           y == a % 10
           z == b % 10
<1>1. /\ a \in Nat /\ 10 * a <= i /\ i < 10 * a + 10
      /\ b \in Nat /\ 100 * b <= i /\ i < 100 * b + 100
  OBVIOUS
<1>2. b = a \div 10
  <2> DEFINE q == a \div 10
  <2> HIDE DEF a, b
  <2>1. q \in Nat /\ 10 * q <= a /\ a < 10 * q + 10
    BY <1>1
  <2> HIDE DEF q
  <2>2. b = q
    BY <1>1, <2>1
  <2> QED
    BY <2>2 DEF q
<1>3. i = 10 * a + x /\ x \in 0 .. 9
  OBVIOUS
<1>4. a = 10 * b + y /\ y \in 0 .. 9
  BY <1>2
<1>5. b = 10 * c + z /\ z \in 0 .. 9
  OBVIOUS
<1>6. c \in 0 .. 9
  OBVIOUS
<1> HIDE DEF a, b, c, x, y, z
<1>7. c % 10 = c
  BY <1>6
<1>8. i = 1000 * c + 100 * z + 10 * y + x
  BY <1>1, <1>3, <1>4, <1>5, <1>6
<1> QED
  BY <1>3, <1>4, <1>5, <1>6, <1>7, <1>8 DEF a, b, c, x, y, z

\* A number below 10000 has one to four digits, which tell it from every other one,
\* and a greater number has no fewer.
LEMMA Decimals ==
    /\ \A i \in Nat : i <= 9999 =>
          /\ Decimal(i) \in Seq(Alphabet) /\ Len(Decimal(i)) \in 1 .. 4
          /\ \A j \in 1 .. Len(Decimal(i)) : Decimal(i)[j] \in Alphanumeric
    /\ \A i, j \in Nat : i <= 9999 /\ j <= 9999 /\ Decimal(i) = Decimal(j) => i = j
    /\ \A i, j \in Nat : i <= j /\ j <= 9999 => Len(Decimal(i)) <= Len(Decimal(j))
<1> DEFINE d(i, p) == Digit((i \div p) % 10)
           L == {i \in Nat : i <= 9999}
<1>1. ASSUME NEW i \in L
      PROVE  /\ i < 10 => Decimal(i) = <<d(i, 1)>>
             /\ 10 <= i /\ i < 100 => Decimal(i) = <<d(i, 10), d(i, 1)>>
             /\ 100 <= i /\ i < 1000 => Decimal(i) = <<d(i, 100), d(i, 10), d(i, 1)>>
             /\ 1000 <= i => Decimal(i) = <<d(i, 1000), d(i, 100), d(i, 10), d(i, 1)>>
  <2>1. Decimal(i) = CASE i < 10 -> <<d(i, 1)>>
                       [] 10 <= i /\ i < 100 -> <<d(i, 10), d(i, 1)>>
                       [] 100 <= i /\ i < 1000 -> <<d(i, 100), d(i, 10), d(i, 1)>>
                       [] OTHER -> <<d(i, 1000), d(i, 100), d(i, 10), d(i, 1)>>
    BY DEF Decimal
  <2> HIDE DEF d
  <2> QED
    BY <2>1
<1>2. ASSUME NEW i \in L
      PROVE  /\ i = 1000 * ((i \div 1000) % 10) + 100 * ((i \div 100) % 10) + 10 * ((i \div 10) % 10)
                      + ((i \div 1) % 10)
             /\ (i \div 1) % 10 \in 0 .. 9 /\ (i \div 10) % 10 \in 0 .. 9
             /\ (i \div 100) % 10 \in 0 .. 9 /\ (i \div 1000) % 10 \in 0 .. 9
             /\ (i < 10 => (i \div 10) % 10 = 0) /\ (i < 100 => (i \div 100) % 10 = 0)
             /\ (i < 1000 => (i \div 1000) % 10 = 0)
  <2>1. i \div 1 = i
    OBVIOUS
  <2>2. /\ (i < 10 => i \div 10 = 0) /\ (i < 100 => i \div 100 = 0) /\ (i < 1000 => i \div 1000 = 0)
    OBVIOUS
  <2>3. 0 % 10 = 0
    OBVIOUS
  <2> QED
    BY <2>1, <2>2, <2>3, Places
<1>3. ASSUME NEW i \in L, NEW p \in {1, 10, 100, 1000}
      PROVE  d(i, p) \in Alphanumeric
  <2>1. (i \div p) % 10 \in 0 .. 9
    BY <1>2
  <2> QED
    BY <2>1 DEF Alphanumeric
<1>4. ASSUME NEW i \in L, NEW j \in L, NEW p \in {1, 10, 100, 1000}, d(i, p) = d(j, p)
      PROVE  (i \div p) % 10 = (j \div p) % 10
  <2>1. (i \div p) % 10 \in 0 .. 9 /\ (j \div p) % 10 \in 0 .. 9
    BY <1>2
  <2> QED
    BY <1>4, <2>1, Digits
<1> HIDE DEF d
<1>5. ASSUME NEW i \in L
      PROVE  /\ Decimal(i) \in Seq(Alphanumeric)
             /\ Len(Decimal(i)) = IF i < 10 THEN 1 ELSE IF i < 100 THEN 2 ELSE IF i < 1000 THEN 3 ELSE 4
  <2>1. \A p \in {1, 10, 100, 1000} : d(i, p) \in Alphanumeric
    BY <1>3
  <2>2. CASE i < 10
    <3>1. Decimal(i) = <<d(i, 1)>> /\ d(i, 1) \in Alphanumeric
      BY <1>1, <2>1, <2>2
    <3> QED
      BY <2>2, <3>1
  <2>3. CASE 10 <= i /\ i < 100
    <3>1. Decimal(i) = <<d(i, 10), d(i, 1)>> /\ d(i, 10) \in Alphanumeric /\ d(i, 1) \in Alphanumeric
      BY <1>1, <2>1, <2>3
    <3> QED
      BY <2>3, <3>1
  <2>4. CASE 100 <= i /\ i < 1000
    <3>1. /\ Decimal(i) = <<d(i, 100), d(i, 10), d(i, 1)>>
          /\ d(i, 100) \in Alphanumeric /\ d(i, 10) \in Alphanumeric /\ d(i, 1) \in Alphanumeric
      BY <1>1, <2>1, <2>4
    <3> QED
      BY <2>4, <3>1
  <2>5. CASE 1000 <= i
    <3>1. /\ Decimal(i) = <<d(i, 1000), d(i, 100), d(i, 10), d(i, 1)>> /\ d(i, 1000) \in Alphanumeric
          /\ d(i, 100) \in Alphanumeric /\ d(i, 10) \in Alphanumeric /\ d(i, 1) \in Alphanumeric
      BY <1>1, <2>1, <2>5
    <3> QED
      BY <2>5, <3>1
  <2> QED
    BY <2>2, <2>3, <2>4, <2>5
<1>6. ASSUME NEW i \in L
      PROVE  /\ Decimal(i) \in Seq(Alphabet) /\ Len(Decimal(i)) \in 1 .. 4
             /\ \A j \in 1 .. Len(Decimal(i)) : Decimal(i)[j] \in Alphanumeric
  <2>1. Decimal(i) \in Seq(Alphanumeric) /\ Len(Decimal(i)) \in 1 .. 4
    BY <1>5
  <2>2. Decimal(i) \in Seq(Alphabet)
    BY <2>1, Alphabets
  <2>3. ASSUME NEW j \in 1 .. Len(Decimal(i)) PROVE Decimal(i)[j] \in Alphanumeric
    BY <2>1, ElementOfSeq
  <2> QED
    BY <2>1, <2>2, <2>3
<1>7. ASSUME NEW i \in L, NEW j \in L, Decimal(i) = Decimal(j) PROVE i = j
  <2> DEFINE v(k, p) == (k \div p) % 10
  <2>1. \/ i < 10 /\ j < 10
        \/ 10 <= i /\ i < 100 /\ 10 <= j /\ j < 100
        \/ 100 <= i /\ i < 1000 /\ 100 <= j /\ j < 1000
        \/ 1000 <= i /\ 1000 <= j
    <3> DEFINE m == Len(Decimal(i))
               n == Len(Decimal(j))
    <3>1. /\ m = IF i < 10 THEN 1 ELSE IF i < 100 THEN 2 ELSE IF i < 1000 THEN 3 ELSE 4
          /\ n = IF j < 10 THEN 1 ELSE IF j < 100 THEN 2 ELSE IF j < 1000 THEN 3 ELSE 4
      BY <1>5
    <3>2. m = n
      BY <1>7
    <3> HIDE DEF m, n
    <3> QED
      BY <3>1, <3>2
  <2>2. \A p \in {1, 10, 100, 1000} : d(i, p) = d(j, p) => v(i, p) = v(j, p)
    BY <1>4
  <2>3. CASE i < 10 /\ j < 10
    <3>1. d(i, 1) = d(j, 1)
      BY <1>1, <1>7, <2>3
    <3>2. v(i, 10) = v(j, 10) /\ v(i, 100) = v(j, 100) /\ v(i, 1000) = v(j, 1000)
      BY <1>2, <2>3
    <3> QED
      BY <1>2, <2>2, <3>1, <3>2
  <2>4. CASE 10 <= i /\ i < 100 /\ 10 <= j /\ j < 100
    <3>1. d(i, 1) = d(j, 1) /\ d(i, 10) = d(j, 10)
      BY <1>1, <1>7, <2>4
    <3>2. v(i, 100) = v(j, 100) /\ v(i, 1000) = v(j, 1000)
      BY <1>2, <2>4
    <3> QED
      BY <1>2, <2>2, <3>1, <3>2
  <2>5. CASE 100 <= i /\ i < 1000 /\ 100 <= j /\ j < 1000
    <3>1. d(i, 1) = d(j, 1) /\ d(i, 10) = d(j, 10) /\ d(i, 100) = d(j, 100)
      BY <1>1, <1>7, <2>5
    <3>2. v(i, 1000) = v(j, 1000)
      BY <1>2, <2>5
    <3> QED
      BY <1>2, <2>2, <3>1, <3>2
  <2>6. CASE 1000 <= i /\ 1000 <= j
    <3>1. d(i, 1) = d(j, 1) /\ d(i, 10) = d(j, 10) /\ d(i, 100) = d(j, 100) /\ d(i, 1000) = d(j, 1000)
      BY <1>1, <1>7, <2>6
    <3> QED
      BY <1>2, <2>2, <3>1
  <2> QED
    BY <2>1, <2>3, <2>4, <2>5, <2>6
<1>8. ASSUME NEW i \in L, NEW j \in L, i <= j PROVE Len(Decimal(i)) <= Len(Decimal(j))
  <2> DEFINE m == Len(Decimal(i))
             n == Len(Decimal(j))
  <2>1. /\ m = IF i < 10 THEN 1 ELSE IF i < 100 THEN 2 ELSE IF i < 1000 THEN 3 ELSE 4
        /\ n = IF j < 10 THEN 1 ELSE IF j < 100 THEN 2 ELSE IF j < 1000 THEN 3 ELSE 4
    BY <1>5
  <2> HIDE DEF m, n
  <2>2. m <= n
    BY <1>8, <2>1
  <2> QED
    BY <2>2 DEF m, n
<1>9. \A i, j \in Nat : i <= j /\ j <= 9999 => i \in L /\ j \in L
  OBVIOUS
<1> QED
  BY <1>6, <1>7, <1>8, <1>9

LEMMA SuffixForm ==
    ASSUME NEW i \in Nat, i <= 9999
    PROVE  /\ Suffix(i) \in Seq(Alphabet) /\ Len(Suffix(i)) = Len(Decimal(i)) + 1
           /\ Suffix(i)[1] = "-"
           /\ \A j \in 1 .. Len(Decimal(i)) : Suffix(i)[j + 1] = Decimal(i)[j]
<1> DEFINE dash == <<"-">>
           n == Decimal(i)
<1>1. n \in Seq(Alphabet) /\ Len(n) \in 1 .. 4
  BY Decimals
<1>2. dash \in Seq(Alphabet) /\ Len(dash) = 1 /\ dash[1] = "-"
  BY DEF Alphabet
<1> HIDE DEF dash, n
<1>3. /\ dash \o n \in Seq(Alphabet) /\ Len(dash \o n) = 1 + Len(n)
      /\ \A j \in 1 .. 1 + Len(n) : (dash \o n)[j] = IF j <= 1 THEN dash[j] ELSE n[j - 1]
  <2>1. /\ dash \o n \in Seq(Alphabet) /\ Len(dash \o n) = Len(dash) + Len(n)
        /\ \A j \in 1 .. Len(dash) + Len(n) :
              (dash \o n)[j] = IF j <= Len(dash) THEN dash[j] ELSE n[j - Len(dash)]
    <3>0. dash \in Seq(Alphabet) /\ n \in Seq(Alphabet)
      BY <1>1, <1>2
    <3>1. dash \o n \in Seq(Alphabet)
      BY <3>0, Joined
    <3>2. Len(dash \o n) = Len(dash) + Len(n)
      BY <3>0, Joined
    <3>3. \A j \in 1 .. Len(dash) + Len(n) :
              (dash \o n)[j] = IF j <= Len(dash) THEN dash[j] ELSE n[j - Len(dash)]
      BY <3>0, Joined
    <3> QED
      BY <3>1, <3>2, <3>3
  <2> QED
    BY <1>2, <2>1
<1>4. Suffix(i) = dash \o n
  BY DEF Suffix, dash, n
<1>5. (dash \o n)[1] = "-" /\ \A j \in 1 .. Len(n) : (dash \o n)[j + 1] = n[j]
  BY <1>1, <1>2, <1>3
<1> QED
  BY <1>1, <1>3, <1>4, <1>5 DEF n

\* What the assumption on the length of names comes to.
LEMMA NameRoom ==
    /\ MaxNameLen \in Nat /\ MaxNameLen >= 5
    /\ \A i \in 1 .. MaxTries : 3 + Len(Suffix(i)) <= MaxNameLen
<1>1. MaxTries \in Nat /\ MaxTries <= 9999 /\ Len(FallbackName) = 3
  BY TriesAssumption DEF FallbackName
<1>2. ASSUME NEW i \in 1 .. MaxTries
      PROVE  /\ i \in Nat /\ Len(Decimal(i)) <= Len(Decimal(MaxTries))
             /\ Len(Suffix(i)) = Len(Decimal(i)) + 1 /\ Len(Decimal(i)) \in 1 .. 4
  BY <1>1, SuffixForm, Decimals
<1>3. Len(Suffix(MaxTries)) = Len(Decimal(MaxTries)) + 1 /\ Len(Decimal(MaxTries)) \in 1 .. 4
  BY <1>1, SuffixForm, Decimals
<1> DEFINE m == Len(Suffix(MaxTries))
<1>4. MaxNameLen \in Nat /\ 3 + m <= MaxNameLen /\ m \in 2 .. 5
  <2> DEFINE d == Len(Decimal(MaxTries))
  <2>1. m = d + 1 /\ d \in 1 .. 4
    BY <1>3
  <2>2. MaxNameLen \in Nat /\ 3 + m <= MaxNameLen
    BY <1>1, MaxNameLenAssumption
  <2> HIDE DEF m, d
  <2>3. m \in 2 .. 5
    BY <2>1
  <2> QED
    BY <2>2, <2>3
<1>5. ASSUME NEW i \in 1 .. MaxTries PROVE 3 + Len(Suffix(i)) <= MaxNameLen
  <2> DEFINE k == Len(Suffix(i))
  <2>1. k \in Nat /\ k <= m
    BY <1>2, <1>3
  <2> HIDE DEF k, m
  <2>2. 3 + k <= MaxNameLen
    BY <1>4, <2>1
  <2> QED
    BY <2>2 DEF k
<1> QED
  BY <1>4, <1>5

\* A name with a suffix: where the dash and the digits are.
Dashed(b, i) == b \o Suffix(i)

\* n is b, "-" and the digits d.
Made(n, b, d) ==
    /\ n \in Seq(Alphabet)
    /\ Len(n) = Len(b) + 1 + Len(d)
    /\ \A j \in 1 .. Len(b) : n[j] = b[j]
    /\ n[Len(b) + 1] = "-"
    /\ \A j \in 1 .. Len(d) : n[Len(b) + 1 + j] = d[j]

LEMMA Suffixed ==
    ASSUME NEW b \in Seq(Alphabet), NEW i \in Nat, i <= 9999
    PROVE  Made(Dashed(b, i), b, Decimal(i))
<1> DEFINE x == Suffix(i)
           n == b \o x
<1>1. /\ x \in Seq(Alphabet) /\ Len(x) = Len(Decimal(i)) + 1 /\ Len(Decimal(i)) \in Nat
      /\ x[1] = "-" /\ \A j \in 1 .. Len(Decimal(i)) : x[j + 1] = Decimal(i)[j]
  BY SuffixForm, Decimals
<1> HIDE DEF x
<1>2. Len(b) \in Nat
  BY LenProperties
<1>3. /\ n \in Seq(Alphabet) /\ Len(n) = Len(b) + Len(x)
      /\ \A j \in 1 .. Len(b) + Len(x) : n[j] = IF j <= Len(b) THEN b[j] ELSE x[j - Len(b)]
  <2>0. x \in Seq(Alphabet) /\ b \in Seq(Alphabet)
    BY <1>1
  <2>1. n \in Seq(Alphabet)
    BY <2>0, Joined
  <2>2. Len(n) = Len(b) + Len(x)
    BY <2>0, Joined
  <2>3. \A j \in 1 .. Len(b) + Len(x) : n[j] = IF j <= Len(b) THEN b[j] ELSE x[j - Len(b)]
    BY <2>0, Joined
  <2> QED
    BY <2>1, <2>2, <2>3
<1> HIDE DEF n
<1>4. (\A j \in 1 .. Len(b) : n[j] = b[j]) /\ n[Len(b) + 1] = "-"
  BY <1>1, <1>2, <1>3
<1>5. ASSUME NEW j \in 1 .. Len(Decimal(i)) PROVE n[Len(b) + 1 + j] = Decimal(i)[j]
  <2>1. /\ Len(b) + 1 + j \in 1 .. Len(b) + Len(x) /\ ~(Len(b) + 1 + j <= Len(b))
        /\ (Len(b) + 1 + j) - Len(b) = j + 1
    BY <1>1, <1>2
  <2> QED
    BY <1>1, <1>3, <2>1
<1> QED
  BY <1>1, <1>3, <1>4, <1>5 DEF Made, Dashed, n, x

\* What deriveName starts from.
BaseOf(label) == IF Normalize(label) = <<>> THEN FallbackName ELSE Normalize(label)

LEMMA FallbackValid == FallbackName \in Seq(Alphabet) /\ Len(FallbackName) = 3 /\ ValidName(FallbackName)
<1>1. {"k", "e", "y"} \subseteq Alphanumeric /\ {"k", "e", "y"} \subseteq Alphabet
  BY DEF Alphanumeric, Alphabet
<1>2. /\ FallbackName \in Seq(Alphabet) /\ Len(FallbackName) = 3 /\ FallbackName # <<>>
      /\ FallbackName[1] = "k" /\ FallbackName[2] = "e" /\ FallbackName[3] = "y"
  BY <1>1 DEF FallbackName
<1>3. \A i \in 1 .. Len(FallbackName) : FallbackName[i] \in Alphanumeric \cup {"_", "-"}
  BY <1>2, ElementOfSeq DEF Alphabet
<1>4. Len(FallbackName) <= MaxNameLen /\ FallbackName[1] \in Alphanumeric
  BY <1>1, <1>2, NameRoom
<1> QED
  BY <1>2, <1>3, <1>4, Zenon DEF ValidName

LEMMA BaseValid ==
    ASSUME NEW label \in Seq(Characters)
    PROVE  BaseOf(label) \in Seq(Alphabet) /\ ValidName(BaseOf(label))
BY Normalized, FallbackValid DEF BaseOf

\* The digits of a name are those after its last "-".
LEMMA MadeOnce ==
    ASSUME NEW n, NEW b \in Seq(Alphabet), NEW c \in Seq(Alphabet),
           NEW x \in Seq(Alphabet), NEW y \in Seq(Alphabet),
           \A k \in 1 .. Len(y) : y[k] \in Alphanumeric,
           Len(x) <= Len(y), Made(n, b, x), Made(n, c, y)
    PROVE  x = y
<1> DEFINE lb == Len(b)
           lc == Len(c)
           lx == Len(x)
           ly == Len(y)
           dash == n[lb + 1]
<1>1. lb \in Nat /\ lc \in Nat /\ lx \in Nat /\ ly \in Nat
  BY LenProperties
<1>2. lb + 1 + lx = lc + 1 + ly /\ lx <= ly
  BY DEF Made
<1>3. dash = "-"
  BY DEF Made
<1>4. \A k \in 1 .. lx : n[lb + 1 + k] = x[k]
  BY DEF Made
<1>5. \A k \in 1 .. ly : n[lc + 1 + k] = y[k]
  BY DEF Made
<1>6. \A k \in 1 .. ly : y[k] \in Alphanumeric
  OBVIOUS
<1> HIDE DEF lb, lc, lx, ly
<1>7. ~(lx < ly)
  <2> SUFFICES ASSUME lx < ly PROVE FALSE
    OBVIOUS
  <2> DEFINE k == ly - lx
  <2>1. k \in 1 .. ly /\ lc + 1 + k = lb + 1
    BY <1>1, <1>2
  <2> HIDE DEF k
  <2>2. dash = y[k]
    BY <1>5, <2>1
  <2>3. dash \in Alphanumeric
    BY <1>6, <2>1, <2>2
  <2> HIDE DEF dash
  <2> QED
    BY <1>3, <2>3, AlphabetType
<1>8. lx = ly /\ lb = lc
  BY <1>1, <1>2, <1>7
<1>9. \A k \in 1 .. lx : x[k] = y[k]
  BY <1>4, <1>5, <1>8
<1>10. Len(x) = Len(y) /\ \A k \in 1 .. Len(x) : x[k] = y[k]
  BY <1>8, <1>9 DEF lx, ly
<1> QED
  BY <1>10, SeqEqual

\* So the suffix tells which one it is.
LEMMA SuffixTells ==
    ASSUME NEW b \in Seq(Alphabet), NEW c \in Seq(Alphabet),
           NEW i \in Nat, NEW j \in Nat, i <= 9999, j <= 9999,
           Len(Decimal(i)) <= Len(Decimal(j)), Dashed(b, i) = Dashed(c, j)
    PROVE  i = j
<1> DEFINE n == Dashed(b, i)
           x == Decimal(i)
           y == Decimal(j)
<1>1. Made(n, b, x)
  BY Suffixed
<1>2. Made(n, c, y)
  <2>1. Made(Dashed(c, j), c, y)
    BY Suffixed
  <2> QED
    BY <2>1
<1>3. x \in Seq(Alphabet) /\ y \in Seq(Alphabet) /\ \A k \in 1 .. Len(y) : y[k] \in Alphanumeric
  BY Decimals
<1>4. Len(x) <= Len(y)
  OBVIOUS
<1>5. x = y => i = j
  BY Decimals
<1> HIDE DEF n, x, y
<1>6. x = y
  BY <1>1, <1>2, <1>3, <1>4, MadeOnce
<1> QED
  BY <1>5, <1>6

\* Every candidate is a valid name, and no two are the same.
LEMMA Candidates ==
    ASSUME NEW b \in Seq(Alphabet), ValidName(b)
    PROVE  /\ \A i \in 1 .. MaxTries : Candidate(b, i) \in Seq(Alphabet) /\ ValidName(Candidate(b, i))
           /\ \A i, j \in 1 .. MaxTries : Candidate(b, i) = Candidate(b, j) => i = j
<1> DEFINE c(i) == IF Len(b) + Len(Suffix(i)) > MaxNameLen THEN FallbackName ELSE b
<1>0. ASSUME NEW i \in 1 .. MaxTries
      PROVE  i \in Nat /\ i <= 9999 /\ Len(Decimal(i)) \in 1 .. 4 /\ Len(Suffix(i)) = Len(Decimal(i)) + 1
  <2>1. i \in Nat /\ i <= 9999
    BY TriesAssumption
  <2> QED
    BY <2>1, Decimals, SuffixForm
<1>1. ASSUME NEW i \in 1 .. MaxTries
      PROVE  /\ Candidate(b, i) = Dashed(c(i), i)
             /\ c(i) \in Seq(Alphabet) /\ Len(c(i)) \in Nat /\ Len(c(i)) + Len(Suffix(i)) <= MaxNameLen
             /\ c(i) # <<>> /\ c(i)[1] \in Alphanumeric
  <2>1. Len(b) \in Nat /\ Len(Suffix(i)) \in Nat /\ b # <<>> /\ b[1] \in Alphanumeric
    <3>1. Len(Suffix(i)) \in Nat
      BY <1>0
    <3>2. Len(b) \in Nat
      BY LenProperties
    <3> QED
      BY <3>1, <3>2 DEF ValidName
  <2>2. /\ FallbackName # <<>> /\ FallbackName[1] \in Alphanumeric /\ FallbackName \in Seq(Alphabet)
        /\ Len(FallbackName) = 3
    BY FallbackValid DEF ValidName
  <2>3. CASE Len(b) + Len(Suffix(i)) > MaxNameLen
    <3>1. c(i) = FallbackName /\ Candidate(b, i) = Dashed(FallbackName, i)
      BY <2>3 DEF Candidate, Dashed
    <3>2. 3 + Len(Suffix(i)) <= MaxNameLen
      BY NameRoom
    <3>3. /\ Candidate(b, i) = Dashed(c(i), i) /\ c(i) \in Seq(Alphabet)
          /\ c(i) # <<>> /\ c(i)[1] \in Alphanumeric
      BY <2>2, <3>1
    <3>4. Len(c(i)) = 3
      BY <2>2, <3>1
    <3> HIDE DEF c
    <3> QED
      BY <3>2, <3>3, <3>4
  <2>4. CASE ~(Len(b) + Len(Suffix(i)) > MaxNameLen)
    <3>1. c(i) = b /\ Candidate(b, i) = Dashed(b, i)
      BY <2>4 DEF Candidate, Dashed
    <3>2. Len(b) + Len(Suffix(i)) <= MaxNameLen
      BY <2>1, <2>4, NameRoom
    <3> HIDE DEF c
    <3> QED
      BY <2>1, <3>1, <3>2
  <2> QED
    BY <2>3, <2>4
<1> HIDE DEF c
<1>2. ASSUME NEW i \in 1 .. MaxTries
      PROVE  /\ Candidate(b, i) \in Seq(Alphabet) /\ Len(Candidate(b, i)) = Len(c(i)) + Len(Suffix(i))
             /\ \A j \in 1 .. Len(c(i)) : Candidate(b, i)[j] = c(i)[j]
  <2> DEFINE a == c(i)
             n == Dashed(a, i)
  <2>1. a \in Seq(Alphabet) /\ Len(a) \in Nat /\ Candidate(b, i) = n
    BY <1>1
  <2> HIDE DEF a
  <2>2. n \in Seq(Alphabet) /\ Len(n) = Len(a) + 1 + Len(Decimal(i)) /\ \A j \in 1 .. Len(a) : n[j] = a[j]
    <3>1. Made(n, a, Decimal(i))
      BY <1>0, <2>1, Suffixed
    <3> QED
      BY <3>1 DEF Made
  <2> HIDE DEF n
  <2>3. Len(n) = Len(a) + Len(Suffix(i))
    <3> DEFINE k == Len(Decimal(i))
    <3>1. k \in Nat /\ Len(Suffix(i)) = k + 1 /\ Len(n) = Len(a) + 1 + k /\ Len(a) \in Nat
      BY <1>0, <2>1, <2>2
    <3> HIDE DEF k
    <3> QED
      BY <3>1
  <2> QED
    BY <2>1, <2>2, <2>3 DEF a
<1>3. ASSUME NEW i \in 1 .. MaxTries PROVE ValidName(Candidate(b, i))
  <2> DEFINE n == Candidate(b, i)
             a == c(i)
  <2>1. /\ n \in Seq(Alphabet) /\ Len(n) = Len(a) + Len(Suffix(i)) /\ \A j \in 1 .. Len(a) : n[j] = a[j]
        /\ Len(a) \in Nat /\ Len(a) + Len(Suffix(i)) <= MaxNameLen /\ Len(Suffix(i)) \in Nat
        /\ a \in Seq(Alphabet) /\ a # <<>> /\ a[1] \in Alphanumeric
    BY <1>0, <1>1, <1>2
  <2> HIDE DEF n, a
  <2>2. \A j \in 1 .. Len(n) : n[j] \in Alphanumeric \cup {"_", "-"}
    BY <2>1, ElementOfSeq DEF Alphabet
  <2>3. Len(a) # 0
    BY <2>1, EmptySeq
  <2>4. n[1] = a[1] /\ Len(n) <= MaxNameLen /\ Len(n) # 0
    BY <2>1, <2>3
  <2>5. n # <<>>
    BY <2>4, EmptySeq
  <2> QED
    BY <2>1, <2>2, <2>4, <2>5 DEF ValidName, n
<1>4. ASSUME NEW i \in 1 .. MaxTries, NEW j \in 1 .. MaxTries, Candidate(b, i) = Candidate(b, j),
             Len(Decimal(i)) <= Len(Decimal(j))
      PROVE  i = j
  <2>1. c(i) \in Seq(Alphabet) /\ c(j) \in Seq(Alphabet) /\ Dashed(c(i), i) = Dashed(c(j), j)
    BY <1>1, <1>4
  <2>2. i \in Nat /\ j \in Nat /\ i <= 9999 /\ j <= 9999
    BY <1>0
  <2> QED
    BY <1>4, <2>1, <2>2, SuffixTells
<1>5. ASSUME NEW i \in 1 .. MaxTries, NEW j \in 1 .. MaxTries, Candidate(b, i) = Candidate(b, j)
      PROVE  i = j
  <2>1. Len(Decimal(i)) <= Len(Decimal(j)) \/ Len(Decimal(j)) <= Len(Decimal(i))
    BY <1>0
  <2> QED
    BY <1>4, <1>5, <2>1
<1> QED
  BY <1>2, <1>3, <1>5

\* What deriveName returns: the base, the first free candidate where the base and those
\* before it are taken, or the last resort where all are.
LEMMA DeriveCases ==
    ASSUME NEW label \in Seq(Characters), NEW E
    PROVE  LET b == BaseOf(label)
               n == DeriveName(label, E)
           IN  \/ n = b /\ n \notin E
               \/ /\ b \in E
                  /\ \E i \in 1 .. MaxTries : /\ n = Candidate(b, i) /\ n \notin E
                                              /\ \A j \in 1 .. i - 1 : Candidate(b, j) \in E
               \/ n = FallbackName /\ b \in E /\ \A i \in 1 .. MaxTries : Candidate(b, i) \in E
<1> DEFINE b == BaseOf(label)
           tries == [i \in 1 .. MaxTries |-> Candidate(b, i)]
           I == {i \in 1 .. Len(tries) : tries[i] \notin E /\ ValidName(tries[i])}
<1>1. b \in Seq(Alphabet) /\ ValidName(b)
  BY BaseValid
<1>2. DeriveName(label, E) =
        IF b \notin E /\ ValidName(b) THEN b ELSE IF FirstOf(I) = 0 THEN FallbackName ELSE tries[FirstOf(I)]
  BY DEF DeriveName, SelectInSeq, FirstOf, BaseOf
<1>3. MaxTries \in Nat
  BY TriesAssumption
<1> HIDE DEF b
<1>4. \A i \in 1 .. MaxTries : ValidName(tries[i]) /\ tries[i] = Candidate(b, i)
  BY <1>1, Candidates
<1>5. Len(tries) = MaxTries
  BY <1>3
<1>6. /\ I \subseteq 1 .. MaxTries
      /\ \A i \in 1 .. MaxTries : i \in I <=> Candidate(b, i) \notin E
  BY <1>4, <1>5
<1> HIDE DEF I, tries
<1>7. FirstOf(I) = 0 => I = {}
  BY <1>3, <1>6, FirstIndex
<1>8. FirstOf(I) # 0 => FirstOf(I) \in I /\ \A i \in 1 .. FirstOf(I) - 1 : i \notin I
  BY <1>3, <1>6, FirstIndex
<1>9. CASE b \notin E
  BY <1>1, <1>2, <1>9 DEF b
<1>10. CASE b \in E /\ FirstOf(I) = 0
  <2>1. \A i \in 1 .. MaxTries : Candidate(b, i) \in E
    BY <1>6, <1>7, <1>10
  <2>2. DeriveName(label, E) = FallbackName
    BY <1>2, <1>10
  <2> QED
    BY <1>10, <2>1, <2>2 DEF b
<1>11. CASE b \in E /\ FirstOf(I) # 0
  <2>1. PICK i \in 1 .. MaxTries : i = FirstOf(I) /\ i \in I /\ \A j \in 1 .. i - 1 : j \notin I
    BY <1>6, <1>8, <1>11
  <2>2. DeriveName(label, E) = Candidate(b, i) /\ Candidate(b, i) \notin E
    BY <1>2, <1>4, <1>6, <1>11, <2>1
  <2>3. ASSUME NEW j \in 1 .. i - 1 PROVE Candidate(b, j) \in E
    <3>1. j \in 1 .. MaxTries /\ j \notin I
      BY <1>3, <2>1
    <3> QED
      BY <1>6, <3>1
  <2> QED
    BY <1>11, <2>2, <2>3 DEF b
<1> QED
  BY <1>9, <1>10, <1>11

-----------------------------------------------------------------------------
\* The store keeps to its bound: what both properties need of the names in use.
NamesInv == IsFiniteSet(names) /\ Cardinality(names) <= MaxNames

\* The bound on keys is kept by Add and by Remove, whoever chooses the names.
THEOREM NamesBounded == NamesSpec => []NamesInv
<1>1. NamesInit => NamesInv
  BY FS_EmptySet, TriesAssumption DEF NamesInit, NamesInv
<1>2. NamesInv /\ [NamesNext]_names => NamesInv'
  <2> SUFFICES ASSUME NamesInv, [NamesNext]_names PROVE NamesInv'
    OBVIOUS
  <2>0. Cardinality(names) \in Nat
    BY FS_CardinalityType DEF NamesInv
  <2>1. ASSUME NEW n, AddKey(n) PROVE NamesInv'
    <3>1. /\ names' = names \cup {n} /\ n \notin names
          /\ Cardinality(names) < MaxNames /\ IsFiniteSet(names)
      BY <2>1 DEF AddKey, NamesInv
    <3>2. IsFiniteSet(names') /\ Cardinality(names') = Cardinality(names) + 1
      BY <3>1, FS_AddElement
    <3> QED
      BY <2>0, <3>1, <3>2, TriesAssumption DEF NamesInv
  <2>2. ASSUME NEW n, RemoveKey(n) PROVE NamesInv'
    <3>1. names' = names \ {n} /\ n \in names /\ IsFiniteSet(names) /\ Cardinality(names) <= MaxNames
      BY <2>2 DEF RemoveKey, NamesInv
    <3>2. IsFiniteSet(names') /\ Cardinality(names') = Cardinality(names) - 1
      BY <3>1, FS_RemoveElement
    <3> QED
      BY <2>0, <3>1, <3>2, TriesAssumption DEF NamesInv
  <2>3. CASE UNCHANGED names
    BY <2>3 DEF NamesInv
  <2> QED
    BY <2>1, <2>2, <2>3 DEF NamesNext, AddDerived, AddSuggested
<1> QED
  BY <1>1, <1>2, PTL DEF NamesSpec

\* Whatever the label and whatever names a store that is not full holds, deriveName
\* finds a valid and free name: its candidates are more than the names in use.
THEOREM DerivedUsable == NamesSpec => []DerivedNameIsUsable
<1>1. NamesInv => DerivedNameIsUsable
  <2> SUFFICES ASSUME NamesInv, Cardinality(names) < MaxNames, NEW label \in Labels
               PROVE  ValidName(DeriveName(label, names)) /\ DeriveName(label, names) \notin names
    BY DEF DerivedNameIsUsable
  <2>1. label \in Seq(Characters)
    BY LabelsAssumption
  <2> DEFINE b == BaseOf(label)
  <2>2. b \in Seq(Alphabet) /\ ValidName(b)
    BY <2>1, BaseValid
  <2>3. MaxTries \in Nat /\ MaxNames \in Nat /\ 1 <= MaxTries /\ MaxNames <= MaxTries
    BY TriesAssumption
  <2>4. ~\A i \in 1 .. MaxTries : Candidate(b, i) \in names
    <3> SUFFICES ASSUME \A i \in 1 .. MaxTries : Candidate(b, i) \in names PROVE FALSE
      OBVIOUS
    <3> DEFINE f == [i \in 1 .. MaxTries |-> Candidate(b, i)]
    <3> HIDE DEF b
    <3>1. f \in [1 .. MaxTries -> names]
      OBVIOUS
    <3>2. IsFiniteSet(1 .. MaxTries) /\ Cardinality(1 .. MaxTries) = MaxTries
      <4>1. MaxTries \in Int /\ 1 \in Int /\ ~(1 > MaxTries) /\ MaxTries - 1 + 1 = MaxTries
        BY <2>3
      <4> QED
        BY <4>1, FS_Interval
    <3>3. IsFiniteSet(names) /\ Cardinality(names) \in Nat
      BY FS_CardinalityType DEF NamesInv
    <3>4. Cardinality(names) < Cardinality(1 .. MaxTries)
      BY <2>3, <3>2, <3>3
    <3>5. \E i, j \in 1 .. MaxTries : i # j /\ f[i] = f[j]
      <4> HIDE DEF f
      <4> QED
        BY <3>1, <3>2, <3>3, <3>4, FS_PigeonHole
    <3> QED
      BY <2>2, <2>3, <3>5, Candidates
  <2>5. \/ DeriveName(label, names) = b /\ DeriveName(label, names) \notin names
        \/ \E i \in 1 .. MaxTries : /\ DeriveName(label, names) = Candidate(b, i)
                                    /\ DeriveName(label, names) \notin names
    BY <2>1, <2>4, DeriveCases
  <2> HIDE DEF b
  <2> QED
    BY <2>2, <2>3, <2>5, Candidates
<1> QED
  BY <1>1, NamesBounded, PTL

\* p is what s begins with, place by place.
Begins(p, s) == Len(p) <= Len(s) /\ \A i \in 1 .. Len(p) : s[i] = p[i]

LEMMA BeginsPrefix ==
    ASSUME NEW p \in Seq(Characters), NEW s \in Seq(Characters), Begins(p, s)
    PROVE  IsPrefix(p, s)
<1> DEFINE u == SubSeq(s, 1, Len(p))
           v == SubSeq(p, 1, Len(p))
<1>1. /\ Len(p) \in Nat /\ Len(s) \in Nat /\ Len(p) <= Len(s)
      /\ \A i \in 1 .. Len(s) : s[i] \in Characters
  BY LenProperties, ElementOfSeq DEF Begins
<1>2. \A i \in 1 .. Len(p) : s[i] \in Characters /\ s[i] = p[i]
  BY <1>1 DEF Begins
<1>3. u \in Seq(Characters) /\ Len(u) = Len(p) /\ \A i \in 1 .. Len(p) : u[i] = s[i]
  BY <1>1, <1>2, SubSeqProperties
<1>4. v = p
  BY SubSeqFull
<1> HIDE DEF u, v
<1>5. u = p
  BY <1>2, <1>3, SeqEqual
<1> QED
  BY <1>1, <1>4, <1>5 DEF IsPrefix, u, v

\* The letters of a sequence begin with the letters of what it begins with.
LEMMA LettersBegin ==
    ASSUME NEW s \in Seq(Characters), NEW k \in 0 .. Len(s)
    PROVE  IsPrefix(Letters(SubSeq(s, 1, k)), Letters(s))
<1> DEFINE L(m) == Letters(SubSeq(s, 1, m))
           p == L(k)
           S == {j \in Nat : k + j <= Len(s) => Begins(p, L(k + j))}
<1>1. /\ Len(s) \in Nat /\ k \in Nat /\ k <= Len(s)
      /\ \A i \in 1 .. Len(s) : s[i] \in Characters
  BY LenProperties, ElementOfSeq
<1>2. ASSUME NEW m \in Nat, m <= Len(s) PROVE L(m) \in Seq(Characters) /\ Len(L(m)) \in Nat
  <2>1. \A i \in 1 .. m : s[i] \in Characters
    BY <1>1, <1>2
  <2>2. SubSeq(s, 1, m) \in Seq(Characters)
    BY <1>1, <1>2, <2>1, SubSeqProperties
  <2> QED
    BY <2>2, LettersType, LenProperties
<1>3. 0 \in S
  <2>1. Begins(p, p)
    BY <1>1, <1>2 DEF Begins
  <2> QED
    BY <1>1, <2>1
<1>4. ASSUME NEW j \in Nat, j \in S PROVE j + 1 \in S
  <2> SUFFICES ASSUME k + (j + 1) <= Len(s) PROVE Begins(p, L(k + (j + 1)))
    OBVIOUS
  <2> DEFINE m == k + j
             q == L(m)
             c == s[m + 1]
  <2>1. m \in Nat /\ m + 1 <= Len(s) /\ m <= Len(s) /\ k + (j + 1) = m + 1 /\ (m + 1) - 1 = m
    BY <1>1
  <2>2. Begins(p, q)
    BY <1>4, <2>1
  <2> HIDE DEF m
  <2>3. L(m + 1) = IF c \in Alphanumeric THEN Append(q, c) ELSE q
    <3>1. 1 \in 1 .. Len(s) /\ m + 1 \in 1 .. Len(s)
      BY <1>1, <2>1
    <3> QED
      BY <2>1, <3>1, LettersSubSeq
  <2>4. q \in Seq(Characters) /\ Len(q) \in Nat /\ c \in Characters /\ Len(p) \in Nat
    BY <1>1, <1>2, <2>1
  <2> HIDE DEF p, q, c
  <2>5. Begins(p, Append(q, c))
    <3>1. Len(Append(q, c)) = Len(q) + 1 /\ \A i \in 1 .. Len(q) : Append(q, c)[i] = q[i]
      BY <2>4, AppendProperties
    <3>2. Len(p) <= Len(q) /\ \A i \in 1 .. Len(p) : q[i] = p[i]
      BY <2>2 DEF Begins
    <3>3. Len(p) <= Len(q) + 1
      BY <2>4, <3>2
    <3>4. \A i \in 1 .. Len(p) : Append(q, c)[i] = p[i]
      <4>1. \A i \in 1 .. Len(p) : i \in 1 .. Len(q)
        BY <2>4, <3>2
      <4> QED
        BY <3>1, <3>2, <4>1
    <3> QED
      BY <3>1, <3>3, <3>4 DEF Begins
  <2>6. Begins(p, L(m + 1))
    BY <2>2, <2>3, <2>5
  <2> QED
    BY <2>1, <2>6
<1>5. Len(s) - k \in S
  <2>1. Len(s) - k \in Nat
    BY <1>1
  <2> HIDE DEF S
  <2> QED
    BY <1>3, <1>4, <2>1, NatSets
<1>6. Begins(p, L(Len(s)))
  <2>1. k + (Len(s) - k) = Len(s)
    BY <1>1
  <2> QED
    BY <1>5, <2>1
<1>7. SubSeq(s, 1, Len(s)) = s
  BY SubSeqFull
<1>8. L(Len(s)) = Letters(s) /\ p \in Seq(Characters) /\ Letters(s) \in Seq(Characters)
  BY <1>1, <1>2, <1>7, LettersType
<1> HIDE DEF p
<1>9. IsPrefix(p, Letters(s))
  BY <1>6, <1>8, BeginsPrefix
<1> QED
  BY <1>9 DEF p

LEMMA NothingBegins == ASSUME NEW s \in Seq(Characters) PROVE IsPrefix(<<>>, s)
<1>1. <<>> \in Seq(Characters) /\ Len(<<>>) = 0 /\ Len(s) \in Nat
  BY EmptySeq, LenProperties
<1>2. Begins(<<>>, s)
  BY <1>1 DEF Begins
<1> QED
  BY <1>1, <1>2, BeginsPrefix

\* A suffix adds to the letters of a name and takes none away.
LEMMA DashedLetters ==
    ASSUME NEW b \in Seq(Alphabet), NEW i \in Nat, i <= 9999
    PROVE  IsPrefix(Letters(b), Letters(Dashed(b, i)))
<1> DEFINE n == Dashed(b, i)
           u == SubSeq(n, 1, Len(b))
<1>1. Made(n, b, Decimal(i)) /\ Len(Decimal(i)) \in Nat /\ Len(b) \in Nat
  <2>1. Len(Decimal(i)) \in 1 .. 4
    BY Decimals
  <2> QED
    BY <2>1, Suffixed, LenProperties
<1> HIDE DEF n
<1>2. n \in Seq(Alphabet) /\ \A j \in 1 .. Len(b) : n[j] = b[j]
  BY <1>1 DEF Made
<1>3. Len(b) \in 0 .. Len(n)
  <2>1. Len(n) = Len(b) + 1 + Len(Decimal(i))
    BY <1>1 DEF Made
  <2> QED
    BY <1>1, <2>1
<1>4. n \in Seq(Characters)
  BY <1>2, Alphabets
<1>5. \A j \in 1 .. Len(b) : n[j] \in Alphabet
  BY <1>2, ElementOfSeq
<1>6. u \in Seq(Alphabet) /\ Len(u) = Len(b) /\ \A j \in 1 .. Len(b) : u[j] = n[j]
  BY <1>1, <1>3, <1>5, SubSeqProperties
<1> HIDE DEF u
<1>7. \A j \in 1 .. Len(u) : u[j] = b[j]
  BY <1>2, <1>6
<1>8. u = b
  BY <1>6, <1>7, SeqEqual
<1>9. IsPrefix(Letters(u), Letters(n))
  BY <1>3, <1>4, LettersBegin DEF u
<1> QED
  BY <1>8, <1>9 DEF n

\* Where the base leaves room for the suffixes that a full store takes, the base or one
\* of as many candidates as there may be keys is free.
LEMMA RoomEnough ==
    ASSUME NamesInv, NEW b \in Seq(Alphabet), ValidName(b), b \in names,
           Len(b) + Len(Suffix(MaxNames)) <= MaxNameLen
    PROVE  /\ \A i \in 1 .. MaxNames : Candidate(b, i) = Dashed(b, i)
           /\ \E i \in 1 .. MaxNames : Candidate(b, i) \notin names
<1>1. /\ MaxNames \in Nat /\ MaxNames <= 9999 /\ 1 <= MaxNames
      /\ \A i \in 1 .. MaxNames : i \in 1 .. MaxTries /\ i \in Nat /\ i <= MaxNames /\ i <= 9999
  BY TriesAssumption
<1>2. ASSUME NEW i \in 1 .. MaxNames PROVE Candidate(b, i) = Dashed(b, i)
  <2> DEFINE l == Len(b)
             k == Len(Suffix(i))
             m == Len(Suffix(MaxNames))
  <2>1. /\ k = Len(Decimal(i)) + 1 /\ m = Len(Decimal(MaxNames)) + 1
        /\ Len(Decimal(i)) \in 1 .. 4 /\ Len(Decimal(MaxNames)) \in 1 .. 4
        /\ Len(Decimal(i)) <= Len(Decimal(MaxNames))
    BY <1>1, SuffixForm, Decimals
  <2>2. k \in Nat /\ m \in Nat /\ k <= m
    BY <2>1
  <2>3. l \in Nat /\ l + m <= MaxNameLen /\ MaxNameLen \in Nat
    BY LenProperties, NameRoom
  <2> HIDE DEF l, k, m
  <2>4. ~(l + k > MaxNameLen)
    BY <2>2, <2>3
  <2> QED
    BY <2>4 DEF Candidate, Dashed, l, k
<1>3. ASSUME NEW i \in 1 .. MaxNames PROVE Candidate(b, i) # b
  <2>1. Made(Candidate(b, i), b, Decimal(i)) /\ Len(Decimal(i)) \in 1 .. 4 /\ Len(b) \in Nat
    BY <1>1, <1>2, Suffixed, Decimals, LenProperties
  <2>2. Len(Candidate(b, i)) = Len(b) + 1 + Len(Decimal(i))
    BY <2>1 DEF Made
  <2> QED
    BY <2>1, <2>2
<1>4. ASSUME NEW i \in 1 .. MaxNames, NEW j \in 1 .. MaxNames, Candidate(b, i) = Candidate(b, j)
      PROVE  i = j
  BY <1>1, <1>4, Candidates
<1>5. ~\A i \in 1 .. MaxNames : Candidate(b, i) \in names
  <2> SUFFICES ASSUME \A i \in 1 .. MaxNames : Candidate(b, i) \in names PROVE FALSE
    OBVIOUS
  <2> DEFINE f == [i \in 0 .. MaxNames |-> IF i = 0 THEN b ELSE Candidate(b, i)]
  <2>0. \A i \in 0 .. MaxNames : i = 0 \/ i \in 1 .. MaxNames
    BY <1>1
  <2>1. f \in [0 .. MaxNames -> names]
    BY <2>0
  <2>2. IsFiniteSet(0 .. MaxNames) /\ Cardinality(0 .. MaxNames) = MaxNames + 1
    <3>1. MaxNames \in Int /\ 0 \in Int /\ ~(0 > MaxNames) /\ MaxNames - 0 + 1 = MaxNames + 1
      BY <1>1
    <3> QED
      BY <3>1, FS_Interval
  <2>3. IsFiniteSet(names) /\ Cardinality(names) \in Nat /\ Cardinality(names) <= MaxNames
    BY FS_CardinalityType DEF NamesInv
  <2>4. Cardinality(names) < Cardinality(0 .. MaxNames)
    BY <1>1, <2>2, <2>3
  <2>5. \E i, j \in 0 .. MaxNames : i # j /\ f[i] = f[j]
    <3> HIDE DEF f
    <3> QED
      BY <2>1, <2>2, <2>3, <2>4, FS_PigeonHole
  <2> QED
    BY <1>3, <1>4, <2>0, <2>5
<1> QED
  BY <1>2, <1>5

\* A label that leaves room for the suffixes that a full store takes is in the name with
\* all its letters and digits, whatever names are in use: neither key-i nor the last
\* resort of deriveName, which would lose them, is in reach of a store that keeps to
\* its bound.
THEOREM DerivedTellsLabel == NamesSpec => []NameTellsLabel
<1>1. NamesInv => NameTellsLabel
  <2> SUFFICES ASSUME NamesInv, NEW label \in Labels, Len(label) + Len(Suffix(MaxNames)) <= MaxNameLen
               PROVE  IsPrefix(Letters(ToLower(label)), Letters(DeriveName(label, names)))
    BY DEF NameTellsLabel
  <2> DEFINE b == BaseOf(label)
             n == DeriveName(label, names)
             m == Len(Suffix(MaxNames))
  <2>1. label \in Seq(Characters) /\ Len(label) \in Nat
    BY LabelsAssumption, LenProperties
  <2>2. b \in Seq(Alphabet) /\ ValidName(b) /\ Len(b) \in Nat
    BY <2>1, BaseValid, LenProperties
  <2>3. /\ MaxTries \in Nat /\ MaxNames \in Nat /\ MaxNames <= MaxTries /\ MaxTries <= 9999
        /\ \A i \in 1 .. MaxNames : i \in 1 .. MaxTries
    BY TriesAssumption
  <2>4. m \in Nat /\ MaxNameLen \in Nat /\ Len(label) + m <= MaxNameLen
    <3>1. MaxNames <= 9999
      BY <2>3
    <3>2. m = Len(Decimal(MaxNames)) + 1 /\ Len(Decimal(MaxNames)) \in 1 .. 4
      BY <2>3, <3>1, SuffixForm, Decimals
    <3>3. MaxNameLen \in Nat
      BY NameRoom
    <3> QED
      BY <3>2, <3>3
  <2> HIDE DEF m
  <2>5. Letters(Normalize(label)) = Letters(ToLower(label)) /\ Len(Normalize(label)) <= Len(label)
    <3>1. Len(label) <= MaxNameLen
      BY <2>1, <2>4
    <3> QED
      BY <2>1, <3>1, Normalized
  <2>6. \/ n = b /\ n \notin names
        \/ /\ b \in names
           /\ \E i \in 1 .. MaxTries : /\ n = Candidate(b, i) /\ n \notin names
                                       /\ \A j \in 1 .. i - 1 : Candidate(b, j) \in names
        \/ n = FallbackName /\ b \in names /\ \A i \in 1 .. MaxTries : Candidate(b, i) \in names
    BY <2>1, DeriveCases
  <2> HIDE DEF n
  <2>7. CASE Normalize(label) = <<>>
    <3>1. Letters(ToLower(label)) = <<>>
      BY <2>5, <2>7, LettersEmpty
    <3>2. n \in Seq(Alphabet)
      <4> HIDE DEF b
      <4>1. \A i \in 1 .. MaxTries : Candidate(b, i) \in Seq(Alphabet)
        BY <2>2, Candidates
      <4> QED
        BY <2>2, <2>6, <4>1, FallbackValid
    <3>3. Letters(n) \in Seq(Characters)
      BY <3>2, AlphabetType, SeqMonotonic, LettersType
    <3> QED
      BY <3>1, <3>3, NothingBegins DEF n
  <2>8. CASE Normalize(label) # <<>>
    <3>1. b = Normalize(label)
      BY <2>8 DEF BaseOf
    <3>2. Letters(b) = Letters(ToLower(label))
      BY <2>5, <3>1
    <3>3. Len(b) + m <= MaxNameLen
      BY <2>1, <2>2, <2>4, <2>5, <3>1
    <3> HIDE DEF b
    <3>4. b \in names => /\ \A i \in 1 .. MaxNames : Candidate(b, i) = Dashed(b, i)
                         /\ \E i \in 1 .. MaxNames : Candidate(b, i) \notin names
      BY <2>2, <3>3, RoomEnough DEF m
    <3>5. n = b \/ \E i \in 1 .. MaxNames : n = Dashed(b, i)
      <4>1. CASE n = b
        BY <4>1
      <4>2. CASE /\ b \in names
                 /\ \E i \in 1 .. MaxTries : /\ n = Candidate(b, i)
                                             /\ \A j \in 1 .. i - 1 : Candidate(b, j) \in names
        <5>1. PICK i \in 1 .. MaxTries : /\ n = Candidate(b, i)
                                         /\ \A j \in 1 .. i - 1 : Candidate(b, j) \in names
          BY <4>2
        <5>2. PICK k \in 1 .. MaxNames : Candidate(b, k) \notin names
          BY <3>4, <4>2
        <5>3. k \notin 1 .. i - 1
          BY <5>1, <5>2
        <5>4. i \in 1 .. MaxNames
          BY <2>3, <5>3
        <5> QED
          BY <3>4, <4>2, <5>1, <5>4
      <4>3. CASE b \in names /\ \A i \in 1 .. MaxTries : Candidate(b, i) \in names
        BY <2>3, <3>4, <4>3
      <4> QED
        BY <2>6, <4>1, <4>2, <4>3
    <3>6. CASE n = b
      <4>1. SubSeq(b, 1, Len(b)) = b /\ Len(b) \in 0 .. Len(b) /\ b \in Seq(Characters)
        <5>1. b \in Seq(Alphabet) /\ Len(b) \in Nat
          BY <2>2
        <5>2. SubSeq(b, 1, Len(b)) = b
          BY <5>1, SubSeqFull
        <5>3. b \in Seq(Characters)
          BY <5>1, Alphabets
        <5> QED
          BY <5>1, <5>2, <5>3
      <4>2. IsPrefix(Letters(SubSeq(b, 1, Len(b))), Letters(b))
        BY <4>1, LettersBegin
      <4> QED
        BY <3>2, <3>6, <4>1, <4>2 DEF n
    <3>7. CASE \E i \in 1 .. MaxNames : n = Dashed(b, i)
      <4>1. PICK i \in 1 .. MaxNames : n = Dashed(b, i)
        BY <3>7
      <4>2. i \in Nat /\ i <= 9999
        BY <2>3
      <4>3. IsPrefix(Letters(b), Letters(n))
        BY <2>2, <4>1, <4>2, DashedLetters
      <4> QED
        BY <3>2, <4>3 DEF n
    <3> QED
      BY <3>5, <3>6, <3>7
  <2> QED
    BY <2>7, <2>8
<1> QED
  BY <1>1, NamesBounded, PTL
=============================================================================

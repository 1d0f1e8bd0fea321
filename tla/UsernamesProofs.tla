--------------------------- MODULE UsernamesProofs ---------------------------
(***************************************************************************)
(* What the derivation of a user name promises, for every set of domain    *)
(* names, every set of reserved and taken names, and every width.          *)
(***************************************************************************)
EXTENDS Usernames, SequenceTheorems, FiniteSetTheorems, WellFoundedInduction, TLAPS

Chars == Alnum \cup {"_"}

\* A set of numbers has a least one.
LEMMA Least ==
    ASSUME NEW T \in SUBSET Nat, T # {}
    PROVE  \E k \in T : \A j \in T : k <= j
<1>1. PICK k \in T : \A j \in T : ~ (<<j, k>> \in OpToRel(<, Nat))
    BY NatLessThanWellFounded, WFMin
<1>2. ASSUME NEW j \in T PROVE k <= j
    <2>1. j \in Nat /\ k \in Nat
        OBVIOUS
    <2>2. <<j, k>> \in Nat \X Nat /\ <<j, k>>[1] = j /\ <<j, k>>[2] = k
        BY <2>1
    <2>3. j < k => <<j, k>> \in OpToRel(<, Nat)
        BY <2>2 DEF OpToRel
    <2>4. ~ (j < k)
        BY <1>1, <2>3
    <2> QED
        BY <2>1, <2>4
<1> QED
    BY <1>2

-----------------------------------------------------------------------------
(* Steps 1 to 4 of derive_username                                         *)

\* What is left of the first i characters of s, by what is left of those before.
OneMore(s, g, i) ==
    IF i = 0 THEN <<>>
    ELSE IF i \in Kept(s)
    THEN Append(g[i - 1], IF s[i] \in Alnum THEN s[i] ELSE "_")
    ELSE g[i - 1]

Reads(s, n, g) == g = [i \in 0..n |-> OneMore(s, g, i)]

\* The recursion of Normalised has a solution.
LEMMA ReadingExists ==
    ASSUME NEW s, NEW n \in Nat
    PROVE  \E g : Reads(s, n, g)
<1> DEFINE T == {m \in Nat : ~ \E g : Reads(s, m, g)}
<1>1. ASSUME T # {} PROVE FALSE
    <2>1. T \in SUBSET Nat
        OBVIOUS
    <2>2. PICK m \in T : \A j \in T : m <= j
        <3> HIDE DEF T
        <3> QED
            BY <1>1, <2>1, Least
    <2>3. m \in Nat /\ ~ \E g : Reads(s, m, g)
        OBVIOUS
    <2>4. CASE m = 0
        <3> DEFINE g == [i \in 0..0 |-> <<>>]
        <3>1. g = [i \in 0..0 |-> OneMore(s, g, i)]
            BY DEF OneMore
        <3>2. Reads(s, 0, g)
            BY <3>1 DEF Reads
        <3> QED
            BY <2>3, <2>4, <3>2
    <2>5. CASE m # 0
        <3>1. m - 1 \in Nat /\ ~ (m <= m - 1)
            BY <2>3, <2>5
        <3>2. PICK g : Reads(s, m - 1, g)
            BY <2>2, <3>1
        <3>3. \A i \in 0..m - 1 : g[i] = OneMore(s, g, i)
            BY <3>2 DEF Reads
        <3> DEFINE h == [i \in 0..m |-> IF i < m THEN g[i] ELSE OneMore(s, g, m)]
        <3>4. ASSUME NEW i \in 0..m PROVE h[i] = OneMore(s, h, i)
            <4>1. i # 0 => i - 1 \in 0..m /\ i - 1 < m
                BY <2>3
            <4>2. i # 0 => h[i - 1] = g[i - 1]
                BY <4>1
            <4>3. OneMore(s, h, i) = OneMore(s, g, i)
                <5> HIDE DEF h
                <5> QED
                    BY <4>2 DEF OneMore
            <4>4. CASE i < m
                BY <2>3, <3>3, <4>3, <4>4
            <4>5. CASE i = m
                BY <2>3, <4>3, <4>5
            <4> QED
                BY <2>3, <4>4, <4>5
        <3>5. h = [i \in 0..m |-> h[i]]
            OBVIOUS
        <3> HIDE DEF h
        <3>6. Reads(s, m, h)
            BY <3>4, <3>5 DEF Reads
        <3> QED
            BY <2>3, <3>6
    <2> QED
        BY <2>4, <2>5
<1> QED
    BY <1>1

\* Only letters, digits and underscores are left.
LEMMA ReadingType ==
    ASSUME NEW s, NEW n \in Nat, NEW g, Reads(s, n, g), NEW k \in 0..n
    PROVE  g[k] \in Seq(Chars)
<1> DEFINE T == {m \in 0..n : g[m] \notin Seq(Chars)}
<1>0. \A i \in 0..n : g[i] = OneMore(s, g, i)
    BY DEF Reads
<1>1. ASSUME T # {} PROVE FALSE
    <2>1. T \in SUBSET Nat
        OBVIOUS
    <2>2. PICK m \in T : \A j \in T : m <= j
        <3> HIDE DEF T
        <3> QED
            BY <1>1, <2>1, Least
    <2>3. m \in 0..n /\ g[m] \notin Seq(Chars) /\ g[m] = OneMore(s, g, m)
        BY <1>0
    <2>4. m # 0
        BY <2>3, EmptySeq DEF OneMore
    <2>5. m - 1 \in 0..n /\ ~ (m <= m - 1)
        BY <2>3, <2>4
    <2>6. g[m - 1] \in Seq(Chars)
        BY <2>2, <2>5
    <2>7. (IF s[m] \in Alnum THEN s[m] ELSE "_") \in Chars
        BY DEF Chars
    <2>8. Append(g[m - 1], IF s[m] \in Alnum THEN s[m] ELSE "_") \in Seq(Chars)
        BY <2>6, <2>7, AppendProperties
    <2> QED
        BY <2>3, <2>4, <2>6, <2>8 DEF OneMore
<1> QED
    BY <1>1

LEMMA NormalisedType ==
    ASSUME NEW s \in Seq(STRING)
    PROVE  Normalised(s) \in Seq(Chars)
<1> DEFINE upTo == CHOOSE g : g = [i \in 0..Len(s) |-> OneMore(s, g, i)]
<1>1. Len(s) \in Nat
    BY LenProperties
<1>2. Reads(s, Len(s), upTo)
    BY <1>1, ReadingExists DEF Reads
<1>3. Normalised(s) = upTo[Len(s)]
    BY DEF Normalised, OneMore
<1> HIDE DEF upTo
<1>4. Len(s) \in 0..Len(s)
    BY <1>1
<1> QED
    BY <1>1, <1>2, <1>3, <1>4, ReadingType

-----------------------------------------------------------------------------
(* Steps 5 to 7, and the suffixes                                          *)

\* A user name without regard to its length and to who has it.
Proper(t) == t \in Seq(Chars) /\ Len(t) >= 1 /\ t[1] \in Letters

LEMMA LetterChars == Letters \subseteq Alnum /\ Alnum \subseteq Chars /\ "_" \notin Letters
BY DEF Letters, Alnum, Chars

LEMMA ConcatElements ==
    ASSUME NEW S, NEW s \in Seq(S), NEW t \in Seq(S)
    PROVE  /\ s \o t \in Seq(S) /\ Len(s \o t) = Len(s) + Len(t)
           /\ Len(s) >= 1 => (s \o t)[1] = s[1]
<1>1. Len(s) \in Nat /\ Len(t) \in Nat
    BY LenProperties
<1>2. \A i \in 1 .. Len(s) + Len(t) :
        (s \o t)[i] = IF i <= Len(s) THEN s[i] ELSE t[i - Len(s)]
    BY ConcatProperties
<1>3. Len(s) >= 1 => (s \o t)[1] = s[1]
    BY <1>1, <1>2
<1> QED
    BY <1>3, ConcatProperties

LEMMA WithLetterProper ==
    ASSUME NEW t \in Seq(Chars)
    PROVE  Proper(WithLetter(t))
<1>1. Len(t) \in Nat /\ (t # <<>> => Len(t) >= 1)
    BY LenProperties, EmptySeq
<1>2. CASE t = <<>> \/ t[1] \notin Letters
    <2>1. <<"w">> \in Seq(Chars) /\ Len(<<"w">>) = 1 /\ <<"w">>[1] = "w" /\ "w" \in Letters
        <3>1. "w" \in Letters
            BY DEF Letters
        <3>2. "w" \in Chars
            BY <3>1, LetterChars
        <3>3. <<"w">> \in Seq(Chars)
            BY <3>2
        <3> QED
            BY <3>1, <3>3
    <2>2. /\ <<"w">> \o t \in Seq(Chars) /\ Len(<<"w">> \o t) = 1 + Len(t)
          /\ (<<"w">> \o t)[1] = "w"
        BY <2>1, ConcatElements
    <2>3. WithLetter(t) = <<"w">> \o t
        BY <1>2 DEF WithLetter
    <2> QED
        BY <1>1, <2>1, <2>2, <2>3 DEF Proper
<1>3. CASE ~(t = <<>> \/ t[1] \notin Letters)
    <2>1. WithLetter(t) = t
        BY <1>3 DEF WithLetter
    <2> QED
        BY <1>1, <1>3, <2>1 DEF Proper
<1> QED
    BY <1>2, <1>3

\* Cutting leaves the letter in front.
LEMMA ChopProper ==
    ASSUME NEW t, Proper(t), NEW n \in Nat, n >= 1
    PROVE  Proper(Chop(t, n)) /\ Len(Chop(t, n)) <= n
<1> DEFINE m == IF Len(t) < n THEN Len(t) ELSE n
<1>1. t \in Seq(Chars) /\ Len(t) \in Nat /\ Len(t) >= 1
    BY LenProperties DEF Proper
<1>2. m \in Nat /\ m >= 1 /\ m <= Len(t) /\ m <= n
    BY <1>1
<1>3. Chop(t, n) = SubSeq(t, 1, m)
    BY DEF Chop
<1> HIDE DEF m
<1>4. \A i \in 1..m : t[i] \in Chars
    BY <1>1, <1>2, ElementOfSeq
<1>5. /\ SubSeq(t, 1, m) \in Seq(Chars)
      /\ Len(SubSeq(t, 1, m)) = IF 1 <= m THEN m - 1 + 1 ELSE 0
      /\ \A i \in 1 .. m - 1 + 1 : SubSeq(t, 1, m)[i] = t[1 + i - 1]
    BY <1>2, <1>4, SubSeqProperties
<1>6. Len(SubSeq(t, 1, m)) = m /\ SubSeq(t, 1, m)[1] = t[1]
    BY <1>2, <1>5
<1> QED
    BY <1>2, <1>3, <1>5, <1>6 DEF Proper

\* So does taking off an underscore at the end.
LEMMA RStripProper ==
    ASSUME NEW t, Proper(t)
    PROVE  Proper(RStrip(t)) /\ Len(RStrip(t)) <= Len(t)
<1>1. t \in Seq(Chars) /\ Len(t) \in Nat /\ Len(t) >= 1 /\ t[1] \in Letters
    BY LenProperties DEF Proper
<1>2. CASE t[Len(t)] = "_"
    <2>1. Len(t) # 1
        BY <1>1, <1>2, LetterChars
    <2>2. Len(t) - 1 \in Nat /\ Len(t) - 1 >= 1
        <3>1. \A n \in Nat : n >= 1 /\ n # 1 => n - 1 \in Nat /\ n - 1 >= 1
            OBVIOUS
        <3> QED
            BY <1>1, <2>1, <3>1
    <2>3. Proper(Chop(t, Len(t) - 1)) /\ Len(Chop(t, Len(t) - 1)) <= Len(t) - 1
        BY <2>2, ChopProper
    <2>4. Chop(t, Len(t) - 1) = SubSeq(t, 1, Len(t) - 1)
        BY <1>1 DEF Chop
    <2>5. t # <<>>
        BY <1>1, EmptySeq
    <2>6. RStrip(t) = SubSeq(t, 1, Len(t) - 1)
        BY <1>2, <2>5 DEF RStrip
    <2>7. Len(SubSeq(t, 1, Len(t) - 1)) \in Nat
        BY <2>3, <2>4, LenProperties DEF Proper
    <2>8. \A n, m \in Nat : m <= n - 1 => m <= n
        OBVIOUS
    <2>9. Len(SubSeq(t, 1, Len(t) - 1)) <= Len(t)
        BY <1>1, <2>3, <2>4, <2>7, <2>8
    <2> QED
        BY <2>3, <2>4, <2>6, <2>9
<1>3. CASE t[Len(t)] # "_"
    <2>1. RStrip(t) = t
        BY <1>3 DEF RStrip
    <2> QED
        BY <1>1, <2>1
<1> QED
    BY <1>2, <1>3

LEMMA Widths == /\ SuffixLen = 2 /\ BaseMax \in Nat /\ BaseMax >= 3 /\ LinuxMax = BaseMax + 2
                /\ BaseMax - SuffixLen \in Nat /\ BaseMax - SuffixLen >= 1
                /\ Slots \in 1..9
BY WidthAssumption DEF SuffixLen

LEMMA DerivedProper ==
    ASSUME NEW d \in Domains
    PROVE  Proper(derive_username(d)) /\ Len(derive_username(d)) <= BaseMax
<1> DEFINE t == WithLetter(Normalised(d))
<1>1. Proper(t)
    BY DomainAssumption, NormalisedType, WithLetterProper
<1> HIDE DEF t
<1>2. Proper(Chop(t, BaseMax)) /\ Len(Chop(t, BaseMax)) <= BaseMax
    BY <1>1, Widths, ChopProper
<1>3. Proper(RStrip(Chop(t, BaseMax))) /\ Len(RStrip(Chop(t, BaseMax))) <= Len(Chop(t, BaseMax))
    BY <1>2, RStripProper
<1>4. Len(RStrip(Chop(t, BaseMax))) \in Nat /\ Len(Chop(t, BaseMax)) \in Nat
    BY <1>2, <1>3, LenProperties DEF Proper
<1>5. Len(RStrip(Chop(t, BaseMax))) <= BaseMax
    BY <1>2, <1>3, <1>4, Widths
<1> QED
    BY <1>3, <1>5 DEF derive_username, t

\* A suffixed name ends in the digit of its suffix.
LEMMA SuffixedProper ==
    ASSUME NEW base, Proper(base), NEW k \in 1..Slots
    PROVE  /\ Proper(Suffixed(base, k)) /\ Len(Suffixed(base, k)) <= LinuxMax
           /\ Suffixed(base, k)[Len(Suffixed(base, k))] = Digits[k]
<1> DEFINE n == BaseMax - SuffixLen
           t == RStrip(Chop(base, n))
           u == Suffix(k)
<1>1. n \in Nat /\ n >= 1 /\ n <= BaseMax
    BY Widths
<1>2. Proper(t) /\ Len(t) <= n
    <2> HIDE DEF n
    <2>1. Proper(Chop(base, n)) /\ Len(Chop(base, n)) <= n
        BY <1>1, ChopProper
    <2>2. Proper(RStrip(Chop(base, n))) /\ Len(RStrip(Chop(base, n))) <= Len(Chop(base, n))
        BY <2>1, RStripProper
    <2>3. Len(RStrip(Chop(base, n))) \in Nat /\ Len(Chop(base, n)) \in Nat
        BY <2>1, <2>2, LenProperties DEF Proper
    <2> QED
        BY <1>1, <2>1, <2>2, <2>3
<1>3. /\ u \in Seq(Chars) /\ Len(u) = 2 /\ u[2] = Digits[k]
    <2>1. k \in 1..9
        BY Widths
    <2>2. Digits[k] \in Chars /\ "_" \in Chars
        <3>1. k \in DOMAIN Digits
            BY <2>1 DEF Digits
        <3> QED
            BY <3>1 DEF Alnum, Chars
    <2>3. \A x, y \in Chars : <<x, y>> \in Seq(Chars) /\ Len(<<x, y>>) = 2 /\ <<x, y>>[2] = y
        OBVIOUS
    <2>4. u = <<"_", Digits[k]>>
        BY DEF Suffix
    <2> QED
        BY <2>2, <2>3, <2>4
<1>4. Suffixed(base, k) = t \o u
    BY DEF Suffixed
<1> HIDE DEF n, t, u
<1>5. t \in Seq(Chars) /\ Len(t) \in Nat /\ Len(t) >= 1 /\ t[1] \in Letters
    BY <1>2, LenProperties DEF Proper
<1>6. t \o u \in Seq(Chars) /\ Len(t \o u) = Len(t) + 2 /\ (t \o u)[1] = t[1]
    <2>1. t \o u \in Seq(Chars) /\ Len(t \o u) = Len(t) + Len(u) /\ (t \o u)[1] = t[1]
        <3>1. \A x, y \in Seq(Chars) :
                /\ x \o y \in Seq(Chars) /\ Len(x \o y) = Len(x) + Len(y)
                /\ Len(x) >= 1 => (x \o y)[1] = x[1]
            BY ConcatElements
        <3> QED
            BY <1>3, <1>5, <3>1
    <2> QED
        BY <1>3, <2>1
<1>7. (t \o u)[Len(t) + 2] = u[2]
    <2>1. \A i \in 1 .. Len(t) + Len(u) :
            (t \o u)[i] = IF i <= Len(t) THEN t[i] ELSE u[i - Len(t)]
        BY <1>3, <1>5, ConcatProperties
    <2>2. Len(t) + 2 \in 1 .. Len(t) + Len(u) /\ ~(Len(t) + 2 <= Len(t)) /\ Len(t) + 2 - Len(t) = 2
        BY <1>3, <1>5
    <2> QED
        BY <2>1, <2>2
<1>8. Len(t) + 2 <= LinuxMax /\ Len(t) + 2 >= 1
    BY <1>1, <1>2, <1>5, Widths
<1> QED
    BY <1>3, <1>4, <1>5, <1>6, <1>7, <1>8 DEF Proper

-----------------------------------------------------------------------------
(* The candidates, and the one that is chosen                              *)

LEMMA CandidateProper ==
    ASSUME NEW d \in Domains, NEW k \in 0..Slots
    PROVE  Proper(Candidate(d, k)) /\ Len(Candidate(d, k)) <= LinuxMax
<1>1. Proper(derive_username(d)) /\ Len(derive_username(d)) <= BaseMax
    BY DerivedProper
<1>2. CASE k = 0
    <2>1. Candidate(d, k) = derive_username(d)
        BY <1>2 DEF Candidate
    <2>2. Len(derive_username(d)) \in Nat
        BY <1>1, LenProperties DEF Proper
    <2>3. Len(derive_username(d)) <= LinuxMax
        BY <1>1, <2>2, Widths
    <2> QED
        BY <1>1, <2>1, <2>3
<1>3. CASE k # 0
    <2>1. k \in 1..Slots
        BY <1>3, Widths
    <2>2. Candidate(d, k) = Suffixed(derive_username(d), k)
        BY <1>3 DEF Candidate
    <2> QED
        BY <1>1, <2>1, <2>2, SuffixedProper
<1> QED
    BY <1>2, <1>3

LEMMA ProperAccepted ==
    ASSUME NEW t, Proper(t), Len(t) <= LinuxMax, t \notin Reserved
    PROVE  Accepted(t)
<1>1. t \in Seq(Chars) /\ Len(t) \in Nat /\ DOMAIN t = 1..Len(t) /\ Len(t) >= 1
    BY LenProperties DEF Proper
<1>2. Len(t) \in 1..LinuxMax
    BY <1>1, Widths
<1>3. \A i \in DOMAIN t : t[i] \in Alnum \cup {"_"}
    BY <1>1, ElementOfSeq DEF Chars
<1> QED
    BY <1>2, <1>3 DEF Accepted, Proper

\* generate_unique_username returns a free candidate if there is one.
LEMMA Generated ==
    ASSUME NEW d \in Domains, NEW existing
    PROVE  LET n == generate_unique_username(d, existing) IN
           \/ /\ n = NoName
              /\ \A k \in 0..Slots : Candidate(d, k) \in Reserved \cup existing
           \/ /\ n \notin Reserved \cup existing
              /\ \E k \in 0..Slots : n = Candidate(d, k)
<1> DEFINE n == generate_unique_username(d, existing)
           F == {k \in 0..Slots : Candidate(d, k) \notin Reserved \cup existing}
<1>1. n = IF F = {} THEN NoName ELSE Candidate(d, CHOOSE k \in F : \A j \in F : k <= j)
    BY DEF generate_unique_username
<1>2. CASE F = {}
    BY <1>1, <1>2
<1>3. CASE F # {}
    <2>1. F \in SUBSET Nat
        BY Widths
    <2>2. \E k \in F : \A j \in F : k <= j
        <3> HIDE DEF F
        <3> QED
            BY <1>3, <2>1, Least
    <2>3. PICK k \in F : n = Candidate(d, k)
        <3> HIDE DEF F, n
        <3>1. (CHOOSE k \in F : \A j \in F : k <= j) \in F
            BY <2>2
        <3> QED
            BY <1>1, <1>3, <3>1
    <2> QED
        BY <2>3
<1> QED
    BY <1>2, <1>3

\* The suffixed candidates of a domain are as many as there are suffixes.
LEMMA SuffixedDiffer ==
    ASSUME NEW d \in Domains
    PROVE  /\ IsFiniteSet({Candidate(d, k) : k \in 0..Slots})
           /\ Cardinality({Candidate(d, k) : k \in 1..Slots}) = Slots
<1> DEFINE base == derive_username(d)
           S == {Candidate(d, k) : k \in 1..Slots}
           f == [k \in 1..Slots |-> Candidate(d, k)]
           T == {Candidate(d, k) : k \in 0..Slots}
           g == [k \in 0..Slots |-> Candidate(d, k)]
<1>1. Slots \in Nat
    BY Widths
<1>2. IsFiniteSet(0..Slots) /\ IsFiniteSet(1..Slots) /\ Cardinality(1..Slots) = Slots
    BY <1>1, FS_Interval
<1>3. ASSUME NEW j \in 1..Slots, NEW k \in 1..Slots, Candidate(d, j) = Candidate(d, k)
      PROVE  j = k
    <2>1. Candidate(d, j) = Suffixed(base, j) /\ Candidate(d, k) = Suffixed(base, k)
        BY <1>1 DEF Candidate
    <2>2. Digits[j] = Digits[k]
        <3>1. Proper(base)
            BY DerivedProper
        <3>2. Suffixed(base, j)[Len(Suffixed(base, j))] = Digits[j]
            BY <3>1, SuffixedProper
        <3>3. Suffixed(base, k)[Len(Suffixed(base, k))] = Digits[k]
            BY <3>1, SuffixedProper
        <3>4. Suffixed(base, j) = Suffixed(base, k)
            BY <1>3, <2>1
        <3> QED
            BY <3>2, <3>3, <3>4, Zenon
    <2>3. j \in 1..9 /\ k \in 1..9
        BY Widths
    <2> QED
        BY <2>2, <2>3 DEF Digits
<1>4. f \in Surjection(1..Slots, S) /\ f \in Injection(1..Slots, S)
    BY <1>3 DEF Surjection, Injection, IsInjective
<1>5. g \in Surjection(0..Slots, T)
    BY DEF Surjection
<1> HIDE DEF f, g, S, T
<1>6. Cardinality(S) = Slots
    BY <1>2, <1>4, FS_Surjection
<1>7. IsFiniteSet(T)
    BY <1>2, <1>5, FS_Surjection
<1> QED
    BY <1>6, <1>7 DEF S, T

LEMMA AlwaysAccepted == GeneratedIsAccepted
<1> SUFFICES ASSUME NEW d \in Domains, generate_unique_username(d, Taken) # NoName
             PROVE  Accepted(generate_unique_username(d, Taken))
    BY DEF GeneratedIsAccepted
<1>1. PICK k \in 0..Slots :
        /\ generate_unique_username(d, Taken) = Candidate(d, k)
        /\ Candidate(d, k) \notin Reserved
    BY Generated
<1> QED
    BY <1>1, CandidateProper, ProperAccepted

LEMMA NeverTurnedAwayEarly == TurnedAwayOnlyWhenFull
<1> SUFFICES ASSUME NEW d \in Domains, generate_unique_username(d, Taken) = NoName
             PROVE  Cardinality({Candidate(d, k) : k \in 0..Slots} \cap (Taken \cup Reserved)) >= Slots
    BY DEF TurnedAwayOnlyWhenFull
<1> DEFINE S == {Candidate(d, k) : k \in 0..Slots}
           R == {Candidate(d, k) : k \in 1..Slots}
<1>1. \A k \in 0..Slots : Candidate(d, k) # NoName
    <2>1. \A t : Proper(t) => t # <<>>
        BY EmptySeq DEF Proper
    <2> QED
        BY <2>1, CandidateProper DEF NoName
<1>2. \A k \in 0..Slots : Candidate(d, k) \in Taken \cup Reserved
    BY <1>1, Generated
<1>3. S \cap (Taken \cup Reserved) = S /\ R \subseteq S
    BY <1>2, Widths
<1>4. IsFiniteSet(S) /\ Cardinality(R) = Slots
    BY SuffixedDiffer
<1> HIDE DEF S, R
<1>5. Cardinality(R) <= Cardinality(S) /\ Cardinality(S) \in Nat
    BY <1>3, <1>4, FS_Subset, FS_CardinalityType
<1> QED
    BY <1>3, <1>4, <1>5, Widths DEF S

\* Any name that generate_unique_username returns passes validate_linux_username
\* and fits useradd, for all domain names, reserved names and taken names.
THEOREM SpecGeneratedIsAccepted == Spec => []GeneratedIsAccepted
BY AlwaysAccepted, PTL

\* However domains come and go, one is turned away for want of a name only when
\* as many of its candidates as there are suffixes are taken or reserved.
THEOREM SpecTurnedAwayOnlyWhenFull == Spec => []TurnedAwayOnlyWhenFull
BY NeverTurnedAwayEarly, PTL

=============================================================================

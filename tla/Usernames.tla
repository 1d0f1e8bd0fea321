------------------------------ MODULE Usernames ------------------------------
(***************************************************************************)
(* How a domain gets its Linux user name (backend/app/utils/username.py),  *)
(* and the names the domains table holds as domains come and go.           *)
(*                                                                         *)
(* A text is a sequence of characters.  The widths are constants: the code *)
(* has LinuxMax = 32, BaseMax = 28, a suffix of an underscore and three    *)
(* digits, and Slots = 999.                                                *)
(***************************************************************************)
EXTENDS Naturals, Sequences, FiniteSets

CONSTANTS
    Domains,    \* domain names, lowercase, as validate_domain lets them through
    Reserved,   \* RESERVED_SYSTEM_USERS
    LinuxMax,   \* _LINUX_MAX
    BaseMax,    \* _BASE_MAX
    Slots       \* collision suffixes

\* The suffix is an underscore and one digit here.
SuffixLen == 2

ASSUME DomainAssumption == \A d \in Domains : d \in Seq(STRING)
ASSUME WidthAssumption ==
    /\ Slots \in 1..9
    /\ LinuxMax \in Nat /\ BaseMax = LinuxMax - SuffixLen /\ BaseMax > SuffixLen

VARIABLE names  \* domain -> linux_username, on the domains in the table

-----------------------------------------------------------------------------
Letters == {"a", "b", "c", "w"}
Digits == <<"1", "2", "3", "4", "5", "6", "7", "8", "9">>
Alnum == Letters \cup {Digits[k] : k \in DOMAIN Digits}

Chop(s, n) == SubSeq(s, 1, IF Len(s) < n THEN Len(s) ELSE n)

\* rstrip("_") of a text without two underscores in a row.
RStrip(s) == IF s # <<>> /\ s[Len(s)] = "_" THEN SubSeq(s, 1, Len(s) - 1) ELSE s

\* Of every run of other characters the first one stays, as an underscore; a
\* run at either end goes.
Kept(s) ==
    {i \in DOMAIN s :
        \/ s[i] \in Alnum
        \/ i > 1 /\ s[i - 1] \in Alnum /\ \E j \in i..Len(s) : s[j] \in Alnum}

Normalised(s) ==
    LET upTo[i \in 0..Len(s)] ==
            IF i = 0 THEN <<>>
            ELSE IF i \in Kept(s)
            THEN Append(upTo[i - 1], IF s[i] \in Alnum THEN s[i] ELSE "_")
            ELSE upTo[i - 1]
    IN  upTo[Len(s)]

\* Mutant: a leading digit stays.
WithLetterAsIs(s) == s

WithLetter(s) == IF s = <<>> \/ s[1] \notin Letters THEN <<"w">> \o s ELSE s

derive_username(d) == RStrip(Chop(WithLetter(Normalised(d)), BaseMax))

Suffix(k) == <<"_", Digits[k]>>

\* Mutant: truncated after the suffix is appended.
SuffixedCutLast(base, k) == Chop(base \o Suffix(k), BaseMax)

\* The base without the places of the suffix; replace("__", "_") can only
\* find a pair where the two meet.
Suffixed(base, k) == RStrip(Chop(base, BaseMax - SuffixLen)) \o Suffix(k)

\* What generate_unique_username tries, in this order.
Candidate(d, k) ==
    IF k = 0 THEN derive_username(d) ELSE Suffixed(derive_username(d), k)

NoName == <<>>

generate_unique_username(d, existing) ==
    LET free == {k \in 0..Slots : Candidate(d, k) \notin Reserved \cup existing}
    IN  IF free = {} THEN NoName
        ELSE Candidate(d, CHOOSE k \in free : \A j \in free : k <= j)

\* validate_linux_username
Accepted(n) ==
    /\ Len(n) \in 1..LinuxMax
    /\ n[1] \in Letters
    /\ \A i \in DOMAIN n : n[i] \in Alnum \cup {"_"}
    /\ n \notin Reserved

-----------------------------------------------------------------------------
Taken == {names[d] : d \in DOMAIN names}

Init == names = [d \in {} |-> NoName]

Create(d) ==
    LET n == generate_unique_username(d, Taken) IN
    /\ d \notin DOMAIN names
    /\ n # NoName /\ Accepted(n)
    /\ names' = [e \in DOMAIN names \cup {d} |-> IF e = d THEN n ELSE names[e]]

Delete(d) ==
    /\ d \in DOMAIN names
    /\ names' = [e \in DOMAIN names \ {d} |-> names[e]]

Next == \E d \in Domains : Create(d) \/ Delete(d)

Spec == Init /\ [][Next]_names

-----------------------------------------------------------------------------
\* Whatever names are taken, one that generate_unique_username returns passes
\* the checks that follow it and fits useradd: the later truncations keep the
\* letter in front and leave nothing too long (create_domain, step 4).
GeneratedIsAccepted ==
    \A d \in Domains :
        LET n == generate_unique_username(d, Taken) IN n # NoName => Accepted(n)

\* A domain is turned away for want of a name only when at least as many of its
\* candidates as there are suffixes are taken or reserved, however domains came
\* and went: truncation never makes two suffixed candidates one.  (It may make
\* one of them the plain name, when a label ends in such a suffix.)
TurnedAwayOnlyWhenFull ==
    \A d \in Domains :
        generate_unique_username(d, Taken) = NoName =>
            Cardinality({Candidate(d, k) : k \in 0..Slots} \cap (Taken \cup Reserved)) >= Slots

=============================================================================

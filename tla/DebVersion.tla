------------------------------ MODULE DebVersion ------------------------------
(* aptcache/version.go: the order of Debian version strings.  A string is the   *)
(* sequence of its bytes.                                                       *)
EXTENDS Integers, Sequences, FiniteSetsExt

Byte == 0..255
IsDigit(c)  == c \in 48..57
IsLetter(c) == c \in 65..90 \cup 97..122
Colon  == 58
Plus   == 43
Hyphen == 45
Tilde  == 126
Zero   == 48

\* The longest prefix of s whose bytes are all digits, or all not.
SplitDigit(s) ==
    SubSeq(s, 1, Max({n \in 0..Len(s) : \A i \in 1..n : IsDigit(s[i])}))
SplitNonDigit(s) ==
    SubSeq(s, 1, Max({n \in 0..Len(s) : \A i \in 1..n : ~IsDigit(s[i])}))

After(s, prefix) == SubSeq(s, Len(prefix) + 1, Len(s))

CompareInt(a, b) == IF a < b THEN -1 ELSE IF a > b THEN 1 ELSE 0

\* '~' before the end of the string, which is 0 here, then letters, then the rest.
DebCharOrder(c) ==
    CASE c = Tilde   -> c
      [] c = 0       -> 65536
      [] IsLetter(c) -> 2 * 65536 + c
      [] OTHER       -> 3 * 65536 + c

\* The first position at which the bytes of a and b have different order decides.
CompareBytes(a, b, Order(_)) ==
    LET At(s, i) == Order(IF i <= Len(s) THEN s[i] ELSE 0)
        differ   == {i \in 1..Max({Len(a), Len(b)}) : At(a, i) # At(b, i)}
    IN  IF differ = {} THEN 0 ELSE CompareInt(At(a, Min(differ)), At(b, Min(differ)))

CompareNonDigit(a, b) == CompareBytes(a, b, DebCharOrder)

\* Leading zeros do not count; then the longer number is the greater one.
CompareDigit(a, b) ==
    LET Trim(s) == SubSeq(s, 1 + Max({n \in 0..Len(s) : \A i \in 1..n : s[i] = Zero}), Len(s))
        Same(c) == c
        byLength == CompareInt(Len(Trim(a)), Len(Trim(b)))
    IN  IF byLength # 0 THEN byLength ELSE CompareBytes(Trim(a), Trim(b), Same)

\* A chunk without digits, then one of digits, until two differ.
CompareVersionPart[pair \in Seq(Byte) \X Seq(Byte)] ==
    LET a  == pair[1]               b  == pair[2]
        na == SplitNonDigit(a)      nb == SplitNonDigit(b)
        da == SplitDigit(After(a, na))
        db == SplitDigit(After(b, nb))
        ra == After(a, na \o da)    rb == After(b, nb \o db)
    IN  IF CompareNonDigit(na, nb) # 0 THEN CompareNonDigit(na, nb)
        ELSE IF CompareDigit(da, db) # 0 THEN CompareDigit(da, db)
        ELSE IF ra = <<>> /\ rb = <<>> THEN 0
        ELSE CompareVersionPart[<<ra, rb>>]

Decimal(digits) ==
    LET value[n \in 0..Len(digits)] ==
          IF n = 0 THEN 0 ELSE 10 * value[n - 1] + digits[n] - Zero
    IN  value[Len(digits)]

\* strconv.Atoi: a sign may come first, and 64 bits must hold the value.
Signed(s)   == s # <<>> /\ s[1] \in {Plus, Hyphen}
Negative(s) == s # <<>> /\ s[1] = Hyphen
Unsigned(s) == IF Signed(s) THEN Tail(s) ELSE s
Largest(s)  ==   \* 9223372036854775807, and one more below zero
    <<57, 50, 50, 51, 51, 55, 50, 48, 51, 54, 56, 53, 52, 55, 55, 53, 56, 48,
      IF Negative(s) THEN 56 ELSE 55>>
AtMost(digits, limit) ==
    /\ digits # <<>>
    /\ \A i \in DOMAIN digits : IsDigit(digits[i])
    /\ CompareDigit(digits, limit) <= 0
IsNumber(s) == AtMost(Unsigned(s), Largest(s))
Atoi(s) == IF Negative(s) THEN 0 - Decimal(Unsigned(s)) ELSE Decimal(Unsigned(s))

\* An epoch is a number before the first colon, a revision what follows the last
\* hyphen.
SplitRevision(epoch, rest) ==
    LET hyphens == {i \in DOMAIN rest : rest[i] = Hyphen}
    IN  [epoch    |-> epoch,
         upstream |-> IF hyphens = {} THEN rest ELSE SubSeq(rest, 1, Max(hyphens) - 1),
         revision |-> IF hyphens = {} THEN <<>> ELSE SubSeq(rest, Max(hyphens) + 1, Len(rest))]

SplitDebVersion(v) ==
    LET colons == {i \in DOMAIN v : v[i] = Colon}
        number == IF colons = {} THEN <<>> ELSE SubSeq(v, 1, Min(colons) - 1)
    IN  IF IsNumber(number)
        THEN SplitRevision(Atoi(number), SubSeq(v, Min(colons) + 1, Len(v)))
        ELSE SplitRevision(0, v)

CompareDebVersion(a, b) ==
    LET x == SplitDebVersion(a)   y == SplitDebVersion(b)
        epochs    == CompareInt(x.epoch, y.epoch)
        upstreams == CompareVersionPart[<<x.upstream, y.upstream>>]
    IN  IF a = b THEN 0
        ELSE IF a = <<>> THEN -1 ELSE IF b = <<>> THEN 1
        ELSE IF epochs # 0 THEN epochs
        ELSE IF upstreams # 0 THEN upstreams
        ELSE CompareVersionPart[<<x.revision, y.revision>>]
================================================================================

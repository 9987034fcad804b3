-------------------------- MODULE LogShipperProofs --------------------------
(***************************************************************************)
(* LogShipper for any number of lines, any levels and any size of the      *)
(* buffer: no line shipped twice or out of order, every line accounted     *)
(* for, and only the oldest given up.                                      *)
(***************************************************************************)
EXTENDS LogShipper, SequenceTheorems, TLAPS

\* Later ones are greater.
Rising(s) == \A i, j \in DOMAIN s : i < j => s[i] < s[j]

\* Every line of s is older than every line of t.
Below(s, t) == \A x \in Elems(s), y \in Elems(t) : x < y

\* No line is in both.
Apart(s, t) == \A x \in Elems(s), y \in Elems(t) : x # y

\* As ShippedInOrder, with an account d of the lines that were given up.
Sorted(s, d) ==
  \A i, j \in DOMAIN s : i < j =>
    /\ s[i] # s[j]
    /\ s[i] \in d \/ s[j] \in d \/ s[i] < s[j]

Before(s, t, d) ==
  \A x \in Elems(s), y \in Elems(t) : x # y /\ (x \in d \/ y \in d \/ x < y)

OrderInv ==
  /\ Rising(buffer) /\ Rising(flight) /\ Below(flight, buffer)
  /\ Sorted(received, delayed)
  /\ Before(received, flight, delayed) /\ Before(received, buffer, delayed)

LateInv ==
  /\ Rising(late) /\ Elems(late) \subseteq delayed
  /\ Apart(received, late) /\ Apart(flight, late) /\ Apart(buffer, late)

Accounted ==
  1..lines = Elems(received) \cup Elems(flight) \cup Elems(buffer) \cup Elems(late)
               \cup withheld \cup overflowed \cup lost

LogInv == LTypeOK /\ OrderInv /\ LateInv /\ Accounted /\ OverflowDropsOldest

-----------------------------------------------------------------------------
(* Sequences of lines.                                                     *)

LEMMA ElemsOf ==
  ASSUME NEW s \in Seq(Lines)
  PROVE  /\ Elems(s) \subseteq Lines /\ DOMAIN s = 1..Len(s) /\ Len(s) \in Nat
         /\ \A i \in DOMAIN s : s[i] \in Elems(s)
  BY ElementOfSeq, LenProperties DEF Elems

LEMMA ElemsOfNone ==
  Elems(<< >>) = {} /\ << >> \in Seq(Lines) /\ Rising(<< >>) /\ Len(<< >>) = 0
  BY EmptySeq DEF Elems, Rising

LEMMA ElemsOfConcat ==
  ASSUME NEW s \in Seq(Lines), NEW t \in Seq(Lines)
  PROVE  /\ s \o t \in Seq(Lines)
         /\ Elems(s \o t) = Elems(s) \cup Elems(t)
<1> DEFINE r == s \o t
<1>1. /\ r \in Seq(Lines) /\ Len(r) = Len(s) + Len(t)
      /\ \A i \in 1 .. Len(s) + Len(t) : r[i] = IF i <= Len(s) THEN s[i] ELSE t[i - Len(s)]
  BY ConcatProperties
<1>2. /\ DOMAIN r = 1..Len(r) /\ DOMAIN s = 1..Len(s) /\ DOMAIN t = 1..Len(t)
      /\ Len(s) \in Nat /\ Len(t) \in Nat
  BY <1>1, LenProperties
<1> HIDE DEF r
<1>3. Elems(r) \subseteq Elems(s) \cup Elems(t)
  <2> SUFFICES ASSUME NEW i \in DOMAIN r PROVE r[i] \in Elems(s) \cup Elems(t)
    BY DEF Elems
  <2>1. CASE i <= Len(s)
    BY <1>1, <1>2, <2>1 DEF Elems
  <2>2. CASE i > Len(s)
    <3>1. i - Len(s) \in DOMAIN t /\ r[i] = t[i - Len(s)]
      BY <1>1, <1>2, <2>2
    <3> QED
      BY <3>1 DEF Elems
  <2> QED
    BY <1>2, <2>1, <2>2
<1>4. Elems(s) \subseteq Elems(r)
  <2> SUFFICES ASSUME NEW i \in DOMAIN s PROVE s[i] \in Elems(r)
    BY DEF Elems
  <2>1. i \in DOMAIN r /\ r[i] = s[i]
    BY <1>1, <1>2
  <2> QED
    BY <2>1 DEF Elems
<1>5. Elems(t) \subseteq Elems(r)
  <2> SUFFICES ASSUME NEW i \in DOMAIN t PROVE t[i] \in Elems(r)
    BY DEF Elems
  <2>1. i + Len(s) \in DOMAIN r /\ r[i + Len(s)] = t[i]
    BY <1>1, <1>2
  <2> QED
    BY <2>1 DEF Elems
<1> QED
  BY <1>1, <1>3, <1>4, <1>5 DEF r

\* Two ordered parts, one before the other.
LEMMA SortedConcat ==
  ASSUME NEW s \in Seq(Lines), NEW t \in Seq(Lines), NEW d,
         Sorted(s, d), Sorted(t, d), Before(s, t, d)
  PROVE  Sorted(s \o t, d)
<1> DEFINE r == s \o t
<1>1. /\ r \in Seq(Lines) /\ Len(r) = Len(s) + Len(t)
      /\ \A i \in 1 .. Len(s) + Len(t) : r[i] = IF i <= Len(s) THEN s[i] ELSE t[i - Len(s)]
  BY ConcatProperties
<1>2. /\ DOMAIN r = 1..Len(r) /\ DOMAIN s = 1..Len(s) /\ DOMAIN t = 1..Len(t)
      /\ Len(s) \in Nat /\ Len(t) \in Nat
  BY <1>1, LenProperties
<1> HIDE DEF r
<1> SUFFICES ASSUME NEW i \in DOMAIN r, NEW j \in DOMAIN r, i < j
             PROVE  r[i] # r[j] /\ (r[i] \in d \/ r[j] \in d \/ r[i] < r[j])
  BY DEF Sorted, r
<1>3. CASE j <= Len(s)
  <2>1. i \in DOMAIN s /\ j \in DOMAIN s /\ r[i] = s[i] /\ r[j] = s[j]
    BY <1>1, <1>2, <1>3
  <2> QED
    BY <2>1 DEF Sorted
<1>4. CASE i > Len(s)
  <2>1. /\ i - Len(s) \in DOMAIN t /\ j - Len(s) \in DOMAIN t /\ i - Len(s) < j - Len(s)
        /\ r[i] = t[i - Len(s)] /\ r[j] = t[j - Len(s)]
    BY <1>1, <1>2, <1>4
  <2> QED
    BY <2>1 DEF Sorted
<1>5. CASE i <= Len(s) /\ j > Len(s)
  <2>1. i \in DOMAIN s /\ j - Len(s) \in DOMAIN t /\ r[i] = s[i] /\ r[j] = t[j - Len(s)]
    BY <1>1, <1>2, <1>5
  <2>2. r[i] \in Elems(s) /\ r[j] \in Elems(t)
    BY <2>1 DEF Elems
  <2> QED
    BY <2>2 DEF Before
<1> QED
  BY <1>2, <1>3, <1>4, <1>5

\* A rising sequence is sorted, whatever was given up.
LEMMA RisingIsSorted ==
  ASSUME NEW s \in Seq(Lines), Rising(s), NEW d
  PROVE  Sorted(s, d)
  BY ElemsOf DEF Rising, Sorted, Lines, LogAssumption

\* A newer line at the end.
LEMMA RisingAppend ==
  ASSUME NEW s \in Seq(Lines), NEW n \in Lines, Rising(s), \A x \in Elems(s) : x < n
  PROVE  /\ Append(s, n) \in Seq(Lines) /\ Len(Append(s, n)) = Len(s) + 1
         /\ Elems(Append(s, n)) = Elems(s) \cup {n}
         /\ Rising(Append(s, n))
<1> DEFINE r == Append(s, n)
<1>1. /\ r \in Seq(Lines) /\ Len(r) = Len(s) + 1
      /\ \A i \in 1.. Len(s) : r[i] = s[i]
      /\ r[Len(s) + 1] = n
  BY AppendProperties
<1>2. DOMAIN r = 1..Len(s) + 1 /\ DOMAIN s = 1..Len(s) /\ Len(s) \in Nat
  BY <1>1, LenProperties
<1> HIDE DEF r
<1>3. Elems(r) = Elems(s) \cup {n}
  <2>1. \A i \in DOMAIN r : i \in DOMAIN s \/ i = Len(s) + 1
    BY <1>2
  <2>2. Len(s) + 1 \in DOMAIN r /\ \A i \in DOMAIN s : i \in DOMAIN r
    BY <1>2
  <2> QED
    BY <1>1, <1>2, <2>1, <2>2 DEF Elems
<1>4. Rising(r)
  <2> SUFFICES ASSUME NEW i \in DOMAIN r, NEW j \in DOMAIN r, i < j PROVE r[i] < r[j]
    BY DEF Rising
  <2>1. i \in DOMAIN s /\ r[i] = s[i] /\ s[i] \in Elems(s)
    BY <1>1, <1>2 DEF Elems
  <2>2. CASE j = Len(s) + 1
    BY <1>1, <2>1, <2>2
  <2>3. CASE j \in DOMAIN s
    BY <1>1, <1>2, <2>1, <2>3 DEF Rising
  <2> QED
    BY <1>2, <2>2, <2>3
<1> QED
  BY <1>1, <1>3, <1>4 DEF r

\* What is kept of the full buffer is its newest part.
LEMMA KeepNewest ==
  ASSUME NEW b \in Seq(Lines), Len(b) <= Cap + 1, Rising(b)
  PROVE  /\ Keep(b) \in Seq(Lines) /\ Len(Keep(b)) <= Cap
         /\ Rising(Keep(b))
         /\ Elems(Keep(b)) \subseteq Elems(b)
         /\ \A x \in Elems(b) \ Elems(Keep(b)), y \in Elems(Keep(b)) : x < y
<1>0. Cap \in Nat \ {0} /\ Len(b) \in Nat /\ DOMAIN b = 1..Len(b)
  BY LogAssumption, LenProperties
<1>1. CASE Len(b) <= Cap
  BY <1>0, <1>1 DEF Keep
<1>2. CASE Len(b) > Cap
  <2> DEFINE k == SubSeq(b, Len(b) - Cap + 1, Len(b))
  <2>1. Len(b) = Cap + 1 /\ k = SubSeq(b, 2, Cap + 1) /\ Keep(b) = k
    <3>0. ASSUME NEW x \in Nat, NEW c \in Nat, x <= c + 1, x > c
          PROVE  x = c + 1 /\ x - c + 1 = 2
      BY <3>0
    <3>1. Len(b) = Cap + 1 /\ Len(b) - Cap + 1 = 2
      BY <1>0, <1>2, <3>0
    <3> QED
      BY <1>2, <3>1, Zenon DEF Keep
  <2>2. \A i \in 2 .. Cap + 1 : b[i] \in Lines
    BY <1>0, <2>1, ElementOfSeq
  <2>3. k \in Seq(Lines) /\ Len(k) = Cap /\ \A i \in 1..Cap : k[i] = b[i + 1]
    <3>1. /\ SubSeq(b, 2, Cap + 1) \in Seq(Lines)
          /\ Len(SubSeq(b, 2, Cap + 1)) = IF 2 <= Cap + 1 THEN Cap + 1 - 2 + 1 ELSE 0
          /\ \A i \in 1 .. Cap + 1 - 2 + 1 : SubSeq(b, 2, Cap + 1)[i] = b[2 + i - 1]
      BY <1>0, <2>2, SubSeqProperties
    <3> QED
      BY <1>0, <2>1, <3>1
  <2>4. DOMAIN k = 1..Cap
    BY <1>0, <2>3, LenProperties
  <2> HIDE DEF k
  <2>5. Rising(k)
    <3> SUFFICES ASSUME NEW i \in DOMAIN k, NEW j \in DOMAIN k, i < j PROVE k[i] < k[j]
      BY DEF Rising
    <3>1. i + 1 \in DOMAIN b /\ j + 1 \in DOMAIN b /\ i + 1 < j + 1
      BY <1>0, <2>1, <2>4
    <3> QED
      BY <2>3, <2>4, <3>1 DEF Rising
  <2>6. Elems(k) \subseteq Elems(b)
    <3> SUFFICES ASSUME NEW i \in DOMAIN k PROVE k[i] \in Elems(b)
      BY DEF Elems
    <3>1. i + 1 \in DOMAIN b /\ k[i] = b[i + 1]
      BY <1>0, <2>1, <2>3, <2>4
    <3> QED
      BY <3>1 DEF Elems
  <2>7. ASSUME NEW x \in Elems(b) \ Elems(k), NEW y \in Elems(k) PROVE x < y
    <3>1. PICK i \in DOMAIN b : x = b[i]
      BY DEF Elems
    <3>2. PICK j \in DOMAIN k : y = k[j]
      BY DEF Elems
    <3>3. i = 1
      <4>1. SUFFICES ASSUME i # 1 PROVE FALSE
        OBVIOUS
      <4>2. i - 1 \in DOMAIN k /\ k[i - 1] = b[i]
        BY <1>0, <2>1, <2>3, <2>4, <4>1
      <4> QED
        BY <3>1, <4>2 DEF Elems
    <3>4. j + 1 \in DOMAIN b /\ 1 < j + 1 /\ y = b[j + 1]
      BY <1>0, <2>1, <2>3, <2>4, <3>2
    <3> QED
      BY <3>1, <3>3, <3>4 DEF Rising
  <2> QED
    BY <1>0, <2>1, <2>3, <2>5, <2>6, <2>7
<1> QED
  BY <1>0, <1>1, <1>2

-----------------------------------------------------------------------------
(* The invariant.                                                          *)

LEMMA LogInvInit == LogInit => LogInv
<1> SUFFICES ASSUME LogInit PROVE LogInv
  OBVIOUS
<1>1. Elems(<< >>) = {} /\ << >> \in Seq(Lines) /\ Rising(<< >>) /\ Len(<< >>) = 0
      /\ Sorted(<< >>, {})
  BY ElemsOfNone DEF Sorted
<1>2. LTypeOK
  BY <1>1, LogAssumption DEF LogInit, LTypeOK
<1> QED
  BY <1>1, <1>2 DEF LogInit, LogInv, OrderInv, LateInv, Accounted, OverflowDropsOldest,
     Below, Apart, Before

LEMMA LogInvStep == ASSUME LogInv, [LogNext]_logVars PROVE LogInv'
<1> USE LogAssumption DEF LogInv, fateVars, netVars
<1>0. /\ buffer \in Seq(Lines) /\ Len(buffer) <= Cap
      /\ flight \in Seq(Lines) /\ late \in Seq(Lines) /\ received \in Seq(Lines)
      /\ lines \in 0..MaxLines /\ shipLevel \in Levels
      /\ withheld \subseteq Lines /\ overflowed \subseteq Lines /\ lost \subseteq Lines
      /\ delayed \subseteq Lines
  BY DEF LTypeOK
<1>s. shipping \in BOOLEAN
  BY Zenon DEF LTypeOK
<1>a. /\ Elems(received) \subseteq 1..lines /\ Elems(flight) \subseteq 1..lines
      /\ Elems(buffer) \subseteq 1..lines /\ Elems(late) \subseteq 1..lines
      /\ overflowed \subseteq 1..lines /\ withheld \subseteq 1..lines /\ lost \subseteq 1..lines
  BY DEF Accounted
<1>e. Elems(<< >>) = {} /\ << >> \in Seq(Lines) /\ Rising(<< >>) /\ Len(<< >>) = 0
  BY ElemsOfNone
<1> USE DEF Below, Apart, Before
<1>1. CASE Write
  <2> DEFINE n == lines + 1
             full == Append(buffer, n)
  <2>1. /\ n \in Lines /\ lines' = n /\ 1..n = 1..lines \cup {n}
        /\ UNCHANGED <<shipping, shipLevel, flight, late, received, lost, delayed>>
    BY <1>0, <1>1 DEF Write, Lines
  <2>2. CASE Withheld(n)
    <3>1. withheld' = withheld \cup {n} /\ UNCHANGED <<buffer, overflowed>>
      BY <1>1, <2>2 DEF Write
    <3>2. LTypeOK'
      BY <1>0, <1>s, <2>1, <3>1 DEF LTypeOK, Lines
    <3> QED
      BY <2>1, <3>1, <3>2 DEF OrderInv, LateInv, Accounted, OverflowDropsOldest
  <2>3. CASE ~Withheld(n)
    <3>1. /\ buffer' = Keep(full) /\ withheld' = withheld
          /\ overflowed' = overflowed \cup (Elems(full) \ Elems(buffer'))
      BY <1>1, <2>3 DEF Write
    <3>2. /\ full \in Seq(Lines) /\ Len(full) <= Cap + 1 /\ Rising(full)
          /\ Elems(full) = Elems(buffer) \cup {n}
      <4>1. \A x \in Elems(buffer) : x < n
        BY <1>0, <1>a
      <4>2. Len(buffer) \in Nat
        BY <1>0, LenProperties
      <4> QED
        BY <1>0, <2>1, <4>1, <4>2, RisingAppend DEF OrderInv
    <3> HIDE DEF full
    <3>3. /\ buffer' \in Seq(Lines) /\ Len(buffer') <= Cap /\ Rising(buffer')
          /\ Elems(buffer') \subseteq Elems(full)
          /\ \A x \in Elems(full) \ Elems(buffer'), y \in Elems(buffer') : x < y
      BY <3>1, <3>2, KeepNewest
    <3>4. LTypeOK'
      <4>1. Elems(full) \subseteq Lines
        BY <3>2, ElemsOf
      <4>2. overflowed' \subseteq Lines
        BY <1>0, <3>1, <4>1
      <4>3. lines' \in 0..MaxLines
        BY <1>0, <2>1 DEF Lines
      <4> QED
        <5>1. /\ buffer' \in Seq(Lines) /\ Len(buffer') <= Cap
              /\ flight' \in Seq(Lines) /\ late' \in Seq(Lines) /\ received' \in Seq(Lines)
          BY <1>0, <2>1, <3>3
        <5>2. /\ shipLevel' \in Levels /\ withheld' \subseteq Lines /\ lost' \subseteq Lines
              /\ delayed' \subseteq Lines
          BY <1>0, <2>1, <3>1
        <5>3. shipping' \in BOOLEAN
          BY <1>s, <2>1, Zenon
        <5> QED
          BY <4>2, <4>3, <5>1, <5>2, <5>3, Zenon DEF LTypeOK
    <3>5. \A x \in Elems(received) \cup Elems(flight) \cup Elems(late) : x < n
      BY <1>0, <1>a
    <3>6. OrderInv'
      BY <2>1, <3>2, <3>3, <3>5 DEF OrderInv
    <3>7. LateInv'
      BY <2>1, <3>2, <3>3, <3>5, <1>0, <1>a DEF LateInv
    <3>8. Accounted'
      BY <2>1, <3>1, <3>2, <3>3 DEF Accounted
    <3>9. OverflowDropsOldest'
      <4>1. \A x \in overflowed : x < n
        BY <1>0, <1>a
      <4> QED
        BY <3>1, <3>2, <3>3, <4>1 DEF OverflowDropsOldest
    <3> QED
      BY <3>4, <3>6, <3>7, <3>8, <3>9
  <2> QED
    BY <2>2, <2>3
<1>2. CASE \E r \in Levels : SetLogShipLevel(r)
  <2>1. shipLevel' \in Levels /\ UNCHANGED <<shipping, buffer, flight, late, received, lines,
          withheld, overflowed, lost, delayed>>
    BY <1>0, <1>2 DEF SetLogShipLevel
  <2>2. LTypeOK'
    BY <1>0, <1>s, <2>1 DEF LTypeOK
  <2> QED
    BY <2>1, <2>2 DEF OrderInv, LateInv, Accounted, OverflowDropsOldest
<1>3. CASE Take
  <2>1. /\ flight = << >> /\ flight' = buffer /\ buffer' = << >>
        /\ UNCHANGED <<shipping, shipLevel, late, received, lines, withheld, overflowed, lost, delayed>>
    BY <1>3 DEF Take
  <2>2. LTypeOK'
    BY <1>0, <1>s, <1>e, <2>1 DEF LTypeOK
  <2>3. OrderInv' /\ LateInv'
    BY <1>e, <2>1 DEF OrderInv, LateInv
  <2>4. Accounted' /\ OverflowDropsOldest'
    BY <1>e, <2>1 DEF Accounted, OverflowDropsOldest
  <2> QED
    BY <2>2, <2>3, <2>4
<1>4. CASE PushOk
  <2>1. /\ received' = received \o flight /\ flight' = << >>
        /\ UNCHANGED <<shipping, shipLevel, buffer, late, lines, withheld, overflowed, lost, delayed>>
    BY <1>4 DEF PushOk
  <2>2. received' \in Seq(Lines) /\ Elems(received') = Elems(received) \cup Elems(flight)
    BY <1>0, <2>1, ElemsOfConcat
  <2>3. Sorted(received', delayed)
    BY <1>0, <2>1, SortedConcat, RisingIsSorted DEF OrderInv
  <2>4. LTypeOK'
    BY <1>0, <1>s, <1>e, <2>1, <2>2 DEF LTypeOK
  <2>5. OrderInv'
    <3>1. \A x \in Elems(flight), y \in Elems(buffer) : x < y /\ x # y
      BY <1>0, <1>a DEF OrderInv
    <3> QED
      BY <1>e, <2>1, <2>2, <2>3, <3>1 DEF OrderInv
  <2>6. LateInv'
    BY <1>e, <2>1, <2>2 DEF LateInv
  <2>7. Accounted' /\ OverflowDropsOldest'
    BY <1>e, <2>1, <2>2 DEF Accounted, OverflowDropsOldest
  <2> QED
    BY <2>4, <2>5, <2>6, <2>7
<1>5. CASE PushFails
  <2>1. /\ lost' = lost \cup Elems(flight) /\ flight' = << >>
        /\ UNCHANGED <<shipping, shipLevel, buffer, late, received, lines, withheld, overflowed, delayed>>
    BY <1>5 DEF PushFails
  <2>2. LTypeOK'
    BY <1>0, <1>s, <1>e, <2>1, ElemsOf DEF LTypeOK
  <2>3. OrderInv' /\ LateInv'
    BY <1>e, <2>1 DEF OrderInv, LateInv
  <2>4. Accounted' /\ OverflowDropsOldest'
    BY <1>e, <2>1 DEF Accounted, OverflowDropsOldest
  <2> QED
    BY <2>2, <2>3, <2>4
<1>6. CASE PushTimesOut
  <2>1. /\ late = << >> /\ late' = flight /\ flight' = << >>
        /\ delayed' = delayed \cup Elems(flight)
        /\ UNCHANGED <<shipping, shipLevel, buffer, received, lines, withheld, overflowed, lost>>
    BY <1>6 DEF PushTimesOut
  <2>2. LTypeOK'
    BY <1>0, <1>s, <1>e, <2>1, ElemsOf DEF LTypeOK
  <2>3. OrderInv'
    <3>1. Sorted(received, delayed')
      BY <2>1 DEF OrderInv, Sorted
    <3> QED
      BY <1>e, <2>1, <3>1 DEF OrderInv
  <2>4. LateInv'
    <3>1. \A x \in Elems(buffer), y \in Elems(flight) : x # y
      BY <1>0, <1>a DEF OrderInv
    <3> QED
      BY <1>e, <2>1, <3>1 DEF OrderInv, LateInv
  <2>5. Accounted' /\ OverflowDropsOldest'
    BY <1>e, <2>1 DEF Accounted, OverflowDropsOldest
  <2> QED
    BY <2>2, <2>3, <2>4, <2>5
<1>7. CASE LateArrives
  <2>1. /\ received' = received \o late /\ late' = << >>
        /\ UNCHANGED <<shipping, shipLevel, buffer, flight, lines, withheld, overflowed, lost, delayed>>
    BY <1>7 DEF LateArrives
  <2>2. received' \in Seq(Lines) /\ Elems(received') = Elems(received) \cup Elems(late)
    BY <1>0, <2>1, ElemsOfConcat
  <2>3. Before(received, late, delayed)
    BY DEF LateInv
  <2>4. Sorted(received', delayed)
    BY <1>0, <2>1, <2>3, SortedConcat, RisingIsSorted DEF OrderInv, LateInv
  <2>5. LTypeOK'
    BY <1>0, <1>s, <1>e, <2>1, <2>2 DEF LTypeOK
  <2>6. OrderInv'
    BY <2>1, <2>2, <2>4 DEF OrderInv, LateInv
  <2>7. LateInv'
    BY <1>e, <2>1, <2>2 DEF LateInv
  <2>8. Accounted' /\ OverflowDropsOldest'
    BY <1>e, <2>1, <2>2 DEF Accounted, OverflowDropsOldest
  <2> QED
    BY <2>5, <2>6, <2>7, <2>8
<1>8. CASE LateLost
  <2>1. /\ lost' = lost \cup Elems(late) /\ late' = << >>
        /\ UNCHANGED <<shipping, shipLevel, buffer, flight, received, lines, withheld, overflowed, delayed>>
    BY <1>8 DEF LateLost
  <2>2. LTypeOK'
    BY <1>0, <1>s, <1>e, <2>1, ElemsOf DEF LTypeOK
  <2>3. OrderInv' /\ LateInv'
    BY <1>e, <2>1 DEF OrderInv, LateInv
  <2>4. Accounted' /\ OverflowDropsOldest'
    BY <1>e, <2>1 DEF Accounted, OverflowDropsOldest
  <2> QED
    BY <2>2, <2>3, <2>4
<1>9. ASSUME NEW up \in BOOLEAN, Restart(up) PROVE LogInv'
  <2>1. /\ lost' = lost \cup Elems(buffer) /\ buffer' = << >> /\ shipLevel' = Info
        /\ UNCHANGED <<flight, late, received, lines, withheld, overflowed, delayed>>
    BY <1>9 DEF Restart
  <2>2. shipping' \in BOOLEAN
    BY <1>9, Zenon DEF Restart
  <2>3. LTypeOK'
    BY <1>0, <1>e, <2>1, <2>2, ElemsOf DEF LTypeOK
  <2>4. OrderInv' /\ LateInv'
    BY <1>e, <2>1 DEF OrderInv, LateInv
  <2>5. Accounted' /\ OverflowDropsOldest'
    BY <1>e, <2>1 DEF Accounted, OverflowDropsOldest
  <2> QED
    BY <2>3, <2>4, <2>5
<1>10. CASE UNCHANGED logVars
  BY <1>10 DEF logVars, LTypeOK, OrderInv, LateInv, Accounted, OverflowDropsOldest
<1> QED
  BY <1>1, <1>2, <1>3, <1>4, <1>5, <1>6, <1>7, <1>8, <1>9, <1>10 DEF LogNext

LEMMA LogInvariance == LogSpec => []LogInv
  BY LogInvInit, LogInvStep, PTL DEF LogSpec

-----------------------------------------------------------------------------
(* Results.                                                                *)

\* Every reachable state is well typed; the buffer never holds more than Cap.
THEOREM TypeCorrect == LogSpec => []LTypeOK
  BY LogInvariance, PTL DEF LogInv

\* Each line is at the portal, under way, or lost in a way that is named.
THEOREM LinesAccounted == LogSpec => []EveryLineAccounted
<1>1. ASSUME LogInv PROVE EveryLineAccounted
  <2>1. /\ buffer \in Seq(Lines) /\ flight \in Seq(Lines) /\ received \in Seq(Lines)
    BY <1>1 DEF LogInv, LTypeOK
  <2>a. received \o flight \in Seq(Lines)
        /\ Elems(received \o flight) = Elems(received) \cup Elems(flight)
    BY <2>1, ElemsOfConcat
  <2>2. Elems(Pipeline) = Elems(received) \cup Elems(flight) \cup Elems(buffer)
    BY <2>1, <2>a, ElemsOfConcat DEF Pipeline
  <2> QED
    BY <1>1, <2>2 DEF LogInv, Accounted, EveryLineAccounted
<1> QED
  BY <1>1, LogInvariance, PTL

\* No line reaches the portal twice, and in order but for those given up.
THEOREM ShippedOnceInOrder == LogSpec => []ShippedInOrder
<1>1. ASSUME LogInv PROVE ShippedInOrder
  <2>1. /\ buffer \in Seq(Lines) /\ flight \in Seq(Lines) /\ received \in Seq(Lines)
    BY <1>1 DEF LogInv, LTypeOK
  <2> DEFINE sent == received \o flight
  <2>2. sent \in Seq(Lines) /\ Elems(sent) = Elems(received) \cup Elems(flight)
    BY <2>1, ElemsOfConcat
  <2>3. Sorted(sent, delayed) /\ Sorted(buffer, delayed)
    BY <1>1, <2>1, SortedConcat, RisingIsSorted DEF LogInv, OrderInv
  <2> HIDE DEF sent
  <2>4. Elems(flight) \subseteq Lines /\ Elems(buffer) \subseteq Lines
    BY <2>1, ElemsOf
  <2>5. \A x \in Elems(flight), y \in Elems(buffer) : x < y /\ x # y
    BY <1>1, <2>4, LogAssumption DEF LogInv, OrderInv, Below, Lines
  <2>6. Before(sent, buffer, delayed)
    BY <1>1, <2>2, <2>5 DEF LogInv, OrderInv, Before
  <2>7. Sorted(sent \o buffer, delayed)
    BY <2>1, <2>2, <2>3, <2>6, SortedConcat
  <2> QED
    BY <2>7 DEF ShippedInOrder, Sorted, Pipeline, sent
<1> QED
  BY <1>1, LogInvariance, PTL

\* A burst beyond the buffer costs its oldest lines only.
THEOREM NewestKept == LogSpec => []OverflowDropsOldest
  BY LogInvariance, PTL DEF LogInv
=============================================================================

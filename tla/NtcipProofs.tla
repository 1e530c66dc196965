----------------------------- MODULE NtcipProofs ------------------------------
(***************************************************************************)
(* Theorems about Ntcip, for any objects and lamps, however many requests  *)
(* are under way and however many bytes are hit.                           *)
(***************************************************************************)
EXTENDS Ntcip, FiniteSetTheorems, SequenceTheorems, TLAPS

-----------------------------------------------------------------------------
(* Sequences.                                                              *)

\* A set of numbers that is not empty has a least member.
LEMMA LeastMember ==
  ASSUME NEW S, S \subseteq Nat, S # {}
  PROVE  \E x \in S : \A y \in S : x <= y
  <1> DEFINE T == {0 .. x : x \in S}
             R == StrictSubsetOrdering(Nat)
  <1>1. \A x \in S : 0 .. x \in FiniteSubsetsOf(Nat)
    BY FS_Interval, SMT DEF FiniteSubsetsOf
  <1>2. T \subseteq FiniteSubsetsOf(Nat) /\ T # {}
    BY <1>1
  <1>3. IsWellFoundedOn(R, FiniteSubsetsOf(Nat))
    BY FS_StrictSubsetOrderingWellFounded
  <1>4. PICK t \in T : \A u \in T : ~(<<u, t>> \in R)
    <2> HIDE DEF T, R
    <2> QED BY <1>2, <1>3, WFMin
  <1>5. PICK x \in S : t = 0 .. x
    BY <1>4
  <1>6. ASSUME NEW y \in S, y < x PROVE FALSE
    <2>1. 0 .. y \in T /\ <<0 .. y, 0 .. x>> \notin R
      BY <1>4, <1>5
    <2>2. 0 .. y \subseteq 0 .. x /\ 0 .. y # 0 .. x
      <3>1. x \in 0 .. x /\ x \notin 0 .. y
        BY <1>6, SMT
      <3>2. 0 .. y \subseteq 0 .. x
        BY <1>6, SMT
      <3> QED BY <3>1, <3>2
    <2>3. 0 .. y \in SUBSET Nat /\ 0 .. x \in SUBSET Nat
      BY SMT
    <2> QED BY <2>1, <2>2, <2>3 DEF StrictSubsetOrdering
  <1> QED BY <1>6, SMT

\* What FlattenSeq computes with, in one equation.
Flattens(f, s, n) ==
  f = [i \in 1..n |-> IF i = 1 THEN s[i] ELSE f[i - 1] \o s[i]]

\* A table of the first concatenations can always be made longer.
LEMMA FlattenLonger ==
  ASSUME NEW s, NEW n \in Nat, n > 1, NEW g, Flattens(g, s, n - 1)
  PROVE  \E f : Flattens(f, s, n)
  <1> DEFINE f == [i \in 1..n |-> IF i < n THEN g[i] ELSE g[n - 1] \o s[n]]
  <1>1. g = [i \in 1..n - 1 |-> IF i = 1 THEN s[i] ELSE g[i - 1] \o s[i]]
    BY DEF Flattens
  <1>2. ASSUME NEW i \in 1..n
        PROVE  f[i] = IF i = 1 THEN s[i] ELSE f[i - 1] \o s[i]
    <2>1. CASE i < n
      <3>1. i \in 1..n - 1 /\ f[i] = g[i]
        BY <2>1
      <3>2. g[i] = IF i = 1 THEN s[i] ELSE g[i - 1] \o s[i]
        BY <1>1, <3>1
      <3>3. i # 1 => f[i - 1] = g[i - 1]
        BY <2>1
      <3> QED
        BY <3>1, <3>2, <3>3
    <2>2. CASE i = n
      <3> DEFINE e == g[n - 1] \o s[n]
      <3>0. \A k \in 1..n : f[k] = IF k < n THEN g[k] ELSE e
        OBVIOUS
      <3> HIDE DEF e, f
      <3>1. f[n] = e /\ f[n - 1] = g[n - 1]
        BY <3>0
      <3>2. e = f[i - 1] \o s[i]
        BY <2>2, <3>1 DEF e
      <3>3. i # 1
        BY <2>2
      <3>4. f[i] = e
        BY <2>2, <3>1, Zenon
      <3> QED
        BY <3>2, <3>3, <3>4, Zenon
    <2> QED
      BY <2>1, <2>2
  <1>3. f = [i \in 1..n |-> IF i = 1 THEN s[i] ELSE f[i - 1] \o s[i]]
    <2> DEFINE h == [i \in 1..n |-> IF i = 1 THEN s[i] ELSE f[i - 1] \o s[i]]
    <2>1. f = [i \in 1..n |-> f[i]] /\ h = [i \in 1..n |-> h[i]]
      OBVIOUS
    <2>2. \A i \in 1..n : f[i] = h[i]
      BY <1>2
    <2> HIDE DEF f, h
    <2>3. f = h
      BY <2>1, <2>2
    <2> QED
      BY <2>3 DEF h
  <1> HIDE DEF f
  <1> QED
    BY <1>3 DEF Flattens

LEMMA FlattenExists ==
  ASSUME NEW s, NEW n \in Nat, n > 0
  PROVE  \E f : Flattens(f, s, n)
  <1> DEFINE Bad == {k \in Nat : k > 0 /\ ~ \E f : Flattens(f, s, k)}
  <1> SUFFICES ASSUME Bad # {} PROVE FALSE
    OBVIOUS
  <1>1. PICK k \in Bad : \A j \in Bad : k <= j
    <2> HIDE DEF Bad
    <2>1. Bad \subseteq Nat
      BY DEF Bad
    <2> QED
      BY <2>1, LeastMember
  <1>2. CASE k = 1
    <2>1. Flattens([i \in 1..1 |-> s[i]], s, 1)
      BY DEF Flattens
    <2> QED
      BY <1>1, <1>2, <2>1
  <1>3. CASE k # 1
    <2>1. k \in Nat /\ k > 1 /\ k - 1 \in Nat /\ k - 1 > 0 /\ k - 1 \notin Bad
      BY <1>1, <1>3
    <2>2. PICK g : Flattens(g, s, k - 1)
      BY <2>1
    <2>3. \E f : Flattens(f, s, k)
      BY <2>1, <2>2, FlattenLonger
    <2> QED
      BY <1>1, <2>3
  <1> QED
    BY <1>2, <1>3

\* So FlattenSeq is the last entry of the table.
LEMMA FlattenIsLast ==
  ASSUME NEW s, Len(s) \in Nat, Len(s) > 0
  PROVE  \E f : Flattens(f, s, Len(s)) /\ FlattenSeq(s) = f[Len(s)]
  <1> DEFINE n == Len(s)
             Table(f) == f = [i \in 1..n |-> IF i = 1 THEN s[i]
                                             ELSE f[i - 1] \o s[i]]
             g == CHOOSE f : Table(f)
  <1>1. \E f : Table(f)
    BY FlattenExists, Zenon DEF Flattens
  <1>2. Table(g)
    BY <1>1, Zenon
  <1>3. FlattenSeq(s) = g[n]
    BY DEF FlattenSeq
  <1>4. Flattens(g, s, n)
    BY <1>2, Zenon DEF Flattens
  <1> QED
    BY <1>3, <1>4, Zenon

LEMMA FlattenKeepsType ==
  ASSUME NEW T, NEW s \in Seq(Seq(T)), s # <<>>
  PROVE  FlattenSeq(s) \in Seq(T)
  <1> DEFINE n == Len(s)
  <1>1. n \in Nat /\ n > 0 /\ \A i \in 1..n : s[i] \in Seq(T)
    BY EmptySeq
  <1>2. PICK f : Flattens(f, s, n) /\ FlattenSeq(s) = f[n]
    BY <1>1, FlattenIsLast
  <1>3. f = [i \in 1..n |-> IF i = 1 THEN s[i] ELSE f[i - 1] \o s[i]]
    BY <1>2 DEF Flattens
  <1> HIDE DEF n
  <1> DEFINE Bad == {k \in 1..n : f[k] \notin Seq(T)}
  <1>4. ASSUME Bad # {} PROVE FALSE
    <2>1. PICK k \in Bad : \A j \in Bad : k <= j
      <3>1. Bad \subseteq Nat
        BY <1>1
      <3> HIDE DEF Bad
      <3> QED
        BY <1>4, <3>1, LeastMember
    <2>2. CASE k = 1
      <3>1. f[1] = s[1]
        BY <1>1, <1>3
      <3> QED
        BY <1>1, <2>1, <2>2, <3>1
    <2>3. CASE k # 1
      <3>1. k \in 1..n /\ k - 1 \in 1..n /\ k - 1 \notin Bad
        BY <1>1, <2>1, <2>3
      <3>2. f[k] = f[k - 1] \o s[k]
        BY <1>3, <2>3, <3>1
      <3>3. f[k - 1] \in Seq(T) /\ s[k] \in Seq(T)
        BY <1>1, <3>1
      <3>4. f[k] \in Seq(T)
        BY <3>2, <3>3, ConcatProperties
      <3> QED
        BY <2>1, <3>4
    <2> QED
      BY <2>2, <2>3
  <1>5. n \in 1..n
    BY <1>1
  <1> QED
    BY <1>2, <1>4, <1>5 DEF n

-----------------------------------------------------------------------------
(* Messages.                                                               *)

Size == Len(Groups)

\* What the assumption says, in the form the provers use.
LEMMA Constants ==
  /\ Size \in Nat /\ Size > 0
  /\ \A g \in 1..Size : Groups[g] \in Byte
  /\ \A g, h \in 1..Size : Groups[g] = Groups[h] => g = h
  /\ MaxChanges \in Nat
  /\ \A v \in Version : \A g \in 1..Size : Lamp(v)[g] \in Byte
  /\ \A v \in Version : Lamp(v) = [g \in 1..Size |-> Lamp(v)[g]]
  /\ Junk \subseteq Byte /\ MaxAsked \in Nat
  <1>1. Groups \in Seq(Byte) /\ Groups # <<>> /\ IsInjective(Groups)
    BY NtcipAssumption
  <1>2. Size \in Nat /\ Size > 0
    BY <1>1, EmptySeq DEF Size
  <1>3. DOMAIN Groups = 1..Size
    BY <1>1 DEF Size
  <1>4. /\ \A g \in 1..Size : Groups[g] \in Byte
        /\ \A g, h \in 1..Size : Groups[g] = Groups[h] => g = h
    BY <1>1, <1>3 DEF IsInjective, Size
  <1> DEFINE F == [1..Size -> Byte]
  <1>5. Lamps \in Seq(F) /\ Lamps # <<>>
    BY NtcipAssumption DEF Size
  <1> HIDE DEF F
  <1>6. Len(Lamps) \in Nat /\ Len(Lamps) > 0
    BY <1>5, EmptySeq
  <1>7. MaxChanges \in Nat
    BY <1>6 DEF MaxChanges
  <1>8. ASSUME NEW v \in Version PROVE Lamp(v) \in F
    <2>1. v + 1 \in 1..Len(Lamps)
      BY <1>6 DEF Version, MaxChanges
    <2> QED
      BY <1>5, <2>1 DEF Lamp
  <1>9. Junk \subseteq Byte /\ MaxAsked \in Nat
    BY NtcipAssumption
  <1> QED
    BY <1>2, <1>4, <1>7, <1>8, <1>9 DEF F

LEMMA RequestBytes ==
  Request \in Seq(Byte) /\ Len(Request) = 2 * Size
  <1>1. Size \in Nat /\ \A g \in 1..Size : Groups[g] \in Byte
    BY Constants
  <1>2. ASSUME NEW i \in 1..2 * Size PROVE Request[i] \in Byte
    <2>1. CASE i % 2 = 1
      <3>1. (i + 1) \div 2 \in 1..Size
        BY <1>1, <2>1
      <3>2. Request[i] = Groups[(i + 1) \div 2]
        BY <2>1 DEF Request, Size
      <3> QED
        BY <1>1, <3>1, <3>2
    <2>2. CASE i % 2 # 1
      BY <2>2 DEF Request, Size, SNMP_NULL, Byte
    <2> QED
      BY <2>1, <2>2
  <1>3. Request = [i \in 1..2 * Size |-> Request[i]] /\ 2 * Size \in Nat
    BY <1>1 DEF Request, Size
  <1> HIDE DEF Request
  <1> QED
    BY <1>2, <1>3, IsASeq

\* The three bytes of a group.
LEMMA ObjectsOf ==
  ASSUME NEW m \in Message, ~m.refused
  PROVE  /\ Objects(m) = [i \in 1..3 * Size |-> Objects(m)[i]]
         /\ \A i \in 1..3 * Size :
              /\ i % 3 = 1 => Objects(m)[i] = Groups[(i + 2) \div 3]
              /\ i % 3 = 2 => Objects(m)[i] = SNMP_INTEGER
              /\ i % 3 = 0 => Objects(m)[i] = Lamp(m.version)[i \div 3]
  <1> DEFINE Item(i) == CASE i % 3 = 1 -> Groups[(i + 2) \div 3]
                          [] i % 3 = 2 -> SNMP_INTEGER
                          [] OTHER -> Lamp(m.version)[i \div 3]
  <1>1. Objects(m) = [i \in 1..3 * Size |-> Item(i)]
    BY DEF Objects, Size
  <1>2. ASSUME NEW i \in 1..3 * Size
        PROVE  /\ i % 3 = 1 => Item(i) = Groups[(i + 2) \div 3]
               /\ i % 3 = 2 => Item(i) = SNMP_INTEGER
               /\ i % 3 = 0 => Item(i) = Lamp(m.version)[i \div 3]
    OBVIOUS
  <1> HIDE DEF Item
  <1> QED
    BY <1>1, <1>2

LEMMA ObjectsBytes ==
  ASSUME NEW m \in Message
  PROVE  /\ Objects(m) \in Seq(Byte)
         /\ Len(Objects(m)) = IF m.refused THEN 2 * Size ELSE 3 * Size
  <1>1. CASE m.refused
    BY <1>1, RequestBytes DEF Objects
  <1>2. CASE ~m.refused
    <2>1. Size \in Nat /\ m.version \in Version
      BY Constants DEF Message
    <2>2. ASSUME NEW i \in 1..3 * Size PROVE Objects(m)[i] \in Byte
      <3>1. CASE i % 3 = 1
        <4>1. (i + 2) \div 3 \in 1..Size
          BY <2>1, <3>1
        <4> QED
          BY <1>2, <3>1, <4>1, ObjectsOf, Constants
      <3>2. CASE i % 3 = 2
        <4>1. Objects(m)[i] = SNMP_INTEGER
          BY <1>2, <3>2, ObjectsOf
        <4> QED
          BY <4>1 DEF SNMP_INTEGER, Byte
      <3>3. CASE i % 3 = 0
        <4>1. i \div 3 \in 1..Size
          BY <2>1, <3>3
        <4> QED
          BY <1>2, <2>1, <3>3, <4>1, ObjectsOf, Constants
      <3> QED
        BY <2>1, <3>1, <3>2, <3>3
    <2>3. Objects(m) = [i \in 1..3 * Size |-> Objects(m)[i]]
      BY <1>2, ObjectsOf
    <2>4. 3 * Size \in Nat
      BY <2>1
    <2> QED
      BY <1>2, <2>2, <2>3, <2>4, IsASeq
  <1> QED
    BY <1>1, <1>2

\* A length fits in the bytes it is written in.
LEMMA LengthFits ==
  ASSUME NEW m \in Message
  PROVE  /\ Len(Objects(m)) \in Nat /\ Len(Objects(m)) > 0
         /\ m.wide \in {0, 1, 2}
         /\ m.wide = 0 => Len(Objects(m)) < 128
         /\ m.wide = 1 => Len(Objects(m)) < 256
         /\ m.wide = 2 => Len(Objects(m)) < 65536
  <1>1. Size \in Nat /\ Size > 0
    BY Constants
  <1>2. Len(Objects(m)) = IF m.refused THEN 2 * Size ELSE 3 * Size
    BY ObjectsBytes
  <1>3. m.wide \in {0, 1, 2}
    BY DEF Message, Wide
  <1>4. 3 * Size < <<SNMP_MULTI_BYTE_COUNT, 256, 256 * 256>>[m.wide + 1]
    BY DEF Message, Wide, Size
  <1>5. /\ m.wide = 0 => 3 * Size < 128
        /\ m.wide = 1 => 3 * Size < 256
        /\ m.wide = 2 => 3 * Size < 65536
    BY <1>4 DEF SNMP_MULTI_BYTE_COUNT
  <1> QED
    BY <1>1, <1>2, <1>3, <1>5

LEMMA CountBytes ==
  ASSUME NEW n
  PROVE  /\ ByteCount(n, 0) = <<n>>
         /\ ByteCount(n, 1) = <<129, n>>
         /\ ByteCount(n, 2) = <<130, n \div 256, n % 256>>
  BY DEF ByteCount, SNMP_MULTI_BYTE_COUNT


LEMMA LeadBytes ==
  LET lead == PmppHeader \o <<SNMP_SEQUENCE>>
  IN  /\ lead \in Seq(Byte) /\ Len(lead) = 4
      /\ lead[1] = 5 /\ lead[2] = 19 /\ lead[3] = 193 /\ lead[4] = 48
  <1> DEFINE a == PmppHeader
             b == <<SNMP_SEQUENCE>>
  <1>1. /\ a \in Seq(Byte) /\ Len(a) = 3 /\ a[1] = 5 /\ a[2] = 19 /\ a[3] = 193
    BY DEF PmppHeader, DEST_ADDR, PMPP_CTRL_VAL, PMPP_STMF_VAL, Byte
  <1>2. b \in Seq(Byte) /\ Len(b) = 1 /\ b[1] = 48
    BY DEF SNMP_SEQUENCE, Byte
  <1> HIDE DEF a, b
  <1>3. /\ a \o b \in Seq(Byte) /\ Len(a \o b) = Len(a) + Len(b)
        /\ \A i \in 1..Len(a) + Len(b) :
             (a \o b)[i] = IF i <= Len(a) THEN a[i] ELSE b[i - Len(a)]
    <2>1. a \in Seq(Byte) /\ b \in Seq(Byte)
      BY <1>1, <1>2
    <2> QED
      BY <2>1, ConcatProperties
  <1> DEFINE c == a \o b
  <1>4. c = a \o b
    OBVIOUS
  <1> HIDE DEF c
  <1>5. /\ c \in Seq(Byte) /\ Len(c) = 4
        /\ c[1] = 5 /\ c[2] = 19 /\ c[3] = 193 /\ c[4] = 48
    BY <1>1, <1>2, <1>3, <1>4
  <1> QED
    BY <1>5 DEF a, b, c

LEMMA HeadingOf ==
  ASSUME NEW m \in Message
  PROVE  /\ Heading(m) \in Seq(Byte) /\ Len(Heading(m)) = 5 + m.wide
         /\ Heading(m)[1] = 5 /\ Heading(m)[2] = 19
         /\ Heading(m)[3] = 193 /\ Heading(m)[4] = 48
         /\ m.wide = 0 => Heading(m)[5] = Len(Objects(m))
         /\ m.wide = 1 => Heading(m)[5] = 129 /\ Heading(m)[6] = Len(Objects(m))
         /\ m.wide = 2 => /\ Heading(m)[5] = 130
                          /\ Heading(m)[6] = Len(Objects(m)) \div 256
                          /\ Heading(m)[7] = Len(Objects(m)) % 256
  <1> DEFINE n == Len(Objects(m))
  <1>1. /\ n \in Nat /\ n > 0 /\ m.wide \in {0, 1, 2}
        /\ m.wide = 0 => n < 128
        /\ m.wide = 1 => n < 256
        /\ m.wide = 2 => n < 65536
    BY LengthFits
  <1> DEFINE a == PmppHeader \o <<SNMP_SEQUENCE>>
             b == ByteCount(n, m.wide)
             c == Heading(m)
             w == m.wide
  <1>2. c = a \o b
    BY DEF Heading
  <1>3. /\ a \in Seq(Byte) /\ Len(a) = 4
        /\ a[1] = 5 /\ a[2] = 19 /\ a[3] = 193 /\ a[4] = 48
    BY LeadBytes
  <1> HIDE DEF n
  <1>4. b = ByteCount(n, w) /\ w \in {0, 1, 2}
    BY <1>1
  <1> HIDE DEF b
  <1>5. /\ b \in Seq(Byte) /\ Len(b) = 1 + w
        /\ w = 0 => b[1] = n
        /\ w = 1 => b[1] = 129 /\ b[2] = n
        /\ w = 2 => b[1] = 130 /\ b[2] = n \div 256 /\ b[3] = n % 256
    <2> HIDE DEF w
    <2>1. CASE w = 0
      <3>1. n \in Byte
        BY <1>1, <2>1 DEF Byte, w
      <3>2. b = <<n>>
        BY <1>4, <2>1, CountBytes
      <3>3. b \in Seq(Byte) /\ Len(b) = 1 /\ b[1] = n
        BY <3>1, <3>2
      <3> QED
        BY <2>1, <3>3
    <2>2. CASE w = 1
      <3>1. n \in Byte /\ 129 \in Byte
        BY <1>1, <2>2 DEF Byte, w
      <3>2. b = <<129, n>>
        BY <1>4, <2>2, CountBytes
      <3>3. b \in Seq(Byte) /\ Len(b) = 2 /\ b[1] = 129 /\ b[2] = n
        BY <3>1, <3>2
      <3> QED
        BY <2>2, <3>3
    <2>3. CASE w = 2
      <3> DEFINE h == n \div 256
                 l == n % 256
      <3>1. h \in Byte /\ l \in Byte /\ 130 \in Byte
        BY <1>1, <2>3 DEF Byte, w
      <3>2. b = <<130, h, l>>
        BY <1>4, <2>3, CountBytes
      <3> HIDE DEF h, l
      <3>3. b \in Seq(Byte) /\ Len(b) = 3 /\ b[1] = 130 /\ b[2] = h /\ b[3] = l
        BY <3>1, <3>2
      <3> QED
        BY <2>3, <3>3 DEF h, l
    <2> QED
      BY <1>4, <2>1, <2>2, <2>3
  <1> HIDE DEF a, c
  <1>6. /\ a \o b \in Seq(Byte) /\ Len(a \o b) = Len(a) + Len(b)
        /\ \A i \in 1..Len(a) + Len(b) :
             (a \o b)[i] = IF i <= Len(a) THEN a[i] ELSE b[i - Len(a)]
    <2>1. a \in Seq(Byte) /\ b \in Seq(Byte)
      BY <1>3, <1>5
    <2> QED
      BY <2>1, ConcatProperties
  <1> HIDE DEF w
  <1>7. /\ c \in Seq(Byte) /\ Len(c) = 5 + w
        /\ \A i \in 1..4 : c[i] = a[i]
        /\ \A i \in 5..5 + w : c[i] = b[i - 4]
    BY <1>2, <1>3, <1>4, <1>5, <1>6
  <1>8. c[1] = 5 /\ c[2] = 19 /\ c[3] = 193 /\ c[4] = 48
    BY <1>3, <1>7
  <1>9. /\ c[5] = b[1]
        /\ w > 0 => c[6] = b[2]
        /\ w > 1 => c[7] = b[3]
    BY <1>4, <1>7
  <1>10. /\ c \in Seq(Byte) /\ Len(c) = 5 + w
         /\ c[1] = 5 /\ c[2] = 19 /\ c[3] = 193 /\ c[4] = 48
         /\ w = 0 => c[5] = n
         /\ w = 1 => c[5] = 129 /\ c[6] = n
         /\ w = 2 => c[5] = 130 /\ c[6] = n \div 256 /\ c[7] = n % 256
    BY <1>4, <1>5, <1>7, <1>8, <1>9
  <1> QED
    BY <1>10 DEF c, n, w

-----------------------------------------------------------------------------
(* What is on the line.                                                    *)

\* Bytes, and check sequences of messages with the first v changes.
Tokens(v) ==
  {Plain(b) : b \in Byte} \cup
  {Sum(m) : m \in {k \in Message : k.version <= v}}

LEMMA PlainIsToken ==
  ASSUME NEW v, NEW b \in Byte
  PROVE  Plain(b) \in Tokens(v)
  BY DEF Tokens

LEMMA SumIsToken ==
  ASSUME NEW v, NEW m \in Message, m.version <= v
  PROVE  Sum(m) \in Tokens(v)
  BY DEF Tokens

LEMMA EscapeTokens ==
  ASSUME NEW v, NEW b \in Byte
  PROVE  Escape(b) \in Seq(Tokens(v))
  <1> DEFINE T == Tokens(v)
             p == Plain(b)
             e == Plain(ESCAPE)
             d == Plain(ESCAPE_DELIMITER)
             f == Plain(ESCAPE_ESCAPE)
  <1>1. p \in T /\ e \in T /\ d \in T /\ f \in T
    <2>1. /\ ESCAPE \in Byte /\ ESCAPE_DELIMITER \in Byte
          /\ ESCAPE_ESCAPE \in Byte
      BY DEF ESCAPE, ESCAPE_DELIMITER, ESCAPE_ESCAPE, Byte
    <2> QED
      BY <2>1, PlainIsToken
  <1>2. Escape(b) \in {<<e, d>>, <<e, f>>, <<p>>}
    BY DEF Escape
  <1> HIDE DEF T, p, e, d, f
  <1>3. <<e, d>> \in Seq(T) /\ <<e, f>> \in Seq(T) /\ <<p>> \in Seq(T)
    BY <1>1
  <1> QED
    BY <1>2, <1>3 DEF T

LEMMA EscapedTokens ==
  ASSUME NEW v, NEW bytes \in Seq(Byte), Len(bytes) > 0
  PROVE  Escaped(bytes) \in Seq(Tokens(v))
  <1> DEFINE T == Tokens(v)
             s == [i \in DOMAIN bytes |-> Escape(bytes[i])]
  <1>1. DOMAIN bytes = 1..Len(bytes) /\ Len(bytes) \in Nat
    OBVIOUS
  <1>2. \A i \in 1..Len(bytes) : Escape(bytes[i]) \in Seq(T)
    BY EscapeTokens
  <1>3. s \in Seq(Seq(T)) /\ Len(s) = Len(bytes)
    <2> HIDE DEF T
    <2> QED
      BY <1>1, <1>2
  <1>4. s # <<>>
    BY <1>1, <1>3
  <1> HIDE DEF T, s
  <1>5. FlattenSeq(s) \in Seq(T)
    BY <1>3, <1>4, FlattenKeepsType
  <1> QED
    BY <1>5 DEF Escaped, s, T

LEMMA FrameTokens ==
  ASSUME NEW m \in Message, NEW v \in Int, m.version <= v
  PROVE  Frame(m) \in Seq(Tokens(v))
  <1> DEFINE T == Tokens(v)
             a == <<Plain(FLAG)>>
             b == Escaped(Heading(m))
             c == Escaped(Objects(m))
             d == <<Sum(m), Plain(FLAG)>>
  <1>1. FLAG \in Byte
    BY DEF FLAG, Byte
  <1>2. Plain(FLAG) \in T /\ Sum(m) \in T
    BY <1>1, PlainIsToken, SumIsToken
  <1>3. b \in Seq(T)
    BY HeadingOf, LengthFits, EscapedTokens
  <1>4. c \in Seq(T)
    BY ObjectsBytes, LengthFits, EscapedTokens
  <1> HIDE DEF T, b, c
  <1>5. a \in Seq(T) /\ d \in Seq(T)
    BY <1>2
  <1> HIDE DEF a, d
  <1>6. a \o b \o c \o d \in Seq(T)
    BY <1>3, <1>4, <1>5
  <1> QED
    BY <1>6 DEF Frame, T, a, b, c, d

-----------------------------------------------------------------------------
(* Parsing.                                                                *)

\* The bytes before the objects, from the first byte of the length.
HeadOf(b) ==
  IF b < SNMP_MULTI_BYTE_COUNT THEN 5 ELSE IF b % 2 = 1 THEN 6
  ELSE IF (b \div 2) % 2 = 1 THEN 7 ELSE 5

LEMMA HeadIsHeading ==
  ASSUME NEW m \in Message
  PROVE  HeadOf(Heading(m)[5]) = Len(Heading(m))
  <1>1. /\ m.wide \in {0, 1, 2} /\ Len(Objects(m)) \in Nat
        /\ m.wide = 0 => Len(Objects(m)) < 128
    BY LengthFits
  <1> DEFINE b == Heading(m)[5]
             l == Len(Heading(m))
  <1>2. /\ l = 5 + m.wide
        /\ m.wide = 0 => b \in Nat /\ b < 128
        /\ m.wide = 1 => b = 129
        /\ m.wide = 2 => b = 130
    BY <1>1, HeadingOf
  <1> HIDE DEF b, l
  <1>3. HeadOf(b) = l
    BY <1>1, <1>2 DEF HeadOf, SNMP_MULTI_BYTE_COUNT
  <1> QED
    BY <1>3 DEF b, l

LEMMA ContentOf ==
  ASSUME NEW m \in Message
  PROVE  /\ Content(m) \in Seq(Byte)
         /\ Len(Content(m)) = Len(Heading(m)) + Len(Objects(m))
         /\ \A i \in 1..Len(Heading(m)) : Content(m)[i] = Heading(m)[i]
         /\ SubSeq(Content(m), Len(Heading(m)) + 1, Len(Content(m)))
              = Objects(m)
  <1> DEFINE a == Heading(m)
             b == Objects(m)
  <1>1. a \in Seq(Byte) /\ b \in Seq(Byte)
    BY HeadingOf, ObjectsBytes
  <1>2. Content(m) = a \o b
    BY DEF Content
  <1> HIDE DEF a, b
  <1>3. /\ a \o b \in Seq(Byte) /\ Len(a \o b) = Len(a) + Len(b)
        /\ \A i \in 1..Len(a) + Len(b) :
             (a \o b)[i] = IF i <= Len(a) THEN a[i] ELSE b[i - Len(a)]
    BY <1>1, ConcatProperties
  <1>4. SubSeq(a \o b, Len(a) + 1, Len(a) + Len(b)) = b
    BY <1>1, SubSeqOfConcat2
  <1>5. \A i \in 1..Len(a) : (a \o b)[i] = a[i]
    BY <1>1, <1>3
  <1> QED
    BY <1>2, <1>3, <1>4, <1>5 DEF a, b

LEMMA RefusalNotParsed == ~Parses(Request)
  <1>1. Size \in Nat /\ Size > 0 /\ Len(Request) = 2 * Size
    BY Constants, RequestBytes
  <1>2. 2 \in 1..Len(Request) /\ 2 \in 1..2 * Size
    BY <1>1
  <1>3. Request[2] = SNMP_NULL
    BY <1>2 DEF Request, Size
  <1>4. ~HasInteger(Request[2])
    BY <1>3 DEF HasInteger, SNMP_NULL, SNMP_INTEGER
  <1> QED
    BY <1>2, <1>4 DEF Parses

\* What is parsed are the lamps of the message.
LEMMA ObjectsParsed ==
  ASSUME NEW m \in Message, ~m.refused
  PROVE  Parsed(Objects(m)) = Lamp(m.version)
  <1> DEFINE s == Objects(m)
             At(g) == {i \in 1..Len(s) : i % 3 = 1 /\ s[i] = Groups[g]}
  <1>1. /\ Size \in Nat /\ m.version \in Version
        /\ \A g, h \in 1..Size : Groups[g] = Groups[h] => g = h
    BY Constants DEF Message
  <1>2. Len(s) = 3 * Size
    BY ObjectsBytes
  <1>3. ASSUME NEW g \in 1..Size
        PROVE  At(g) = {3 * g - 2} /\ s[3 * g] = Lamp(m.version)[g]
    <2>1. /\ 3 * g - 2 \in 1..3 * Size /\ (3 * g - 2) % 3 = 1
          /\ (3 * g - 2 + 2) \div 3 = g
      BY <1>1
    <2>2. s[3 * g - 2] = Groups[g]
      <3> DEFINE k == 3 * g - 2
      <3>1. k \in 1..3 * Size /\ k % 3 = 1 /\ (k + 2) \div 3 = g
        BY <2>1
      <3> HIDE DEF k
      <3>2. s[k] = Groups[g]
        BY <3>1, ObjectsOf
      <3> QED
        BY <3>2 DEF k
    <2>3. ASSUME NEW i \in 1..3 * Size, i % 3 = 1, s[i] = Groups[g]
          PROVE  i = 3 * g - 2
      <3>1. s[i] = Groups[(i + 2) \div 3]
        BY <2>3, ObjectsOf
      <3>2. (i + 2) \div 3 \in 1..Size
        BY <1>1, <2>3
      <3>3. (i + 2) \div 3 = g
        BY <1>1, <2>3, <3>1, <3>2
      <3> QED
        BY <1>1, <2>3, <3>3
    <2>4. /\ 3 * g \in 1..3 * Size /\ (3 * g) % 3 = 0 /\ (3 * g) \div 3 = g
      BY <1>1
    <2>5. s[3 * g] = Lamp(m.version)[g]
      <3> DEFINE k == 3 * g
      <3>1. k \in 1..3 * Size /\ k % 3 = 0 /\ k \div 3 = g
        BY <2>4
      <3> HIDE DEF k
      <3>2. s[k] = Lamp(m.version)[g]
        BY <3>1, ObjectsOf
      <3> QED
        BY <3>2 DEF k
    <2>6. At(g) = {3 * g - 2}
      <3> HIDE DEF s
      <3> QED
        BY <1>2, <2>1, <2>2, <2>3
    <2> QED
      BY <2>5, <2>6
  <1>4. ASSUME NEW g \in 1..Size
        PROVE  (IF At(g) = {} THEN 0
                ELSE s[2 + CHOOSE i \in At(g) : \A j \in At(g) : j <= i])
               = Lamp(m.version)[g]
    <2> DEFINE c == CHOOSE i \in At(g) : \A j \in At(g) : j <= i
    <2>1. At(g) = {3 * g - 2} /\ s[3 * g] = Lamp(m.version)[g]
      BY <1>3
    <2> HIDE DEF At, s
    <2>2. \E i \in At(g) : \A j \in At(g) : j <= i
      BY <1>1, <2>1
    <2>3. c \in At(g)
      BY <2>2
    <2>4. 2 + c = 3 * g
      BY <1>1, <2>1, <2>3
    <2> QED
      BY <2>1, <2>4
  <1>5. Parsed(s) = [g \in 1..Size |->
                       IF At(g) = {} THEN 0
                       ELSE s[2 + CHOOSE i \in At(g) :
                                    \A j \in At(g) : j <= i]]
    BY DEF Parsed, Size
  <1>6. Lamp(m.version) = [g \in 1..Size |-> Lamp(m.version)[g]]
    BY <1>1, Constants
  <1> HIDE DEF At, s
  <1>7. Parsed(s) = Lamp(m.version)
    BY <1>4, <1>5, <1>6
  <1> QED
    BY <1>7 DEF s

\* What passes the check sequence and is parsed is what was sent.
LEMMA GoodPacket ==
  ASSUME NEW m \in Message, NEW b, b = Content(m),
         NEW packet,
         packet = SubSeq(b, HeadOf(b[5]) + 1, Len(b)), Parses(packet)
  PROVE  Parsed(packet) = Lamp(m.version)
  <1>1. Len(Heading(m)) >= 5
    BY HeadingOf, LengthFits
  <1>2. b[5] = Heading(m)[5]
    BY <1>1, ContentOf, HeadingOf
  <1>3. packet = Objects(m)
    BY <1>2, HeadIsHeading, ContentOf
  <1>4. ~m.refused
    BY <1>3, RefusalNotParsed DEF Objects
  <1> QED
    BY <1>3, <1>4, ObjectsParsed

-----------------------------------------------------------------------------
(* What the database has.                                                  *)

\* Where the reader is in a message it may take for another; the bytes before
\* the objects are counted from the first byte of the length.
HeadInv ==
  /\ pc = "header" => Len(buf) < 3
  /\ pc = "seq" => Len(buf) = 3
  /\ pc = "count" => Len(buf) = 4
  /\ pc = "count_one" => Len(buf) = 5 /\ HeadOf(buf[5]) = 6
  /\ pc = "count_high" => Len(buf) = 5 /\ HeadOf(buf[5]) = 7
  /\ pc = "count_low" => Len(buf) = 6 /\ HeadOf(buf[5]) = 7
  /\ pc \in {"body", "fcs"} => Len(buf) >= 5 /\ head = HeadOf(buf[5])

TypeInv ==
  /\ shown \in Version /\ wide \in Wide
  /\ line \in Seq(Tokens(shown))
  /\ buf \in Seq(0 .. FCS)

DbInv == TypeInv /\ HeadInv /\ DbIsShown

\* A read takes the first of what is on the line.
LEMMA OneRead ==
  ASSUME TypeInv, line # <<>>, Taken
  PROVE  /\ shown' \in Version /\ wide' \in Wide
         /\ line' \in Seq(Tokens(shown'))
         /\ Head(line) \in Tokens(shown) /\ Got \in 0 .. FCS
         /\ Value \in 0 .. FCS
  <1> DEFINE T == Tokens(shown)
  <1>1. line \in Seq(T) /\ shown' = shown /\ wide' = wide /\ line' = Tail(line)
    BY DEF TypeInv, Taken, setting
  <1>2. Head(line) \in T
    <2> HIDE DEF T
    <2> QED
      BY <1>1
  <1>3. Tail(line) \in Seq(T)
    <2> HIDE DEF T
    <2> QED
      BY <1>1
  <1>4. Got \in 0 .. FCS
    <2>1. \A t \in T : t.byte \in Byte \/ t.byte = FCS
      BY DEF Tokens, Plain, Sum
    <2> QED
      BY <1>2, <2>1 DEF Got, Byte, FCS
  <1>5. Value \in 0 .. FCS
    BY <1>4 DEF Value, FLAG, ESCAPE, FCS
  <1>6. line' \in Seq(Tokens(shown'))
    BY <1>1, <1>3
  <1> QED
    BY <1>1, <1>2, <1>4, <1>5, <1>6 DEF TypeInv

LEMMA Appended ==
  ASSUME NEW s \in Seq(0 .. FCS), NEW e \in 0 .. FCS
  PROVE  /\ Append(s, e) \in Seq(0 .. FCS) /\ Len(s) \in Nat
         /\ Len(Append(s, e)) = Len(s) + 1
  <1> DEFINE B == 0 .. FCS
  <1>1. s \in Seq(B) /\ e \in B
    OBVIOUS
  <1> HIDE DEF B
  <1>2. /\ Append(s, e) \in Seq(B) /\ Len(s) \in Nat
        /\ Len(Append(s, e)) = Len(s) + 1
    BY <1>1
  <1> QED
    BY <1>2 DEF B

LEMMA BufGrows ==
  ASSUME TypeInv, Value \in 0 .. FCS, buf' = Append(buf, Value)
  PROVE  /\ buf' \in Seq(0 .. FCS) /\ Len(buf') = Len(buf) + 1
         /\ Len(buf) \in Nat /\ buf'[Len(buf) + 1] = Value
         /\ \A i \in 1..Len(buf) : buf'[i] = buf[i]
  BY DEF TypeInv

LEMMA ReadsKeepType ==
  ASSUME TypeInv,
         \/ Hunt \/ Resync \/ EscapeCharacter \/ Address \/ PmppBytes
         \/ SequenceByte \/ Count \/ CountOne \/ CountHigh \/ CountLow \/ Body
         \/ CheckSum \/ EndFlag
  PROVE  TypeInv'
  <1>1. line # <<>> /\ Taken
    BY DEF Arrived, Collapsed, Hunt, Resync, EscapeCharacter, Address,
       PmppBytes, SequenceByte, Count, CountOne, CountHigh, CountLow, Body,
       CheckSum, EndFlag
  <1>2. /\ shown' \in Version /\ wide' \in Wide
        /\ line' \in Seq(Tokens(shown')) /\ Got \in 0 .. FCS
        /\ Value \in 0 .. FCS
    BY <1>1, OneRead
  <1>3. \/ buf' = <<>> \/ buf' = buf \/ buf' = <<Value>>
        \/ buf' = Append(buf, Value) \/ buf' = Append(buf, Got)
    BY DEF Hunt, Resync, EscapeCharacter, Address,
       PmppBytes, SequenceByte, Count, CountOne, CountHigh, CountLow, Body,
       CheckSum, EndFlag
  <1>4. buf' \in Seq(0 .. FCS)
    <2>1. buf \in Seq(0 .. FCS) /\ <<>> \in Seq(0 .. FCS)
      BY DEF TypeInv
    <2>2. <<Value>> \in Seq(0 .. FCS)
      BY <1>2
    <2>3. /\ Append(buf, Value) \in Seq(0 .. FCS)
          /\ Append(buf, Got) \in Seq(0 .. FCS)
      BY <1>2, <2>1, Appended
    <2> QED
      BY <1>3, <2>1, <2>2, <2>3
  <1> QED
    BY <1>2, <1>4 DEF TypeInv

LEMMA ReadsKeepHead ==
  ASSUME TypeInv, HeadInv,
         \/ Hunt \/ Resync \/ EscapeCharacter \/ Address \/ PmppBytes
         \/ SequenceByte \/ Count \/ CountOne \/ CountHigh \/ CountLow \/ Body
         \/ CheckSum \/ EndFlag
  PROVE  HeadInv'
  <1>1. line # <<>> /\ Taken
    BY DEF Arrived, Collapsed, Hunt, Resync, EscapeCharacter, Address,
       PmppBytes, SequenceByte, Count, CountOne, CountHigh, CountLow, Body,
       CheckSum, EndFlag
  <1>2. Value \in 0 .. FCS /\ Got \in 0 .. FCS
    BY <1>1, OneRead
  <1>3. CASE Hunt
    BY <1>3 DEF Hunt, HeadInv
  <1>4. CASE Resync
    BY <1>4 DEF Resync, HeadInv
  <1>5. CASE EscapeCharacter
    BY <1>5 DEF EscapeCharacter, HeadInv
  <1>6. CASE Address
    <2>1. pc' = "header" /\ Len(buf') = 1
      BY <1>6 DEF Address
    <2> QED
      BY <2>1 DEF HeadInv
  <1>7. CASE PmppBytes
    <2>1. pc = "header" /\ buf' = Append(buf, Value)
      BY <1>7 DEF PmppBytes, Collapsed, Arrived
    <2>2. /\ Len(buf') = Len(buf) + 1 /\ Len(buf) \in Nat
          /\ buf'[Len(buf) + 1] = Value
          /\ \A i \in 1..Len(buf) : buf'[i] = buf[i]
      BY <1>2, <2>1, BufGrows
    <2>3. Len(buf) < 3 /\ Len(buf') = Len(buf) + 1 /\ Len(buf) \in Nat
      BY <2>2, <2>1 DEF HeadInv
    <2>4. Len(PmppHeader) = 3
      BY DEF PmppHeader
    <2>5. \/ Len(buf') < 3 /\ pc' = "header"
          \/ ~(Len(buf') < 3) /\ pc' \in {"seq", "select", "done"}
      BY <1>7, <2>1, <2>4 DEF PmppBytes, Turn
    <2> QED
      BY <2>3, <2>5 DEF HeadInv
  <1>8. CASE SequenceByte
    <2>1. Len(buf) = 3
      BY <1>8 DEF SequenceByte, Arrived, HeadInv
    <2>2. \/ pc' = "count" /\ buf' = Append(buf, Got)
          \/ pc' \in {"select", "done"}
      BY <1>8 DEF SequenceByte, Turn
    <2>3. Len(Append(buf, Got)) = Len(buf) + 1
      BY <1>2, Appended DEF TypeInv
    <2>4. buf' = Append(buf, Got) => Len(buf') = 4
      BY <2>1, <2>3
    <2> QED
      BY <2>2, <2>4 DEF HeadInv
  <1>9. CASE Count
    <2>1. pc = "count" /\ buf' = Append(buf, Value)
      BY <1>9 DEF Count, Collapsed, Arrived
    <2>2. /\ Len(buf') = Len(buf) + 1 /\ Len(buf) \in Nat
          /\ buf'[Len(buf) + 1] = Value
          /\ \A i \in 1..Len(buf) : buf'[i] = buf[i]
      BY <1>2, <2>1, BufGrows
    <2>3. Len(buf) = 4
      BY <2>1 DEF HeadInv
    <2>4. Len(buf') = 5 /\ buf'[5] = Value
      BY <2>2, <2>3
    <2>5. Len(buf) = 4 /\ Len(buf') = 5 /\ buf'[5] = Value
      BY <2>3, <2>4
    <2>6. CASE Value < SNMP_MULTI_BYTE_COUNT
      <3>1. HeadOf(Value) = 5
        BY <2>6 DEF HeadOf
      <3>2. pc' \in {"body", "fcs"} /\ head' = 5
        BY <1>9, <2>5, <2>6 DEF Count, Expect
      <3> QED
        BY <2>5, <3>1, <3>2 DEF HeadInv
    <2>7. CASE ~(Value < SNMP_MULTI_BYTE_COUNT) /\ Value % 2 = 1
      <3>1. HeadOf(Value) = 6
        BY <2>7 DEF HeadOf
      <3>2. pc' = "count_one"
        BY <1>9, <2>7 DEF Count
      <3> QED
        BY <2>5, <3>1, <3>2 DEF HeadInv
    <2>8. CASE /\ ~(Value < SNMP_MULTI_BYTE_COUNT) /\ Value % 2 # 1
               /\ (Value \div 2) % 2 = 1
      <3>1. HeadOf(Value) = 7
        BY <2>8 DEF HeadOf
      <3>2. pc' = "count_high"
        BY <1>9, <2>8 DEF Count
      <3> QED
        BY <2>5, <3>1, <3>2 DEF HeadInv
    <2>9. CASE /\ ~(Value < SNMP_MULTI_BYTE_COUNT) /\ Value % 2 # 1
               /\ (Value \div 2) % 2 # 1
      <3>1. HeadOf(Value) = 5
        BY <2>9 DEF HeadOf
      <3>2. pc' \in {"body", "fcs"} /\ head' = 5
        BY <1>9, <2>5, <2>9 DEF Count, Expect
      <3> QED
        BY <2>5, <3>1, <3>2 DEF HeadInv
    <2> QED
      BY <2>6, <2>7, <2>8, <2>9
  <1>10. CASE CountOne
    <2>1. pc = "count_one" /\ buf' = Append(buf, Value)
      BY <1>10 DEF CountOne, Collapsed, Arrived
    <2>2. /\ Len(buf') = Len(buf) + 1 /\ Len(buf) \in Nat
          /\ buf'[Len(buf) + 1] = Value
          /\ \A i \in 1..Len(buf) : buf'[i] = buf[i]
      BY <1>2, <2>1, BufGrows
    <2>3. Len(buf) = 5 /\ HeadOf(buf[5]) = 6
      BY <2>1 DEF HeadInv
    <2>4. Len(buf') = 6 /\ buf'[5] = buf[5]
      BY <2>2, <2>3
    <2>5. Len(buf) = 5 /\ Len(buf') = 6 /\ HeadOf(buf'[5]) = 6
      BY <2>3, <2>4
    <2>6. pc' \in {"body", "fcs"} /\ head' = 6
      BY <1>10, <2>5 DEF CountOne, Expect
    <2> QED
      BY <2>5, <2>6 DEF HeadInv
  <1>11. CASE CountHigh
    <2>1. pc = "count_high" /\ pc' = "count_low" /\ buf' = Append(buf, Value)
      BY <1>11 DEF CountHigh, Collapsed, Arrived
    <2>2. /\ Len(buf') = Len(buf) + 1 /\ Len(buf) \in Nat
          /\ buf'[Len(buf) + 1] = Value
          /\ \A i \in 1..Len(buf) : buf'[i] = buf[i]
      BY <1>2, <2>1, BufGrows
    <2>3. Len(buf) = 5 /\ HeadOf(buf[5]) = 7
      BY <2>1 DEF HeadInv
    <2>4. Len(buf') = 6 /\ buf'[5] = buf[5]
      BY <2>2, <2>3
    <2>5. Len(buf) = 5 /\ Len(buf') = 6 /\ HeadOf(buf'[5]) = 7
      BY <2>3, <2>4
    <2> QED
      BY <2>1, <2>5 DEF HeadInv
  <1>12. CASE CountLow
    <2>1. pc = "count_low" /\ buf' = Append(buf, Value)
      BY <1>12 DEF CountLow, Collapsed, Arrived
    <2>2. /\ Len(buf') = Len(buf) + 1 /\ Len(buf) \in Nat
          /\ buf'[Len(buf) + 1] = Value
          /\ \A i \in 1..Len(buf) : buf'[i] = buf[i]
      BY <1>2, <2>1, BufGrows
    <2>3. Len(buf) = 6 /\ HeadOf(buf[5]) = 7
      BY <2>1 DEF HeadInv
    <2>4. Len(buf') = 7 /\ buf'[5] = buf[5]
      BY <2>2, <2>3
    <2>5. Len(buf) = 6 /\ Len(buf') = 7 /\ HeadOf(buf'[5]) = 7
      BY <2>3, <2>4
    <2>6. pc' \in {"body", "fcs"} /\ head' = 7
      BY <1>12, <2>5 DEF CountLow, Expect
    <2> QED
      BY <2>5, <2>6 DEF HeadInv
  <1>13. CASE Body
    <2>1. /\ pc = "body" /\ buf' = Append(buf, Value) /\ head' = head
          /\ pc' \in {"body", "fcs"}
      BY <1>13 DEF Body, Collapsed, Arrived
    <2>2. /\ Len(buf') = Len(buf) + 1 /\ Len(buf) \in Nat
          /\ buf'[Len(buf) + 1] = Value
          /\ \A i \in 1..Len(buf) : buf'[i] = buf[i]
      BY <1>2, <2>1, BufGrows
    <2>3. Len(buf) >= 5 /\ Len(buf') >= 5 /\ buf'[5] = buf[5]
      BY <2>2, <2>1 DEF HeadInv
    <2> QED
      BY <2>1, <2>3 DEF HeadInv
  <1>14. CASE CheckSum
    BY <1>14 DEF CheckSum, HeadInv
  <1>15. CASE EndFlag
    BY <1>15 DEF EndFlag, Turn, HeadInv
  <1> QED
    BY <1>3, <1>4, <1>5, <1>6, <1>7, <1>8, <1>9, <1>10, <1>11, <1>12, <1>13,
       <1>14, <1>15

\* Only a check sequence that fits lets anything into the database.
LEMMA ReadsKeepDb ==
  ASSUME DbInv,
         \/ Hunt \/ Resync \/ EscapeCharacter \/ Address \/ PmppBytes
         \/ SequenceByte \/ Count \/ CountOne \/ CountHigh \/ CountLow \/ Body
         \/ CheckSum \/ EndFlag
  PROVE  DbIsShown'
  <1>1. line # <<>> /\ Taken
    BY DEF Arrived, Collapsed, Hunt, Resync, EscapeCharacter, Address,
       PmppBytes, SequenceByte, Count, CountOne, CountHigh, CountLow, Body,
       CheckSum, EndFlag
  <1>2. shown' = shown /\ Head(line) \in Tokens(shown)
    BY <1>1, OneRead DEF DbInv, Taken
  <1>3. CASE db_atsc' = db_atsc
    BY <1>2, <1>3 DEF DbInv, DbIsShown
  <1>4. CASE db_atsc' # db_atsc
    <2> DEFINE packet == SubSeq(buf, head + 1, Len(buf))
               m == Head(line).sums
    <2>1. CheckSum
      BY <1>4 DEF Hunt, Resync, EscapeCharacter, Address, PmppBytes,
         SequenceByte, Count, CountOne, CountHigh, CountLow, Body, EndFlag
    <2>2. /\ pc = "fcs" /\ Fits(buf, Head(line)) /\ Parses(packet)
          /\ db_atsc' = Parsed(packet)
      BY <1>4, <2>1 DEF CheckSum, Collapsed, Arrived
    <2>3. Head(line).byte = FCS /\ buf = Content(m)
      BY <2>2 DEF Fits
    <2>4. m \in Message /\ m.version <= shown
      <3>1. \A b \in Byte : Plain(b).byte # FCS
        BY DEF Plain, Byte, FCS
      <3>2. \A k : Sum(k).sums = k
        BY DEF Sum
      <3> QED
        BY <1>2, <2>3, <3>1, <3>2 DEF Tokens
    <2>5. packet = SubSeq(buf, HeadOf(buf[5]) + 1, Len(buf))
      BY <2>2 DEF DbInv, HeadInv
    <2> HIDE DEF packet, m
    <2>6. Parsed(packet) = Lamp(m.version)
      BY <2>2, <2>3, <2>4, <2>5, GoodPacket
    <2>7. m.version \in 0 .. shown
      BY <2>4 DEF DbInv, TypeInv, Message, Version, MaxChanges
    <2> QED
      BY <1>2, <2>2, <2>6, <2>7 DEF DbIsShown
  <1> QED
    BY <1>3, <1>4

LEMMA MoreTokens ==
  ASSUME NEW v \in Int, NEW s \in Seq(Tokens(v))
  PROVE  s \in Seq(Tokens(v + 1))
  <1>1. Tokens(v) \subseteq Tokens(v + 1)
    <2>1. \A m \in Message : m.version <= v => m.version <= v + 1
      <3>1. \A m \in Message : m.version \in Int
        BY Constants DEF Message, Version
      <3> QED
        BY <3>1
    <2> QED
      BY <2>1 DEF Tokens
  <1> DEFINE T == Tokens(v)
             U == Tokens(v + 1)
  <1>2. T \subseteq U /\ s \in Seq(T)
    BY <1>1
  <1> HIDE DEF T, U
  <1>3. s \in Seq(U)
    BY <1>2, SeqMonotonic
  <1> QED
    BY <1>3 DEF U

\* Whatever is answered, and whatever byte of it is hit.
LEMMA AnswersAreTokens ==
  ASSUME TypeInv, Answer \/ Refuse \/ AnswerHit
  PROVE  line' \in Seq(Tokens(shown))
  <1> DEFINE T == Tokens(shown)
             frame == Frame(Current)
  <1>1. line \in Seq(T) /\ shown \in Int
    BY Constants DEF TypeInv, Version
  <1>2. ASSUME NEW r \in BOOLEAN
        PROVE  Frame([Current EXCEPT !.refused = r]) \in Seq(T)
    <2> DEFINE m == [Current EXCEPT !.refused = r]
    <2>1. m = [version |-> shown, refused |-> r, wide |-> wide]
      BY DEF Current
    <2>2. m \in Message /\ m.version <= shown
      BY <1>1, <2>1 DEF Message, TypeInv
    <2> HIDE DEF m
    <2>3. Frame(m) \in Seq(T)
      BY <1>1, <2>2, FrameTokens
    <2> QED
      BY <2>3 DEF m
  <1>3. frame \in Seq(T)
    <2>1. \A r \in BOOLEAN : [Current EXCEPT !.refused = r]
            = [version |-> shown, refused |-> r, wide |-> wide]
      BY DEF Current
    <2>2. [Current EXCEPT !.refused = FALSE] = Current
      BY <2>1, Zenon DEF Current
    <2> HIDE DEF T
    <2> QED
      BY <1>2, <2>2
  <1>4. \A b \in Junk : Plain(b) \in T
    BY PlainIsToken, Constants
  <1> HIDE DEF T
  <1>5. CASE Answer
    BY <1>1, <1>3, <1>5, ConcatProperties DEF Answer, T
  <1>6. CASE Refuse
    <2>1. Frame([Current EXCEPT !.refused = TRUE]) \in Seq(T)
      BY <1>2
    <2> QED
      BY <1>1, <1>6, <2>1, ConcatProperties DEF Refuse, T
  <1>7. CASE AnswerHit
    <2>1. PICK i \in 1..Len(frame) :
            \/ line' = line \o RemoveAt(frame, i)
            \/ \E b \in Junk : line' = line \o [frame EXCEPT ![i] = Plain(b)]
      BY <1>7 DEF AnswerHit
    <2> HIDE DEF frame
    <2>2. RemoveAt(frame, i) \in Seq(T)
      <3>1. /\ \A k \in 1 .. i - 1 : frame[k] \in T
            /\ \A k \in i + 1 .. Len(frame) : frame[k] \in T
        BY <1>3
      <3>2. /\ SubSeq(frame, 1, i - 1) \in Seq(T)
            /\ SubSeq(frame, i + 1, Len(frame)) \in Seq(T)
        BY <1>3, <3>1, SubSeqProperties
      <3> QED
        BY <3>2, ConcatProperties DEF RemoveAt
    <2>3. ASSUME NEW b \in Junk
          PROVE  [frame EXCEPT ![i] = Plain(b)] \in Seq(T)
      BY <1>3, <1>4, ExceptSeq
    <2>4. \/ line' = line \o RemoveAt(frame, i)
          \/ \E b \in Junk : line' = line \o [frame EXCEPT ![i] = Plain(b)]
      BY <2>1
    <2>5. line \o RemoveAt(frame, i) \in Seq(T)
      BY <1>1, <2>2, ConcatProperties
    <2>6. \A b \in Junk : line \o [frame EXCEPT ![i] = Plain(b)] \in Seq(T)
      BY <1>1, <2>3, ConcatProperties
    <2> QED
      BY <2>4, <2>5, <2>6 DEF T
  <1> QED
    BY <1>5, <1>6, <1>7

LEMMA DbInvInit == Init => DbInv
  <1> SUFFICES ASSUME Init PROVE DbInv
    OBVIOUS
  <1>1. 0 \in Version /\ FLAG \in Byte
    BY Constants DEF Version, FLAG, Byte
  <1> DEFINE T == Tokens(0)
             f == Plain(FLAG)
  <1>2. f \in T
    BY <1>1, PlainIsToken
  <1>3. line = <<>> \/ line = <<f>>
    BY DEF Init
  <1> HIDE DEF T, f
  <1>4. line \in Seq(T)
    <2>1. <<>> \in Seq(T) /\ <<f>> \in Seq(T)
      BY <1>2
    <2> QED
      BY <1>3, <2>1, Zenon
  <1>5. TypeInv
    BY <1>1, <1>4 DEF Init, TypeInv, T
  <1> QED
    BY <1>5 DEF Init, DbInv, HeadInv, DbIsShown

LEMMA DbInvNext == DbInv /\ [Next]_vars => DbInv'
  <1> SUFFICES ASSUME DbInv, [Next]_vars PROVE DbInv'
    OBVIOUS
  <1>1. CASE \/ Hunt \/ Resync \/ EscapeCharacter \/ Address \/ PmppBytes
             \/ SequenceByte \/ Count \/ CountOne \/ CountHigh \/ CountLow
             \/ Body \/ CheckSum \/ EndFlag
    <2>1. TypeInv /\ HeadInv
      BY DEF DbInv
    <2>2. TypeInv'
      BY <1>1, <2>1, ReadsKeepType
    <2>3. HeadInv'
      BY <1>1, <2>1, ReadsKeepHead
    <2>4. DbIsShown'
      BY <1>1, ReadsKeepDb
    <2> QED
      BY <2>2, <2>3, <2>4 DEF DbInv
  <1>2. CASE TimeOut \/ Ready
    <2>1. /\ UNCHANGED <<buf, head, line, shown, db_atsc, wide>>
          /\ pc' \in {"select", "done", "hunt"}
      BY <1>2 DEF TimeOut, Ready, Turn, setting
    <2> QED
      BY <2>1 DEF DbInv, TypeInv, HeadInv, DbIsShown
  <1>3. CASE Answer \/ Refuse \/ AnswerHit
    <2>1. UNCHANGED <<pc, buf, head, shown, db_atsc, wide>>
      BY <1>3 DEF Answer, Refuse, AnswerHit, reader, setting
    <2>2. line' \in Seq(Tokens(shown))
      BY <1>3, AnswersAreTokens DEF DbInv
    <2> QED
      BY <2>1, <2>2 DEF DbInv, TypeInv, HeadInv, DbIsShown
  <1>4. CASE Change
    <2>1. /\ UNCHANGED <<pc, buf, head, line, db_atsc, wide>>
          /\ shown' = shown + 1 /\ shown < MaxChanges
      BY <1>4 DEF Change, reader, setting
    <2>2. shown \in Nat /\ shown' \in Version
      BY <2>1, Constants DEF DbInv, TypeInv, Version
    <2>3. line' \in Seq(Tokens(shown'))
      BY <2>1, <2>2, MoreTokens DEF DbInv, TypeInv
    <2>4. 0 .. shown \subseteq 0 .. shown'
      BY <2>1, <2>2
    <2> QED
      BY <2>1, <2>2, <2>3, <2>4 DEF DbInv, TypeInv, HeadInv, DbIsShown
  <1>5. CASE RequestLost
    <2>1. UNCHANGED <<pc, buf, head, line, shown, db_atsc, wide>>
      BY <1>5 DEF RequestLost, reader, setting
    <2> QED
      BY <2>1 DEF DbInv, TypeInv, HeadInv, DbIsShown
  <1>6. CASE UNCHANGED vars
    <2>1. UNCHANGED <<pc, buf, head, line, shown, db_atsc, wide>>
      BY <1>6 DEF vars, reader, setting
    <2> QED
      BY <2>1 DEF DbInv, TypeInv, HeadInv, DbIsShown
  <1> QED
    BY <1>1, <1>2, <1>3, <1>4, <1>5, <1>6 DEF Next, Program

\* Whatever byte is damaged, lost or taken for another, and wherever the reader
\* is: no lamps get into the database but some the controller showed
\* (receive_message and parse_asc_message).
THEOREM LampsWereShown == Spec => []DbIsShown
  <1>1. Spec => []DbInv
    BY DbInvInit, DbInvNext, PTL DEF Spec
  <1>2. DbInv => DbIsShown
    BY DEF DbInv
  <1> QED
    BY <1>1, <1>2, PTL

-----------------------------------------------------------------------------
(* Where the reader is, while the bytes of a frame keep their places.      *)

\* What a token on the line is to the reader: byte `at` of the message m, 0 the
\* flag before it and the last two the check sequence and the flag after it; or
\* one half of a byte that is escaped.
Label == [m : Message, at : Nat, half : {"whole", "first", "second"}]

Start(m) == Len(Heading(m))
Total(m) == Len(Content(m))

\* A token is what its label says as far as the reader cares: of the objects
\* any byte will do that is no escape character.
Means(lb, token) ==
  /\ lb.at <= Total(lb.m) + 2
  /\ lb.half # "whole" =>
       /\ lb.at \in 1..Total(lb.m)
       /\ lb.at <= Start(lb.m) => Content(lb.m)[lb.at] \in {FLAG, ESCAPE}
  /\ lb.half = "first" => token.byte = ESCAPE
  /\ lb.half = "second" /\ lb.at <= Start(lb.m) =>
       Content(lb.m)[lb.at] =
         IF token.byte = ESCAPE_DELIMITER THEN FLAG ELSE ESCAPE
  /\ lb.half = "whole" =>
       /\ lb.at = 0 => token.byte = FLAG
       /\ lb.at \in 1..Start(lb.m) => token.byte = Content(lb.m)[lb.at]
       /\ lb.at \in 1..Total(lb.m) + 1 => token.byte # ESCAPE

Follows(a, b) ==
  IF a.half = "first"
  THEN b.half = "second" /\ b.at = a.at /\ b.m = a.m
  ELSE /\ b.half # "second"
       /\ IF a.at = Total(a.m) + 2 THEN b.at = 0 ELSE b.at = a.at + 1
       /\ a.at \in 1..Total(a.m) + 1 => b.m = a.m

\* The line ends with the end of a message.
Labelled(l, lab) ==
  /\ lab \in [1..Len(l) -> Label]
  /\ \A k \in 1..Len(l) : Means(lab[k], l[k])
  /\ \A k \in 1..Len(l) - 1 : Follows(lab[k], lab[k + 1])
  /\ Len(l) > 0 => lab[Len(l)].at = Total(lab[Len(l)].m) + 2

Idle == {"select", "hunt", "done"}

\* The byte it waits for when the next one on the line has this label.
Awaits(lb) ==
  IF lb.at = 0 THEN Idle \cup {"second"}
  ELSE IF lb.at = 1 THEN {"second", "address"}
  ELSE IF lb.at < 4 THEN {"header"}
  ELSE IF lb.at = 4 THEN {"seq"}
  ELSE IF lb.at = 5 THEN {"count"}
  ELSE IF lb.at > Total(lb.m) + 1 THEN Idle \cup {"end"}
  ELSE IF lb.at > Total(lb.m) THEN {"fcs"}
  ELSE IF lb.at > Start(lb.m) THEN {"body"}
  ELSE IF lb.m.wide = 1 THEN {"count_one"}
  ELSE IF lb.at = 6 THEN {"count_high"} ELSE {"count_low"}

\* The reader is at the first byte on the line.
ReaderAt(lb) ==
  /\ escaped <=> lb.half = "second"
  /\ pc \in Awaits(lb)
  /\ pc = "body" => need = Total(lb.m) - lb.at + 1
  /\ pc \in Idle /\ lb.at > 0 => Got = FLAG
  /\ lb.at \in 2..Start(lb.m) =>
       /\ Len(buf) = lb.at - 1
       /\ \A k \in 1..lb.at - 1 : buf[k] = Content(lb.m)[k]

ReaderKnows(lab) ==
  /\ Labelled(line, lab)
  /\ line = <<>> => pc \in {"select", "second", "done"} /\ ~escaped
  /\ line # <<>> => ReaderAt(lab[1])

AlignInv == hits \subseteq Harmless => \E lab : ReaderKnows(lab)

LEMMA MessageSizes ==
  ASSUME NEW m \in Message
  PROVE  /\ m.wide \in {0, 1, 2} /\ Start(m) = 5 + m.wide
         /\ Start(m) \in Nat /\ Total(m) \in Nat
         /\ Total(m) = Start(m) + Len(Objects(m)) /\ Total(m) > Start(m)
  BY HeadingOf, LengthFits, ContentOf DEF Start, Total

LEMMA FirstBytes ==
  ASSUME NEW m \in Message
  PROVE  /\ Content(m)[1] = 5 /\ Content(m)[2] = 19
         /\ Content(m)[3] = 193 /\ Content(m)[4] = 48
         /\ m.wide = 0 => Content(m)[5] = Len(Objects(m))
         /\ m.wide = 1 => Content(m)[5] = 129 /\ Content(m)[6] = Len(Objects(m))
         /\ m.wide = 2 => /\ Content(m)[5] = 130
                          /\ Content(m)[6] = Len(Objects(m)) \div 256
                          /\ Content(m)[7] = Len(Objects(m)) % 256
  <1> DEFINE h == Heading(m)
             c == Content(m)
             n == Len(Objects(m))
  <1>1. /\ m.wide \in {0, 1, 2} /\ Len(h) = 5 + m.wide
        /\ \A i \in 1..Len(h) : c[i] = h[i]
    BY MessageSizes, HeadingOf, ContentOf
  <1>2. /\ h[1] = 5 /\ h[2] = 19 /\ h[3] = 193 /\ h[4] = 48
        /\ m.wide = 0 => h[5] = n
        /\ m.wide = 1 => h[5] = 129 /\ h[6] = n
        /\ m.wide = 2 => h[5] = 130 /\ h[6] = n \div 256 /\ h[7] = n % 256
    BY HeadingOf
  <1> HIDE DEF h, c, n
  <1>3. /\ c[1] = h[1] /\ c[2] = h[2] /\ c[3] = h[3] /\ c[4] = h[4]
        /\ c[5] = h[5] /\ (m.wide > 0 => c[6] = h[6])
        /\ m.wide > 1 => c[7] = h[7]
    BY <1>1
  <1>4. /\ c[1] = 5 /\ c[2] = 19 /\ c[3] = 193 /\ c[4] = 48
        /\ m.wide = 0 => c[5] = n
        /\ m.wide = 1 => c[5] = 129 /\ c[6] = n
        /\ m.wide = 2 => c[5] = 130 /\ c[6] = n \div 256 /\ c[7] = n % 256
    BY <1>2, <1>3
  <1> QED
    BY <1>4 DEF c, n

\* Which byte the reader waits for says where it is.
LEMMA PlaceOf ==
  ASSUME NEW a \in Label, pc \in Awaits(a), a.at <= Total(a.m) + 2
  PROVE  /\ pc \in Idle => a.at = 0 \/ a.at = Total(a.m) + 2
         /\ pc = "second" => a.at \in {0, 1}
         /\ pc = "address" => a.at = 1
         /\ pc = "header" => a.at \in {2, 3}
         /\ pc = "seq" => a.at = 4
         /\ pc = "count" => a.at = 5
         /\ pc = "count_one" => a.at = 6 /\ a.m.wide = 1
         /\ pc = "count_high" => a.at = 6 /\ a.m.wide = 2
         /\ pc = "count_low" => a.at = 7 /\ a.m.wide = 2
         /\ pc = "body" => a.at > Start(a.m) /\ a.at <= Total(a.m)
         /\ pc = "fcs" => a.at = Total(a.m) + 1
         /\ pc = "end" => a.at = Total(a.m) + 2
  <1> DEFINE s == Start(a.m)
             t == Total(a.m)
             w == a.m.wide
             at == a.at
  <1>1. /\ w \in {0, 1, 2} /\ s = 5 + w /\ t \in Nat /\ t > s
        /\ at \in Nat /\ at <= t + 2
    BY MessageSizes DEF Label
  <1>2. pc \in
          IF at = 0 THEN Idle \cup {"second"}
          ELSE IF at = 1 THEN {"second", "address"}
          ELSE IF at < 4 THEN {"header"}
          ELSE IF at = 4 THEN {"seq"}
          ELSE IF at = 5 THEN {"count"}
          ELSE IF at > t + 1 THEN Idle \cup {"end"}
          ELSE IF at > t THEN {"fcs"}
          ELSE IF at > s THEN {"body"}
          ELSE IF w = 1 THEN {"count_one"}
          ELSE IF at = 6 THEN {"count_high"} ELSE {"count_low"}
    BY DEF Awaits
  <1> HIDE DEF s, t, w, at
  <1>3. /\ pc \in Idle => at = 0 \/ at = t + 2
        /\ pc = "second" => at \in {0, 1}
        /\ pc = "address" => at = 1
        /\ pc = "header" => at \in {2, 3}
        /\ pc = "seq" => at = 4
        /\ pc = "count" => at = 5
        /\ pc = "count_one" => at = 6 /\ w = 1
        /\ pc = "count_high" => at = 6 /\ w = 2
        /\ pc = "count_low" => at = 7 /\ w = 2
        /\ pc = "body" => at > s /\ at <= t
        /\ pc = "fcs" => at = t + 1
        /\ pc = "end" => at = t + 2
    BY <1>1, <1>2 DEF Idle
  <1> QED
    BY <1>3 DEF s, t, w, at


LEMMA AwaitsAt ==
  ASSUME NEW b \in Label, b.at <= Total(b.m) + 2
  PROVE  /\ b.at = 0 => Awaits(b) = Idle \cup {"second"}
         /\ b.at = 1 => Awaits(b) = {"second", "address"}
         /\ b.at \in {2, 3} => Awaits(b) = {"header"}
         /\ b.at = 4 => Awaits(b) = {"seq"}
         /\ b.at = 5 => Awaits(b) = {"count"}
         /\ b.at = 6 /\ b.m.wide = 1 => Awaits(b) = {"count_one"}
         /\ b.at = 6 /\ b.m.wide = 2 => Awaits(b) = {"count_high"}
         /\ b.at = 7 /\ b.m.wide = 2 => Awaits(b) = {"count_low"}
         /\ b.at > Start(b.m) /\ b.at <= Total(b.m) => Awaits(b) = {"body"}
         /\ b.at = Total(b.m) + 1 => Awaits(b) = {"fcs"}
         /\ b.at = Total(b.m) + 2 => Awaits(b) = Idle \cup {"end"}
  <1> DEFINE s == Start(b.m)
             t == Total(b.m)
             w == b.m.wide
             at == b.at
             aw == Awaits(b)
  <1>1. /\ w \in {0, 1, 2} /\ s = 5 + w /\ t \in Nat /\ t > s
        /\ at \in Nat /\ at <= t + 2
    BY MessageSizes DEF Label
  <1>2. aw =
          IF at = 0 THEN Idle \cup {"second"}
          ELSE IF at = 1 THEN {"second", "address"}
          ELSE IF at < 4 THEN {"header"}
          ELSE IF at = 4 THEN {"seq"}
          ELSE IF at = 5 THEN {"count"}
          ELSE IF at > t + 1 THEN Idle \cup {"end"}
          ELSE IF at > t THEN {"fcs"}
          ELSE IF at > s THEN {"body"}
          ELSE IF w = 1 THEN {"count_one"}
          ELSE IF at = 6 THEN {"count_high"} ELSE {"count_low"}
    BY DEF Awaits
  <1> HIDE DEF s, t, w, at, aw
  <1>3. /\ at = 0 => aw = Idle \cup {"second"}
        /\ at = 1 => aw = {"second", "address"}
        /\ at \in {2, 3} => aw = {"header"}
        /\ at = 4 => aw = {"seq"}
        /\ at = 5 => aw = {"count"}
        /\ at = 6 /\ w = 1 => aw = {"count_one"}
        /\ at = 6 /\ w = 2 => aw = {"count_high"}
        /\ at = 7 /\ w = 2 => aw = {"count_low"}
        /\ at > s /\ at <= t => aw = {"body"}
        /\ at = t + 1 => aw = {"fcs"}
        /\ at = t + 2 => aw = Idle \cup {"end"}
    BY <1>1, <1>2
  <1> QED
    BY <1>3 DEF s, t, w, at, aw

\* The reader is at a, and b comes after a.
Reads(a, b) ==
  /\ a \in Label /\ b \in Label /\ line # <<>>
  /\ Means(a, Head(line)) /\ ReaderAt(a) /\ Follows(a, b)
  /\ b.at <= Total(b.m) + 2

LEMMA ReadsWhole ==
  ASSUME NEW a, NEW b, Reads(a, b), a.half # "first"
  PROVE  /\ a.at \in Nat /\ a.at <= Total(a.m) + 2 /\ b.half # "second"
         /\ a.at \in 1..Start(a.m) => Value = Content(a.m)[a.at]
         /\ ~escaped /\ Got = ESCAPE => a.at = Total(a.m) + 2
         /\ a.at = 0 => Got = FLAG /\ b.at = 1
         /\ a.at = 0 \/ a.at > Total(a.m) => ~escaped
         /\ a.at \in 1..Total(a.m) + 1 => b.at = a.at + 1 /\ b.m = a.m
         /\ a.at = Total(a.m) + 2 => b.at = 0
  <1> DEFINE s == Start(a.m)
             t == Total(a.m)
             at == a.at
             bat == b.at
             c == Content(a.m)[a.at]
  <1>0. a.m \in Message /\ a.at \in Nat
    BY DEF Reads, Label
  <1>1. /\ s \in Nat /\ t \in Nat /\ t > s /\ at \in Nat
    BY <1>0, MessageSizes
  <1>2. /\ at <= t + 2
        /\ a.half # "whole" =>
             at \in 1..t /\ (at <= s => c \in {FLAG, ESCAPE})
        /\ a.half = "second" /\ at <= s =>
             c = IF Got = ESCAPE_DELIMITER THEN FLAG ELSE ESCAPE
        /\ a.half = "whole" =>
             /\ at = 0 => Got = FLAG
             /\ at \in 1..s => Got = c
             /\ at \in 1..t + 1 => Got # ESCAPE
    BY DEF Reads, Means, Got
  <1>3. (escaped <=> a.half = "second") /\ a.half \in {"whole", "second"}
    BY DEF Reads, ReaderAt, Label
  <1>4. /\ b.half # "second"
        /\ IF at = t + 2 THEN bat = 0 ELSE bat = at + 1
        /\ at \in 1..t + 1 => b.m = a.m
    BY DEF Reads, Follows
  <1>5. ESCAPE # FLAG
    BY DEF ESCAPE, FLAG
  <1> HIDE DEF s, t, at, bat, c
  <1>6. at \in 1..s => Value = c
    BY <1>1, <1>2, <1>3 DEF Value
  <1>7. ~escaped /\ Got = ESCAPE => at = t + 2
    BY <1>1, <1>2, <1>3, <1>5
  <1>8. /\ at = 0 => Got = FLAG /\ bat = 1
        /\ at = 0 \/ at > t => ~escaped
        /\ at \in 1..t + 1 => bat = at + 1 /\ b.m = a.m
        /\ at = t + 2 => bat = 0
    BY <1>1, <1>2, <1>3, <1>4
  <1> QED
    BY <1>1, <1>2, <1>4, <1>6, <1>7, <1>8 DEF s, t, at, bat, c

\* One more byte of the heading is in the buffer.
LEMMA ReadsHeading ==
  ASSUME TypeInv, NEW a, NEW b, Reads(a, b), a.half # "first",
         a.at \in 2..Start(a.m), buf' = Append(buf, Value)
  PROVE  /\ Len(buf') = a.at /\ b.at = a.at + 1 /\ b.m = a.m
         /\ \A k \in 1..a.at : buf'[k] = Content(a.m)[k]
         /\ Len(buf) = a.at - 1
  <1> DEFINE s == Start(a.m)
             t == Total(a.m)
             at == a.at
             c == Content(a.m)
  <1>1. /\ s \in Nat /\ t \in Nat /\ t > s /\ at \in Nat
    BY MessageSizes DEF Reads, Label
  <1>2. at \in 1..s /\ at \in 1..t + 1
    BY <1>1
  <1>3. Value = c[at] /\ b.at = at + 1 /\ b.m = a.m
    BY <1>2, ReadsWhole
  <1>4. Len(buf) = at - 1 /\ \A k \in 1..at - 1 : buf[k] = c[k]
    BY DEF Reads, ReaderAt
  <1>5. buf \in Seq(0 .. FCS)
    BY DEF TypeInv
  <1> HIDE DEF s, t, at, c
  <1>6. Len(buf') = at /\ \A k \in 1..at : buf'[k] = c[k]
    <2>1. /\ Len(buf') = Len(buf) + 1 /\ buf'[Len(buf) + 1] = Value
          /\ \A k \in 1..Len(buf) : buf'[k] = buf[k]
      BY <1>5
    <2> QED
      BY <1>1, <1>3, <1>4, <2>1
  <1> QED
    BY <1>3, <1>4, <1>6 DEF at, c

\* The first half of an escaped byte.
LEMMA ReadFirstHalf ==
  ASSUME TypeInv, NEW a, NEW b, Reads(a, b), a.half = "first",
         \/ Hunt \/ Resync \/ EscapeCharacter \/ Address \/ PmppBytes
         \/ SequenceByte \/ Count \/ CountOne \/ CountHigh \/ CountLow \/ Body
         \/ CheckSum \/ EndFlag
  PROVE  ReaderAt(b)'
  <1>0. a \in Label /\ a.m \in Message /\ a.at \in Nat
    BY DEF Reads, Label
  <1>1. /\ Start(a.m) \in Nat /\ Total(a.m) \in Nat
        /\ Total(a.m) > Start(a.m) /\ Start(a.m) > 4
    <2> DEFINE s == Start(a.m)
               t == Total(a.m)
               w == a.m.wide
    <2>1. w \in {0, 1, 2} /\ s = 5 + w /\ t \in Nat /\ t > s
      BY <1>0, MessageSizes
    <2> HIDE DEF s, t, w
    <2>2. s \in Nat /\ t \in Nat /\ t > s /\ s > 4
      BY <2>1
    <2> QED
      BY <2>2 DEF s, t
  <1>2. /\ a.at \in 1..Total(a.m)
        /\ a.at <= Start(a.m) => Content(a.m)[a.at] \in {FLAG, ESCAPE}
        /\ Got = ESCAPE /\ ~escaped
    BY DEF Reads, Means, Got, ReaderAt
  <1>3. a.at # 4
    BY <1>0, <1>1, <1>2, FirstBytes DEF FLAG, ESCAPE
  <1>4. pc \notin Idle \cup {"seq", "end"}
    <2>1. pc \in Awaits(a) /\ a.at <= Total(a.m) + 2
      BY DEF Reads, ReaderAt, Means
    <2>2. /\ pc \in Idle => a.at = 0 \/ a.at = Total(a.m) + 2
          /\ pc = "seq" => a.at = 4
          /\ pc = "end" => a.at = Total(a.m) + 2
      BY <1>0, <2>1, PlaceOf
    <2> QED
      BY <1>1, <1>2, <1>3, <2>2
  <1>5. EscapeCharacter
    BY <1>2, <1>4 DEF Idle, Hunt, Resync, Address, PmppBytes, SequenceByte,
       Count, CountOne, CountHigh, CountLow, Body, CheckSum, EndFlag,
       Collapsed, Arrived, ESCAPE, FLAG
  <1>6. /\ b.half = "second" /\ b.at = a.at /\ b.m = a.m
    BY DEF Reads, Follows
  <1>7. /\ escaped' = TRUE /\ pc' = pc /\ buf' = buf /\ need' = need
    BY <1>5 DEF EscapeCharacter
  <1>8. Awaits(b) = Awaits(a) /\ Awaits(b)' = Awaits(b)
    BY <1>6 DEF Awaits
  <1>9. /\ pc \in Awaits(a)
        /\ pc = "body" => need = Total(a.m) - a.at + 1
        /\ a.at \in 2..Start(a.m) =>
             /\ Len(buf) = a.at - 1
             /\ \A k \in 1..a.at - 1 : buf[k] = Content(a.m)[k]
    BY DEF Reads, ReaderAt
  <1> QED
    BY <1>4, <1>6, <1>7, <1>8, <1>9 DEF ReaderAt

LEMMA HeadingGoesOn ==
  ASSUME NEW b \in Label, b.half # "second", ~escaped',
         pc' \in Awaits(b), pc' \notin Idle \cup {"body"},
         Len(buf') = b.at - 1,
         \A k \in 1..b.at - 1 : buf'[k] = Content(b.m)[k]
  PROVE  ReaderAt(b)'
  <1>1. Awaits(b)' = Awaits(b)
    BY DEF Awaits
  <1> QED
    BY <1>1 DEF ReaderAt

\* A byte of the heading, the last of the escaped ones if it is two.
LEMMA ReadHeading ==
  ASSUME TypeInv, NEW a, NEW b, Reads(a, b), a.half # "first",
         \/ Address \/ PmppBytes \/ SequenceByte \/ Count \/ CountOne
         \/ CountHigh \/ CountLow
  PROVE  ReaderAt(b)'
  <1> DEFINE s == Start(a.m)
             t == Total(a.m)
             w == a.m.wide
             at == a.at
             n == Len(Objects(a.m))
             c == Content(a.m)
  <1>1. a \in Label /\ a.m \in Message /\ b \in Label /\ pc \in Awaits(a)
        /\ b.at <= Total(b.m) + 2
    BY DEF Reads, Label, ReaderAt
  <1>2. /\ w \in {0, 1, 2} /\ s = 5 + w /\ t = s + n /\ n \in Nat /\ n > 0
    BY <1>1, MessageSizes, LengthFits
  <1>3. /\ at \in Nat /\ at <= t + 2 /\ b.half # "second"
        /\ at \in 1..s => Value = c[at]
        /\ ~escaped /\ Got = ESCAPE => at = t + 2
        /\ at = 0 => Got = FLAG /\ b.at = 1
        /\ at = 0 \/ at > t => ~escaped
        /\ at \in 1..t + 1 => b.at = at + 1 /\ b.m = a.m
    BY ReadsWhole
  <1>4. /\ c[1] = 5 /\ c[2] = 19 /\ c[3] = 193 /\ c[4] = 48
        /\ w = 0 => c[5] = n
        /\ w = 1 => c[5] = 129 /\ c[6] = n
        /\ w = 2 => c[5] = 130 /\ c[6] = n \div 256 /\ c[7] = n % 256
    BY <1>1, FirstBytes
  <1>5. /\ w = 0 => n < 128
        /\ w = 1 => n < 256
        /\ w = 2 => n < 65536
    BY <1>1, LengthFits
  <1>6. ASSUME at \in 2..s, buf' = Append(buf, Value)
        PROVE  /\ Len(buf) = at - 1 /\ Len(buf') = at /\ b.at = at + 1
               /\ b.m = a.m /\ \A i \in 1..at : buf'[i] = c[i]
               /\ Len(buf') = b.at - 1
               /\ \A k \in 1..b.at - 1 : buf'[k] = Content(b.m)[k]
    <2>1. /\ Len(buf) = at - 1 /\ Len(buf') = at /\ b.at = at + 1
          /\ b.m = a.m /\ \A i \in 1..at : buf'[i] = c[i]
      BY <1>6, ReadsHeading
    <2>2. b.at - 1 = at
      BY <1>3, <2>1
    <2> QED
      BY <2>1, <2>2
  <1>7. CASE Address
    <2>1. pc \in {"second", "address"}
          /\ (pc = "second" => escaped \/ Got # FLAG)
          /\ escaped' = FALSE /\ buf' = <<Value>> /\ pc' = "header"
      BY <1>7 DEF Address, Collapsed, Arrived
    <2>2. at \in {0, 1} /\ (pc = "address" => at = 1)
      BY <1>1, <1>3, <2>1, PlaceOf
    <2>3. at = 1
      BY <1>3, <2>1, <2>2, <1>2
    <2>4. b.at = 2 /\ b.m = a.m /\ Value = c[1]
      BY <1>2, <1>3, <2>3
    <2>5. Awaits(b) = {"header"}
      BY <1>1, <2>4, AwaitsAt
    <2>6. Len(buf') = 1 /\ buf'[1] = c[1]
      BY <2>1, <2>4
    <2> QED
      BY <1>3, <2>1, <2>4, <2>5, <2>6 DEF ReaderAt, Idle, Awaits
  <1>8. CASE PmppBytes
    <2>1. pc = "header" /\ buf' = Append(buf, Value) /\ escaped' = FALSE
      BY <1>8 DEF PmppBytes, Collapsed, Arrived
    <2>2. at \in {2, 3} /\ at \in 2..s
      BY <1>1, <1>2, <1>3, <2>1, PlaceOf
    <2>3. /\ Len(buf') = at /\ b.at = at + 1 /\ b.m = a.m
          /\ \A i \in 1..at : buf'[i] = c[i]
          /\ Len(buf') = b.at - 1
          /\ \A k \in 1..b.at - 1 : buf'[k] = Content(b.m)[k]
      BY <1>6, <2>1, <2>2
    <2>4. CASE at = 2
      <3>1. pc' = "header"
        BY <1>8, <2>1, <2>3, <2>4 DEF PmppBytes, PmppHeader
      <3>2. Awaits(b) = {"header"}
        BY <1>1, <2>3, <2>4, AwaitsAt
      <3> QED
        BY <1>1, <1>3, <2>1, <2>3, <3>1, <3>2, HeadingGoesOn DEF Idle
    <2>5. CASE at = 3
      <3>1. Tail(buf') = Tail(PmppHeader)
        <4>1. PmppHeader = <<5, 19, 193>>
          BY DEF PmppHeader, DEST_ADDR, PMPP_CTRL_VAL, PMPP_STMF_VAL
        <4>2. Len(buf') = 3 /\ buf'[1] = 5 /\ buf'[2] = 19 /\ buf'[3] = 193
          BY <1>4, <2>3, <2>5
        <4>3. buf \in Seq(0 .. FCS) /\ Value = 193
          <5>1. buf \in Seq(0 .. FCS)
            BY DEF TypeInv
          <5>2. at \in 1..s
            BY ONLY <1>2, <2>5
          <5>3. Value = c[at]
            BY ONLY <1>3, <5>2
          <5> QED
            BY <1>4, <2>5, <5>1, <5>3
        <4>4. Value \in 0 .. FCS
          BY <4>3 DEF FCS
        <4>5. buf' \in Seq(0 .. FCS)
          BY <2>1, <4>3, <4>4, Appended
        <4>6. buf' = <<5, 19, 193>>
          BY <4>2, <4>5
        <4> QED
          BY <4>1, <4>6
      <3>2. pc' = "seq"
        BY <1>8, <2>1, <2>3, <2>5, <3>1 DEF PmppBytes, PmppHeader
      <3>3. Awaits(b) = {"seq"}
        BY <1>1, <2>3, <2>5, AwaitsAt
      <3> QED
        BY <1>1, <1>3, <2>1, <2>3, <3>2, <3>3, HeadingGoesOn DEF Idle
    <2> QED
      BY <2>2, <2>4, <2>5
  <1>9. CASE SequenceByte
    <2>1. pc = "seq" /\ escaped' = escaped
      BY <1>9 DEF SequenceByte, Arrived
    <2>2. at = 4 /\ at \in 2..s /\ at \in 1..s
      BY <1>1, <1>2, <1>3, <2>1, PlaceOf
    <2>3. Got = 48 /\ Value = Got /\ ~escaped
      <3>1. Value = 48
        BY <1>3, <1>4, <2>2
      <3> QED
        BY <3>1 DEF Value, FLAG, ESCAPE
    <2>4. buf' = Append(buf, Value) /\ pc' = "count"
      BY <1>9, <2>3 DEF SequenceByte, SNMP_SEQUENCE
    <2>5. /\ Len(buf') = at /\ b.at = at + 1 /\ b.m = a.m
          /\ Len(buf') = b.at - 1
          /\ \A k \in 1..b.at - 1 : buf'[k] = Content(b.m)[k]
      BY <1>6, <2>2, <2>4
    <2>6. Awaits(b) = {"count"}
      BY <1>1, <2>2, <2>5, AwaitsAt
    <2> QED
      BY <1>1, <1>3, <2>1, <2>3, <2>4, <2>5, <2>6, HeadingGoesOn DEF Idle
  <1>10. CASE Count
    <2>1. pc = "count" /\ buf' = Append(buf, Value) /\ escaped' = FALSE
      BY <1>10 DEF Count, Collapsed, Arrived
    <2>2. at = 5 /\ at \in 2..s /\ at \in 1..s
      BY <1>1, <1>2, <1>3, <2>1, PlaceOf
    <2>3. /\ Len(buf') = at /\ b.at = at + 1 /\ b.m = a.m /\ Value = c[5]
          /\ Len(buf') = b.at - 1
          /\ \A k \in 1..b.at - 1 : buf'[k] = Content(b.m)[k]
      BY <1>3, <1>6, <2>1, <2>2
    <2>4. CASE w = 0
      <3>1. Value = n /\ n < 128
        BY <1>4, <1>5, <2>3, <2>4
      <3>2. pc' = "body" /\ need' = n
        BY <1>2, <1>10, <3>1 DEF Count, Expect, SNMP_MULTI_BYTE_COUNT
      <3>3. Start(b.m) = 5 /\ Total(b.m) = 5 + n /\ b.at = 6
        BY <1>2, <2>2, <2>3, <2>4
      <3>4. b.at > Start(b.m) /\ b.at <= Total(b.m)
        BY <1>2, <3>3
      <3>5. Awaits(b) = {"body"}
        BY <1>1, <3>4, AwaitsAt
      <3>6. need' = Total(b.m) - b.at + 1 /\ ~(b.at \in 2..Start(b.m))
        BY <1>2, <3>2, <3>3
      <3> QED
        BY <1>3, <2>1, <3>2, <3>5, <3>6 DEF ReaderAt, Idle, Awaits
    <2>5. CASE w = 1
      <3>1. Value = 129
        BY <1>4, <2>3, <2>5
      <3>2. pc' = "count_one"
        BY <1>10, <3>1 DEF Count, SNMP_MULTI_BYTE_COUNT
      <3>3. b.at = 6 /\ b.m.wide = 1
        BY <2>2, <2>3, <2>5
      <3>4. Awaits(b) = {"count_one"}
        BY <1>1, <3>3, AwaitsAt
      <3> QED
        BY <1>1, <1>3, <2>1, <2>3, <3>2, <3>4, HeadingGoesOn DEF Idle
    <2>6. CASE w = 2
      <3>1. Value = 130
        BY <1>4, <2>3, <2>6
      <3>2. pc' = "count_high"
        BY <1>10, <3>1 DEF Count, SNMP_MULTI_BYTE_COUNT
      <3>3. b.at = 6 /\ b.m.wide = 2
        BY <2>2, <2>3, <2>6
      <3>4. Awaits(b) = {"count_high"}
        BY <1>1, <3>3, AwaitsAt
      <3> QED
        BY <1>1, <1>3, <2>1, <2>3, <3>2, <3>4, HeadingGoesOn DEF Idle
    <2> QED
      BY <1>2, <2>4, <2>5, <2>6
  <1>11. CASE CountOne
    <2>1. pc = "count_one" /\ buf' = Append(buf, Value) /\ escaped' = FALSE
      BY <1>11 DEF CountOne, Collapsed, Arrived
    <2>2. at = 6 /\ w = 1 /\ at \in 2..s /\ at \in 1..s
      BY <1>1, <1>2, <1>3, <2>1, PlaceOf
    <2>3. b.at = at + 1 /\ b.m = a.m /\ Value = n
      BY <1>3, <1>4, <1>6, <2>1, <2>2
    <2>4. pc' = "body" /\ need' = n
      BY <1>2, <1>11, <2>3 DEF CountOne, Expect
    <2>5. Start(b.m) = 6 /\ Total(b.m) = 6 + n /\ b.at = 7
      BY <1>2, <2>2, <2>3
    <2>6. b.at > Start(b.m) /\ b.at <= Total(b.m)
      BY <1>2, <2>5
    <2>7. Awaits(b) = {"body"}
      BY <1>1, <2>6, AwaitsAt
    <2>8. need' = Total(b.m) - b.at + 1 /\ ~(b.at \in 2..Start(b.m))
      BY <1>2, <2>4, <2>5
    <2> QED
      BY <1>3, <2>1, <2>4, <2>7, <2>8 DEF ReaderAt, Idle, Awaits
  <1>12. CASE CountHigh
    <2>1. /\ pc = "count_high" /\ buf' = Append(buf, Value)
          /\ escaped' = FALSE /\ pc' = "count_low"
      BY <1>12 DEF CountHigh, Collapsed, Arrived
    <2>2. at = 6 /\ w = 2 /\ at \in 2..s
      BY <1>1, <1>2, <1>3, <2>1, PlaceOf
    <2>3. /\ Len(buf') = at /\ b.at = at + 1 /\ b.m = a.m
          /\ \A i \in 1..at : buf'[i] = c[i]
          /\ Len(buf') = b.at - 1
          /\ \A k \in 1..b.at - 1 : buf'[k] = Content(b.m)[k]
      BY <1>6, <2>1, <2>2
    <2>4. Awaits(b) = {"count_low"}
      BY <1>1, <2>2, <2>3, AwaitsAt
    <2> QED
      BY <1>1, <1>3, <2>1, <2>3, <2>4, HeadingGoesOn DEF Idle
  <1>13. CASE CountLow
    <2>1. pc = "count_low" /\ buf' = Append(buf, Value) /\ escaped' = FALSE
      BY <1>13 DEF CountLow, Collapsed, Arrived
    <2>2. at = 7 /\ w = 2 /\ at \in 2..s /\ at \in 1..s
      BY <1>1, <1>2, <1>3, <2>1, PlaceOf
    <2>3. b.at = at + 1 /\ b.m = a.m /\ Value = n % 256 /\ Len(buf) = 6
      BY <1>3, <1>4, <1>6, <2>1, <2>2
    <2>4. buf[6] = n \div 256
      <3>1. \A k \in 1..6 : buf[k] = c[k]
        BY <2>2 DEF Reads, ReaderAt
      <3> QED
        BY <1>4, <2>2, <3>1
    <2>5. 256 * Last(buf) + Value = n
      BY <1>2, <2>3, <2>4 DEF Last
    <2>6. pc' = "body" /\ need' = n
      BY <1>2, <1>13, <2>5 DEF CountLow, Expect
    <2>7. Start(b.m) = 7 /\ Total(b.m) = 7 + n /\ b.at = 8
      BY <1>2, <2>2, <2>3
    <2>8. b.at > Start(b.m) /\ b.at <= Total(b.m)
      BY <1>2, <2>7
    <2>9. Awaits(b) = {"body"}
      BY <1>1, <2>8, AwaitsAt
    <2>10. need' = Total(b.m) - b.at + 1 /\ ~(b.at \in 2..Start(b.m))
      BY <1>2, <2>6, <2>7
    <2> QED
      BY <1>3, <2>1, <2>6, <2>9, <2>10 DEF ReaderAt, Idle, Awaits
  <1> QED
    BY <1>7, <1>8, <1>9, <1>10, <1>11, <1>12, <1>13

\* A byte of the objects, a check sequence or a flag.
LEMMA ReadOther ==
  ASSUME TypeInv, NEW a, NEW b, Reads(a, b), a.half # "first",
         \/ Hunt \/ Resync \/ EscapeCharacter \/ Body \/ CheckSum \/ EndFlag
  PROVE  ReaderAt(b)'
  <1> DEFINE s == Start(a.m)
             t == Total(a.m)
             at == a.at
  <1>1. /\ a \in Label /\ b \in Label /\ pc \in Awaits(a)
        /\ b.at <= Total(b.m) + 2
        /\ pc = "body" => need = t - at + 1
        /\ pc \in Idle /\ at > 0 => Got = FLAG
        /\ a.m \in Message
    BY DEF Reads, Label, ReaderAt
  <1>2. s \in Nat /\ s >= 5 /\ t \in Nat /\ t > s
    <2> DEFINE w == a.m.wide
    <2>1. w \in {0, 1, 2} /\ s = 5 + w /\ t \in Nat /\ t > s
      BY <1>1, MessageSizes
    <2> HIDE DEF s, t, w
    <2> QED
      BY <2>1
  <1>3. /\ at \in Nat /\ at <= t + 2 /\ b.half # "second"
        /\ at \in 1..s => Value = Content(a.m)[at]
        /\ ~escaped /\ Got = ESCAPE => at = t + 2
        /\ at = 0 => Got = FLAG /\ b.at = 1
        /\ at = 0 \/ at > t => ~escaped
        /\ at \in 1..t + 1 => b.at = at + 1 /\ b.m = a.m
        /\ at = t + 2 => b.at = 0
    BY ReadsWhole
  <1>4. /\ pc \in Idle => at = 0 \/ at = t + 2
        /\ pc = "second" => at \in {0, 1}
        /\ pc = "address" => at = 1
        /\ pc = "header" => at \in {2, 3}
        /\ pc = "seq" => at = 4
        /\ pc = "count" => at = 5
        /\ pc = "count_one" => at = 6 /\ a.m.wide = 1
        /\ pc = "count_high" => at = 6 /\ a.m.wide = 2
        /\ pc = "count_low" => at = 7 /\ a.m.wide = 2
        /\ pc = "body" => at > s /\ at <= t
        /\ pc = "fcs" => at = t + 1
        /\ pc = "end" => at = t + 2
    BY <1>1, <1>3, PlaceOf
  <1>5. /\ b.at = 0 => Awaits(b) = Idle \cup {"second"}
        /\ b.at = 1 => Awaits(b) = {"second", "address"}
        /\ b.at > Start(b.m) /\ b.at <= Total(b.m) => Awaits(b) = {"body"}
        /\ b.at = Total(b.m) + 1 => Awaits(b) = {"fcs"}
        /\ b.at = Total(b.m) + 2 => Awaits(b) = Idle \cup {"end"}
    BY <1>1, AwaitsAt
  <1>6. Awaits(b)' = Awaits(b)
    BY DEF Awaits
  <1>7. \A k : b.at \in {0, 1} => ~(b.at \in 2..k)
    OBVIOUS
  <1> HIDE DEF s, t, at
  <1>8. CASE Hunt
    <2>1. pc = "hunt" /\ escaped' = escaped
          /\ pc' = IF Got = FLAG THEN "second" ELSE "hunt"
      BY <1>8 DEF Hunt, Arrived
    <2>2. at = 0 \/ at = t + 2
      BY <1>4, <2>1 DEF Idle
    <2>3. Got = FLAG /\ ~escaped /\ b.at \in {0, 1}
      BY <1>1, <1>2, <1>3, <2>1, <2>2 DEF Idle
    <2>4. "second" \in Awaits(b)
      BY <1>5, <2>3
    <2> QED
      BY <1>3, <1>6, <1>7, <2>1, <2>3, <2>4 DEF ReaderAt, Idle
  <1>9. CASE Resync
    <2>1. /\ pc = "second" /\ escaped' = escaped /\ ~escaped /\ Got = FLAG
          /\ pc' = "address"
      BY <1>9 DEF Resync, Arrived
    <2>2. at # 1
      <3>1. Value = FLAG
        BY <2>1 DEF Value
      <3> QED
        BY <1>1, <1>2, <1>3, <3>1, FirstBytes DEF FLAG, at, s
    <2>3. b.at = 1
      BY <1>3, <1>4, <2>1, <2>2
    <2> QED
      BY <1>3, <1>5, <1>6, <1>7, <2>1, <2>3 DEF ReaderAt, Idle
  <1>10. CASE EscapeCharacter
    <2>1. at = t + 2 /\ pc \in Unescaped
      BY <1>3, <1>10 DEF EscapeCharacter
    <2> QED
      BY <1>2, <1>4, <2>1 DEF Unescaped
  <1>11. CASE Body
    <2>1. /\ pc = "body" /\ escaped' = FALSE /\ need' = need - 1
          /\ pc' = IF need' = 0 THEN "fcs" ELSE "body"
      BY <1>11 DEF Body, Collapsed, Arrived
    <2>2. /\ at > s /\ at <= t /\ need = t - at + 1
          /\ b.at = at + 1 /\ Total(b.m) = t /\ Start(b.m) = s
      <3>1. at > s /\ at <= t /\ need = t - at + 1
        BY <1>1, <1>4, <2>1
      <3>2. b.at = at + 1 /\ b.m = a.m
        BY <1>2, <1>3, <3>1
      <3> QED
        BY <3>1, <3>2 DEF s, t
    <2>3. CASE at = t
      <3>1. need' = 0 /\ b.at = Total(b.m) + 1
        BY <1>2, <2>1, <2>2, <2>3
      <3>2. pc' = "fcs" /\ Awaits(b) = {"fcs"}
        BY <1>5, <2>1, <3>1
      <3>3. ~(b.at \in 2..Start(b.m))
        BY <1>2, <1>3, <2>2
      <3> QED
        BY <1>3, <1>6, <2>1, <3>2, <3>3 DEF ReaderAt, Idle
    <2>4. CASE at # t
      <3>1. /\ need' # 0 /\ need' = Total(b.m) - b.at + 1
            /\ b.at > Start(b.m) /\ b.at <= Total(b.m)
        BY <1>2, <1>3, <2>1, <2>2, <2>4
      <3>2. pc' = "body" /\ Awaits(b) = {"body"}
        BY <1>5, <2>1, <3>1
      <3>3. ~(b.at \in 2..Start(b.m))
        BY <1>2, <1>3, <2>2
      <3> QED
        BY <1>3, <1>6, <2>1, <3>1, <3>2, <3>3 DEF ReaderAt, Idle
    <2> QED
      BY <2>3, <2>4
  <1>12. CASE CheckSum
    <2>1. pc = "fcs" /\ escaped' = FALSE /\ pc' = "end"
      BY <1>12 DEF CheckSum, Collapsed, Arrived
    <2>2. b.at = Total(b.m) + 2 /\ Start(b.m) = s /\ Total(b.m) = t
      BY <1>2, <1>3, <1>4, <2>1 DEF s, t
    <2>3. ~(b.at \in 2..Start(b.m)) /\ Awaits(b) = Idle \cup {"end"}
      BY <1>2, <1>5, <2>2
    <2> QED
      BY <1>3, <1>6, <2>1, <2>3 DEF ReaderAt, Idle
  <1>13. CASE EndFlag
    <2>1. pc = "end" /\ escaped' = escaped /\ pc' \in {"select", "done"}
      BY <1>13 DEF EndFlag, Arrived, Turn
    <2>2. at = t + 2 /\ b.at = 0 /\ ~escaped
      BY <1>2, <1>3, <1>4, <2>1
    <2> QED
      BY <1>3, <1>5, <1>6, <1>7, <2>1, <2>2 DEF ReaderAt, Idle
  <1> QED
    BY <1>8, <1>9, <1>10, <1>11, <1>12, <1>13

\* Nothing but the end of a message is read before nothing.
LEMMA ReadLast ==
  ASSUME TypeInv, NEW a \in Label, Means(a, Head(line)), ReaderAt(a),
         a.at = Total(a.m) + 2,
         \/ Hunt \/ Resync \/ EscapeCharacter \/ Address \/ PmppBytes
         \/ SequenceByte \/ Count \/ CountOne \/ CountHigh \/ CountLow \/ Body
         \/ CheckSum \/ EndFlag
  PROVE  pc' \in {"select", "second", "done"} /\ ~escaped'
  <1> DEFINE s == Start(a.m)
             t == Total(a.m)
             at == a.at
  <1>1. s \in Nat /\ s >= 5 /\ t \in Nat /\ t > s /\ at = t + 2
    <2> DEFINE w == a.m.wide
    <2>1. w \in {0, 1, 2} /\ s = 5 + w /\ t \in Nat /\ t > s
      BY MessageSizes DEF Label
    <2> HIDE DEF s, t, w
    <2>2. s \in Nat /\ s >= 5 /\ t \in Nat /\ t > s
      BY <2>1
    <2> QED
      BY <2>2 DEF t
  <1>2. a.half = "whole" /\ ~escaped
    <2>1. a.half # "whole" => at \in 1..t
      BY DEF Means
    <2> QED
      BY <1>1, <2>1 DEF ReaderAt
  <1>3. pc \in Idle \cup {"end"} /\ (pc \in Idle => Got = FLAG)
    <2>1. pc \in Awaits(a) /\ (pc \in Idle /\ at > 0 => Got = FLAG)
      BY DEF ReaderAt
    <2>2. Awaits(a) = Idle \cup {"end"}
      BY <1>1, AwaitsAt
    <2> QED
      BY <1>1, <2>1, <2>2
  <1>4. CASE Hunt
    BY <1>2, <1>3, <1>4 DEF Hunt, Arrived, Idle
  <1>5. CASE EndFlag
    BY <1>2, <1>5 DEF EndFlag, Turn
  <1> QED
    BY <1>3, <1>4, <1>5 DEF Idle, Unescaped, Resync, EscapeCharacter, Address,
       PmppBytes, SequenceByte, Count, CountOne, CountHigh, CountLow, Body,
       CheckSum, Collapsed, Arrived

\* The labels of what is left when the first token is read.
LEMMA LabelledTail ==
  ASSUME TypeInv, NEW lab, Labelled(line, lab), line # <<>>
  PROVE  /\ Labelled(Tail(line), [k \in 1..Len(line) - 1 |-> lab[k + 1]])
         /\ lab[1] \in Label /\ Means(lab[1], Head(line))
         /\ Tail(line) = <<>> => lab[1].at = Total(lab[1].m) + 2
         /\ Tail(line) # <<>> =>
              /\ lab[2] \in Label /\ Follows(lab[1], lab[2])
              /\ lab[2].at <= Total(lab[2].m) + 2
  <1> DEFINE T == Tokens(shown)
             n == Len(line)
             l == Tail(line)
             g == [k \in 1..n - 1 |-> lab[k + 1]]
  <1>1. line \in Seq(T)
    BY DEF TypeInv
  <1> HIDE DEF T
  <1>2. /\ n \in Nat /\ n > 0 /\ Head(line) = line[1] /\ l \in Seq(T)
        /\ Len(l) = n - 1 /\ \A k \in 1..n - 1 : l[k] = line[k + 1]
        /\ l = <<>> <=> n = 1
    <2>1. /\ n \in Nat /\ n > 0 /\ Head(line) = line[1] /\ l \in Seq(T)
          /\ Len(l) = n - 1 /\ \A k \in 1..n - 1 : l[k] = line[k + 1]
      BY <1>1, HeadTailProperties
    <2> HIDE DEF l, n
    <2>2. l = <<>> <=> Len(l) = 0
      BY <2>1, EmptySeq
    <2> QED
      BY <2>1, <2>2
  <1>3. /\ \A k \in 1..n : lab[k] \in Label /\ Means(lab[k], line[k])
        /\ \A k \in 1..n - 1 : Follows(lab[k], lab[k + 1])
        /\ n > 0 => lab[n].at = Total(lab[n].m) + 2
    BY DEF Labelled
  <1> HIDE DEF n, l
  <1>4. \A k \in 1..n - 1 : k + 1 \in 1..n /\ g[k] = lab[k + 1]
    BY <1>2
  <1>5. /\ g \in [1..Len(l) -> Label]
        /\ \A k \in 1..Len(l) : Means(g[k], l[k])
    BY <1>2, <1>3, <1>4
  <1>6. ASSUME NEW k \in 1..Len(l) - 1 PROVE Follows(g[k], g[k + 1])
    <2>1. /\ k \in 1..n - 1 /\ k + 1 \in 1..n - 1
      BY <1>2
    <2>2. g[k] = lab[k + 1] /\ g[k + 1] = lab[(k + 1) + 1]
      BY <1>4, <2>1
    <2> QED
      BY <1>3, <2>1, <2>2
  <1>7. Len(l) > 0 => g[Len(l)].at = Total(g[Len(l)].m) + 2
    <2> SUFFICES ASSUME Len(l) > 0 PROVE g[Len(l)] = lab[n]
      BY <1>2, <1>3
    <2>1. Len(l) \in 1..n - 1 /\ Len(l) + 1 = n
      BY <1>2
    <2> QED
      BY <1>4, <2>1
  <1>8. Labelled(l, g)
    <2> HIDE DEF g
    <2> QED
      BY <1>5, <1>6, <1>7 DEF Labelled
  <1>9. lab[1] \in Label /\ Means(lab[1], Head(line))
    BY <1>2, <1>3
  <1>10. l = <<>> => lab[1].at = Total(lab[1].m) + 2
    BY <1>2, <1>3
  <1>11. l # <<>> => /\ lab[2] \in Label /\ Follows(lab[1], lab[2])
                     /\ Means(lab[2], line[2])
    <2> SUFFICES ASSUME l # <<>>
                 PROVE  2 \in 1..n /\ 1 \in 1..n - 1 /\ 1 + 1 = 2
      BY <1>3
    <2> QED
      BY <1>2
  <1> QED
    BY <1>8, <1>9, <1>10, <1>11 DEF n, l, Means

LEMMA ReadsAligned ==
  ASSUME TypeInv, NEW lab, ReaderKnows(lab),
         \/ Hunt \/ Resync \/ EscapeCharacter \/ Address \/ PmppBytes
         \/ SequenceByte \/ Count \/ CountOne \/ CountHigh \/ CountLow \/ Body
         \/ CheckSum \/ EndFlag
  PROVE  \E g : ReaderKnows(g)'
  <1> DEFINE a == lab[1]
             b == lab[2]
             g == [k \in 1..Len(line) - 1 |-> lab[k + 1]]
  <1>1. line # <<>> /\ line' = Tail(line)
    BY DEF Arrived, Collapsed, Hunt, Resync, EscapeCharacter, Address,
       PmppBytes, SequenceByte, Count, CountOne, CountHigh, CountLow, Body,
       CheckSum, EndFlag, Taken
  <1>2. /\ Labelled(line', g)
        /\ a \in Label /\ Means(a, Head(line))
        /\ line' = <<>> => a.at = Total(a.m) + 2
        /\ line' # <<>> =>
             b \in Label /\ Follows(a, b) /\ b.at <= Total(b.m) + 2
    BY <1>1, LabelledTail DEF ReaderKnows
  <1>3. ReaderAt(a)
    BY <1>1 DEF ReaderKnows
  <1>4. line' = <<>> => pc' \in {"select", "second", "done"} /\ ~escaped'
    BY <1>2, <1>3, ReadLast
  <1>5. line' # <<>> => ReaderAt(b)'
    <2> SUFFICES ASSUME line' # <<>> PROVE ReaderAt(b)'
      OBVIOUS
    <2>1. Reads(a, b)
      BY <1>1, <1>2, <1>3 DEF Reads
    <2> HIDE DEF a, b
    <2>2. CASE a.half = "first"
      BY <2>1, <2>2, ReadFirstHalf
    <2>3. CASE a.half # "first"
      BY <2>1, <2>3, ReadHeading, ReadOther
    <2> QED
      BY <2>2, <2>3
  <1>6. PICK h : Labelled(line', h) /\ (line' # <<>> => h[1] = b)
    <2>1. line' # <<>> => 1 \in 1..Len(line) - 1
      <3> DEFINE T == Tokens(shown)
      <3>1. line \in Seq(T)
        BY DEF TypeInv
      <3> HIDE DEF T
      <3>2. /\ Len(line) \in Nat /\ Tail(line) \in Seq(T)
            /\ Len(Tail(line)) = Len(line) - 1
        BY <1>1, <3>1, HeadTailProperties
      <3>3. Tail(line) # <<>> => Len(Tail(line)) # 0
        BY <3>2, EmptySeq
      <3> QED
        BY <1>1, <3>2, <3>3
    <2>2. line' # <<>> => g[1] = b
      BY <2>1
    <2> QED
      BY <1>2, <2>2
  <1> HIDE DEF b
  <1>7. ReaderKnows(h)'
    BY <1>4, <1>5, <1>6 DEF ReaderKnows
  <1> QED
    BY <1>7

-----------------------------------------------------------------------------
(* Every frame can be labelled.                                            *)

\* The tokens s are the bytes from..to of the message m.
Covers(s, g, m, from, to) ==
  /\ Len(s) > 0
  /\ \A k \in 1..Len(s) :
       /\ g[k] \in Label /\ g[k].m = m /\ g[k].at \in from..to
       /\ Means(g[k], s[k])
  /\ \A k \in 1..Len(s) - 1 : Follows(g[k], g[k + 1])
  /\ g[1].at = from /\ g[1].half # "second"
  /\ g[Len(s)].at = to /\ g[Len(s)].half # "first"

LEMMA Join ==
  ASSUME NEW T, NEW s \in Seq(T), NEW t \in Seq(T), NEW g, NEW h, NEW m,
         NEW from \in Nat, NEW mid \in Nat, NEW to \in Nat,
         Covers(s, g, m, from, mid), Covers(t, h, m, mid + 1, to),
         mid <= Total(m) + 1, from <= mid, mid < to, Total(m) \in Nat
  PROVE  \E f : /\ Covers(s \o t, f, m, from, to)
                /\ \A k \in Len(s) + 1..Len(s \o t) : f[k].at > mid
  <1> DEFINE n == Len(s)
             p == Len(t)
             u == s \o t
             f == [k \in 1..n + p |-> IF k <= n THEN g[k] ELSE h[k - n]]
  <1>1. /\ u \in Seq(T) /\ Len(u) = n + p /\ n \in Nat /\ p \in Nat
        /\ \A i \in 1..n + p : u[i] = IF i <= n THEN s[i] ELSE t[i - n]
    BY ConcatProperties
  <1>2. /\ n > 0
        /\ \A k \in 1..n : /\ g[k] \in Label /\ g[k].m = m
                           /\ g[k].at \in from..mid /\ Means(g[k], s[k])
        /\ \A k \in 1..n - 1 : Follows(g[k], g[k + 1])
        /\ g[1].at = from /\ g[1].half # "second"
        /\ g[n].at = mid /\ g[n].half # "first"
    BY DEF Covers
  <1>3. /\ p > 0
        /\ \A k \in 1..p : /\ h[k] \in Label /\ h[k].m = m
                           /\ h[k].at \in mid + 1..to /\ Means(h[k], t[k])
        /\ \A k \in 1..p - 1 : Follows(h[k], h[k + 1])
        /\ h[1].at = mid + 1 /\ h[1].half # "second"
        /\ h[p].at = to /\ h[p].half # "first"
    BY DEF Covers
  <1>4. /\ \A k \in 1..n : f[k] = g[k]
        /\ \A k \in n + 1..n + p : f[k] = h[k - n] /\ k - n \in 1..p
    <2> HIDE DEF n, p
    <2>1. \A k \in 1..n + p : f[k] = IF k <= n THEN g[k] ELSE h[k - n]
      OBVIOUS
    <2> HIDE DEF f
    <2>2. n \in Nat /\ p \in Nat
      BY <1>1
    <2>3. \A k \in 1..n : k \in 1..n + p /\ k <= n
      BY <2>2
    <2>4. \A k \in n + 1..n + p : k \in 1..n + p /\ ~(k <= n) /\ k - n \in 1..p
      BY <2>2
    <2> QED
      BY <2>1, <2>3, <2>4
  <1> HIDE DEF n, p, u, f
  <1>5. ASSUME NEW k \in 1..n + p
        PROVE  /\ f[k] \in Label /\ f[k].m = m
               /\ f[k].at \in from..to /\ Means(f[k], u[k])
    <2>1. CASE k <= n
      <3>1. k \in 1..n /\ u[k] = s[k]
        BY <1>1, <2>1
      <3>2. f[k] = g[k] /\ g[k].at \in from..mid
        BY <1>2, <1>4, <3>1
      <3>3. from..mid \subseteq from..to
        OBVIOUS
      <3> QED
        BY <1>2, <3>1, <3>2, <3>3
    <2>2. CASE k > n
      <3>1. k \in n + 1..n + p /\ u[k] = t[k - n]
        <4>1. k \in n + 1..n + p /\ ~(k <= n)
          BY <1>1, <2>2
        <4> QED
          BY <1>1, <4>1
      <3>2. f[k] = h[k - n] /\ k - n \in 1..p
        BY <1>4, <3>1
      <3>3. mid + 1..to \subseteq from..to
        OBVIOUS
      <3> QED
        BY <1>3, <3>1, <3>2, <3>3
    <2> QED
      BY <1>1, <2>1, <2>2
  <1>6. ASSUME NEW k \in 1..n + p - 1
        PROVE  Follows(f[k], f[k + 1])
    <2>1. CASE k < n
      <3>1. k \in 1..n - 1 /\ k \in 1..n /\ k + 1 \in 1..n
        BY <1>1, <2>1
      <3> QED
        BY <1>2, <1>4, <3>1
    <2>2. CASE k = n
      <3>1. n \in 1..n /\ n + 1 \in n + 1..n + p /\ (n + 1) - n = 1
            /\ 1 \in 1..p
        BY <1>1, <1>2, <1>3
      <3>2. f[k] = g[n] /\ f[k + 1] = h[1]
        BY <1>4, <2>2, <3>1
      <3>3. g[n].m = m /\ h[1].m = m
        BY <1>2, <1>3, <3>1
      <3>4. g[n].at # Total(g[n].m) + 2
        BY <1>2, <3>3
      <3>5. Follows(g[n], h[1])
        BY <1>2, <1>3, <3>3, <3>4 DEF Follows
      <3> QED
        BY <3>2, <3>5
    <2>3. CASE k > n
      <3>1. /\ k \in n + 1..n + p /\ k + 1 \in n + 1..n + p
            /\ k - n \in 1..p - 1 /\ (k + 1) - n = (k - n) + 1
        BY <1>1, <2>3
      <3>2. f[k] = h[k - n] /\ f[k + 1] = h[(k - n) + 1]
        <4>1. f[k] = h[k - n] /\ f[k + 1] = h[(k + 1) - n]
          BY <1>4, <3>1
        <4> QED
          BY <3>1, <4>1
      <3> QED
        BY <1>3, <3>1, <3>2
    <2> QED
      BY <1>1, <2>1, <2>2, <2>3
  <1>7. f[1] = g[1] /\ f[n + p] = h[p]
    <2>1. n \in Nat /\ n > 0 /\ p \in Nat /\ p > 0
      BY ONLY <1>1, <1>2, <1>3
    <2>2. 1 \in 1..n /\ n + p \in n + 1..n + p /\ (n + p) - n = p
      BY ONLY <2>1
    <2> QED
      BY <1>4, <2>2
  <1>8. ASSUME NEW k \in n + 1..n + p PROVE f[k].at > mid
    <2>1. f[k] = h[k - n] /\ h[k - n].at \in mid + 1..to
      BY <1>3, <1>4
    <2> QED
      BY <2>1
  <1>9. Covers(u, f, m, from, to)
    <2>1. Len(u) = n + p /\ Len(u) > 0
      BY <1>1, <1>2, <1>3
    <2>2. \A k \in 1..Len(u) :
            /\ f[k] \in Label /\ f[k].m = m /\ f[k].at \in from..to
            /\ Means(f[k], u[k])
      BY <1>5, <2>1
    <2>3. \A k \in 1..Len(u) - 1 : Follows(f[k], f[k + 1])
      <3>1. ASSUME NEW k \in 1..Len(u) - 1 PROVE Follows(f[k], f[k + 1])
        <4>1. k \in 1..n + p - 1
          BY <1>1, <2>1
        <4> QED
          BY <1>6, <4>1
      <3> QED
        BY <3>1
    <2>4. /\ f[1].at = from /\ f[1].half # "second"
          /\ f[Len(u)].at = to /\ f[Len(u)].half # "first"
      BY <1>2, <1>3, <1>7, <2>1
    <2> QED
      BY <2>1, <2>2, <2>3, <2>4 DEF Covers
  <1> QED
    BY <1>1, <1>8, <1>9 DEF n, u

LEMMA OneToken ==
  ASSUME NEW token, NEW m \in Message, NEW at \in Nat,
         at \in 1..Total(m) + 1 => token.byte # ESCAPE,
         at \in 1..Start(m) => token.byte = Content(m)[at],
         at = 0 => token.byte = FLAG, at <= Total(m) + 2
  PROVE  \E g : Covers(<<token>>, g, m, at, at)
  <1> DEFINE lb == [m |-> m, at |-> at, half |-> "whole"]
             g == <<lb>>
             s == <<token>>
  <1>1. /\ lb \in Label /\ lb.m = m /\ lb.at = at /\ lb.half = "whole"
    BY DEF Label
  <1> HIDE DEF lb
  <1>2. /\ Means(lb, token)
    BY <1>1 DEF Means
  <1>3. Len(s) = 1 /\ s[1] = token /\ g[1] = lb
    OBVIOUS
  <1> HIDE DEF g, s
  <1>4. Covers(s, g, m, at, at)
    BY <1>1, <1>2, <1>3 DEF Covers
  <1> QED
    BY <1>4 DEF s

LEMMA EscapeCovers ==
  ASSUME NEW m \in Message, NEW at \in 1..Total(m), Total(m) \in Nat
  PROVE  \E g : Covers(Escape(Content(m)[at]), g, m, at, at)
  <1> DEFINE b == Content(m)[at]
  <1>1. CASE b \in {FLAG, ESCAPE}
    <2> DEFINE x == [m |-> m, at |-> at, half |-> "first"]
               y == [m |-> m, at |-> at, half |-> "second"]
               e == Plain(ESCAPE)
               f == IF b = FLAG THEN Plain(ESCAPE_DELIMITER)
                    ELSE Plain(ESCAPE_ESCAPE)
               g == <<x, y>>
               s == <<e, f>>
    <2>1. /\ x \in Label /\ x.m = m /\ x.at = at /\ x.half = "first"
          /\ y \in Label /\ y.m = m /\ y.at = at /\ y.half = "second"
      BY DEF Label
    <2>2. Escape(b) = s
      BY <1>1 DEF Escape, FLAG, ESCAPE
    <2>3. /\ e.byte = ESCAPE
          /\ b = IF f.byte = ESCAPE_DELIMITER THEN FLAG ELSE ESCAPE
      BY <1>1 DEF Plain, ESCAPE_DELIMITER, ESCAPE_ESCAPE
    <2> HIDE DEF x, y, e, f
    <2>4. Len(s) = 2 /\ s[1] = e /\ s[2] = f /\ g[1] = x /\ g[2] = y
      OBVIOUS
    <2> HIDE DEF s, g
    <2>5. Means(x, e)
      BY <1>1, <2>1, <2>3 DEF Means
    <2>6. Means(y, f)
      BY <1>1, <2>1, <2>3 DEF Means
    <2>7. Follows(x, y)
      BY <2>1 DEF Follows
    <2>8. Covers(s, g, m, at, at)
      BY <2>1, <2>4, <2>5, <2>6, <2>7 DEF Covers
    <2> HIDE DEF b
    <2> QED
      BY <2>2, <2>8 DEF b
  <1>2. CASE b \notin {FLAG, ESCAPE}
    <2>1. Escape(b) = <<Plain(b)>> /\ Plain(b).byte = b
      BY <1>2 DEF Escape, Plain
    <2>2. at <= Total(m) + 2 /\ at # 0 /\ at \in Nat
      OBVIOUS
    <2>3. \E g : Covers(<<Plain(b)>>, g, m, at, at)
      BY <1>2, <2>1, <2>2, OneToken
    <2> QED
      BY <2>1, <2>3
  <1> QED
    BY <1>1, <1>2

\* Bytes that are a part of the message, escaped.
LEMMA EscapedCovers ==
  ASSUME NEW m \in Message, NEW bytes \in Seq(Byte), NEW from \in Nat,
         Len(bytes) > 0, from > 0, from + Len(bytes) - 1 <= Total(m),
         \A i \in 1..Len(bytes) : Content(m)[from + i - 1] = bytes[i]
  PROVE  \E g : Covers(Escaped(bytes), g, m, from, from + Len(bytes) - 1)
  <1> DEFINE T == Tokens(m.version)
             p == Len(bytes)
             t == Total(m)
             s == [i \in DOMAIN bytes |-> Escape(bytes[i])]
  <1>1. p \in Nat /\ DOMAIN bytes = 1..p /\ t \in Nat
    BY MessageSizes
  <1>2. \A i \in 1..p : s[i] = Escape(bytes[i]) /\ s[i] \in Seq(T)
    <2>1. \A i \in 1..p : bytes[i] \in Byte
      OBVIOUS
    <2> QED
      BY <1>1, <2>1, EscapeTokens
  <1>3. Len(s) = p
    BY <1>1
  <1>4. ASSUME NEW i \in 1..p
        PROVE  \E g : Covers(s[i], g, m, from + i - 1, from + i - 1)
    <2> DEFINE at == from + i - 1
    <2>1. at \in 1..t
      BY <1>1
    <2>2. s[i] = Escape(Content(m)[at])
      BY <1>2
    <2> HIDE DEF at, s
    <2>3. \E g : Covers(s[i], g, m, at, at)
      BY <1>1, <2>1, <2>2, EscapeCovers
    <2> QED
      BY <2>3 DEF at
  <1>5. PICK f : Flattens(f, s, p) /\ FlattenSeq(s) = f[p]
    <2> HIDE DEF s
    <2> QED
      BY <1>1, <1>3, FlattenIsLast
  <1>6. f = [i \in 1..p |-> IF i = 1 THEN s[i] ELSE f[i - 1] \o s[i]]
    BY <1>5 DEF Flattens
  <1> HIDE DEF T, p, t, s
  <1> DEFINE Good(k) == /\ f[k] \in Seq(T)
                        /\ \E g : Covers(f[k], g, m, from, from + k - 1)
             Bad == {k \in 1..p : ~Good(k)}
  <1>7. ASSUME Bad # {} PROVE FALSE
    <2>1. PICK k \in Bad : \A j \in Bad : k <= j
      <3>1. Bad \subseteq Nat
        BY <1>1
      <3> HIDE DEF Bad
      <3> QED
        BY <1>7, <3>1, LeastMember
    <2>2. CASE k = 1
      <3>1. 1 \in 1..p /\ f[1] = s[1] /\ from + 1 - 1 = from
        BY <1>1, <1>6, <2>1, <2>2
      <3>2. Good(1)
        BY <1>2, <1>4, <3>1
      <3> QED
        BY <2>1, <2>2, <3>2
    <2>3. CASE k # 1
      <3>1. k \in 1..p /\ k - 1 \in 1..p /\ k - 1 \notin Bad
        <4>1. k \in 1..p /\ k \in Int
          BY <1>1
        <4> HIDE DEF Bad
        <4> QED
          BY <1>1, <2>1, <2>3, <4>1
      <3>2. f[k] = f[k - 1] \o s[k]
        BY <1>6, <2>3, <3>1
      <3>3. f[k - 1] \in Seq(T) /\ s[k] \in Seq(T)
        BY <1>2, <3>1
      <3> DEFINE mid == from + (k - 1) - 1
                 to == from + k - 1
      <3>4. /\ mid \in Nat /\ to \in Nat /\ mid <= t /\ from <= mid
            /\ mid < to /\ mid + 1 = to
        BY <1>1, <3>1 DEF p, t
      <3>5. PICK g : Covers(f[k - 1], g, m, from, mid)
        BY <3>1
      <3>6. PICK h : Covers(s[k], h, m, mid + 1, to)
        BY <1>4, <3>1, <3>4
      <3> HIDE DEF mid, to
      <3>7. \E e : Covers(f[k - 1] \o s[k], e, m, from, to)
        BY <1>1, <3>3, <3>4, <3>5, <3>6, Join DEF t
      <3>8. f[k] \in Seq(T)
        BY <3>2, <3>3, ConcatProperties
      <3>9. Good(k)
        BY <3>2, <3>7, <3>8 DEF to
      <3> QED
        BY <2>1, <3>9
    <2> QED
      BY <2>2, <2>3
  <1>8. p \in 1..p
    BY <1>1 DEF p
  <1>9. Good(p)
    BY <1>7, <1>8
  <1> QED
    BY <1>5, <1>9 DEF Escaped, s, p

\* The bytes of the objects, the check sequence and the last flag come after
\* the heading.
LEMMA FrameCovers ==
  ASSUME NEW m \in Message
  PROVE  \E g :
           /\ Covers(Frame(m), g, m, 0, Total(m) + 2)
           /\ \A k \in 2 + Len(Escaped(Heading(m)))..Len(Frame(m)) :
                g[k].at > Start(m)
  <1> DEFINE T == Tokens(m.version)
             a == <<Plain(FLAG)>>
             b == Escaped(Heading(m))
             c == Escaped(Objects(m))
             d == <<Sum(m)>>
             e == <<Plain(FLAG)>>
             s == Start(m)
             t == Total(m)
  <1>1. /\ s \in Nat /\ t \in Nat /\ t > s /\ s > 0
        /\ s = Len(Heading(m)) /\ t = s + Len(Objects(m))
    <2> DEFINE w == m.wide
    <2>1. /\ w \in {0, 1, 2} /\ s = 5 + w /\ t \in Nat /\ t > s
          /\ s = Len(Heading(m)) /\ t = s + Len(Objects(m))
      BY MessageSizes DEF Start
    <2> HIDE DEF s, t, w
    <2> QED
      BY <2>1
  <1>2. /\ Heading(m) \in Seq(Byte) /\ Objects(m) \in Seq(Byte)
        /\ Len(Heading(m)) > 0 /\ Len(Objects(m)) > 0
        /\ \A i \in 1..Len(Heading(m)) : Content(m)[i] = Heading(m)[i]
        /\ \A i \in 1..Len(Objects(m)) :
             Content(m)[Len(Heading(m)) + i] = Objects(m)[i]
    <2>1. Heading(m) \in Seq(Byte) /\ Objects(m) \in Seq(Byte)
      BY HeadingOf, ObjectsBytes
    <2> DEFINE x == Heading(m)
               y == Objects(m)
    <2>2. Content(m) = x \o y /\ Len(x) > 0 /\ Len(y) > 0
      BY <1>1, LengthFits DEF Content
    <2>3. x \in Seq(Byte) /\ y \in Seq(Byte)
      BY <2>1
    <2> HIDE DEF x, y
    <2>4. /\ Len(x) \in Nat /\ Len(y) \in Nat
          /\ \A i \in 1..Len(x) + Len(y) :
               (x \o y)[i] = IF i <= Len(x) THEN x[i] ELSE y[i - Len(x)]
      BY <2>3, ConcatProperties
    <2>5. /\ \A i \in 1..Len(x) : (x \o y)[i] = x[i]
          /\ \A i \in 1..Len(y) : (x \o y)[Len(x) + i] = y[i]
      BY <2>4
    <2> QED
      BY <2>2, <2>3, <2>5 DEF x, y
  <1>3. a \in Seq(T) /\ d \in Seq(T) /\ e \in Seq(T)
    <2>1. FLAG \in Byte
      BY DEF FLAG, Byte
    <2>2. Plain(FLAG) \in T /\ Sum(m) \in T
      <3>1. m.version <= m.version
        BY Constants DEF Message, Version
      <3> QED
        BY <2>1, <3>1, PlainIsToken, SumIsToken
    <2> HIDE DEF T
    <2> QED
      BY <2>2
  <1>4. b \in Seq(T) /\ c \in Seq(T)
    BY <1>2, EscapedTokens
  <1>5. \E g : Covers(a, g, m, 0, 0)
    <2>1. Plain(FLAG).byte = FLAG /\ 0 <= t + 2 /\ 0 \notin 1..t + 1
          /\ 0 \notin 1..s /\ 0 \in Nat
      BY <1>1 DEF Plain
    <2> QED
      BY <2>1, OneToken
  <1>6. \E g : Covers(b, g, m, 1, s)
    <2>1. /\ 1 + Len(Heading(m)) - 1 = s /\ s <= t
          /\ \A i \in 1..Len(Heading(m)) : 1 + i - 1 = i
      BY <1>1
    <2>2. \E g : Covers(b, g, m, 1, 1 + Len(Heading(m)) - 1)
      <3>1. /\ \A i \in 1..Len(Heading(m)) :
                 Content(m)[1 + i - 1] = Heading(m)[i]
            /\ 1 + Len(Heading(m)) - 1 <= t
        BY <1>2, <2>1
      <3> QED
        BY <1>2, <3>1, EscapedCovers
    <2> QED
      BY <2>1, <2>2
  <1>7. \E g : Covers(c, g, m, s + 1, t)
    <2> DEFINE from == s + 1
               n == Len(Objects(m))
    <2>1. from + n - 1 = t /\ from \in Nat /\ from > 0 /\ n > 0
      BY <1>1, <1>2
    <2>2. \A i \in 1..n : Content(m)[from + i - 1] = Objects(m)[i]
      <3>1. \A i \in 1..n : from + i - 1 = s + i
        BY <1>1
      <3> QED
        BY <1>1, <1>2, <3>1
    <2> HIDE DEF from
    <2>3. \E g : Covers(c, g, m, from, from + n - 1)
      BY <1>2, <2>1, <2>2, EscapedCovers
    <2> QED
      BY <2>1, <2>3 DEF from
  <1>8. \E g : Covers(d, g, m, t + 1, t + 1)
    <2>1. /\ Sum(m).byte # ESCAPE /\ t + 1 <= t + 2 /\ t + 1 \notin 1..s
          /\ t + 1 \in Nat /\ t + 1 # 0
      BY <1>1 DEF Sum, FCS, ESCAPE
    <2> QED
      BY <2>1, OneToken
  <1>9. \E g : Covers(e, g, m, t + 2, t + 2)
    <2>1. /\ t + 2 <= t + 2 /\ t + 2 \notin 1..s /\ t + 2 \notin 1..t + 1
          /\ t + 2 \in Nat /\ t + 2 # 0
      BY <1>1
    <2> QED
      BY <2>1, OneToken
  <1>9a. t = Total(m) /\ t \in Nat /\ s \in Nat
    BY <1>1
  <1> HIDE DEF T, a, b, c, d, e, s, t
  <1>10. a \o b \in Seq(T) /\ \E f : Covers(a \o b, f, m, 0, s)
    <2>1. PICK g : Covers(a, g, m, 0, 0)
      BY <1>5
    <2>2. PICK h : Covers(b, h, m, 1, s)
      BY <1>6
    <2>3. 0 \in Nat /\ 0 + 1 = 1 /\ 0 < s /\ 0 <= t + 1 /\ 0 <= 0
      BY <1>1
    <2>4. Covers(b, h, m, 0 + 1, s)
      BY <2>2, <2>3
    <2>5. \E f : Covers(a \o b, f, m, 0, s)
      BY ONLY <1>3, <1>4, <1>9a, <2>1, <2>3, <2>4, Join
    <2>6. a \o b \in Seq(T)
      BY <1>3, <1>4, ConcatProperties
    <2> QED
      BY <2>5, <2>6
  <1>11. d \o e \in Seq(T) /\ \E f : Covers(d \o e, f, m, t + 1, t + 2)
    <2> DEFINE x == t + 1
               y == t + 2
    <2>1. x \in Nat /\ y \in Nat /\ x + 1 = y /\ x < y /\ x <= t + 1 /\ x <= x
      BY <1>1
    <2>2. PICK g : Covers(d, g, m, x, x)
      BY <1>8
    <2>3. PICK h : Covers(e, h, m, y, y)
      BY <1>9
    <2> HIDE DEF x, y
    <2>4. Covers(e, h, m, x + 1, y)
      BY <2>1, <2>3
    <2>5. \E f : Covers(d \o e, f, m, x, y)
      BY ONLY <1>3, <1>9a, <2>1, <2>2, <2>4, Join
    <2>6. d \o e \in Seq(T)
      BY <1>3, ConcatProperties
    <2> QED
      BY <2>5, <2>6 DEF x, y
  <1>12. c \o (d \o e) \in Seq(T)
         /\ \E f : Covers(c \o (d \o e), f, m, s + 1, t + 2)
    <2> DEFINE from == s + 1
               to == t + 2
               u == d \o e
    <2>1. /\ from \in Nat /\ to \in Nat /\ from <= t /\ t < to /\ t <= t + 1
      BY <1>1
    <2>2. PICK g : Covers(c, g, m, from, t)
      BY <1>7
    <2>3. PICK h : Covers(u, h, m, t + 1, to)
      BY <1>11
    <2>4. u \in Seq(T)
      BY <1>11
    <2> HIDE DEF from, to, u
    <2>5. \E f : Covers(c \o u, f, m, from, to)
      BY ONLY <1>4, <1>9a, <2>1, <2>2, <2>3, <2>4, Join
    <2>6. c \o u \in Seq(T)
      BY <1>4, <2>4, ConcatProperties
    <2> QED
      BY <2>5, <2>6 DEF from, to, u
  <1> DEFINE x == a \o b
             y == c \o (d \o e)
  <1>13. \E f : /\ Covers(x \o y, f, m, 0, t + 2)
                /\ \A k \in Len(x) + 1..Len(x \o y) : f[k].at > s
    <2> DEFINE to == t + 2
    <2>1. /\ to \in Nat /\ 0 \in Nat /\ 0 <= s /\ s < to /\ s <= t + 1
      BY <1>1
    <2>2. PICK g : Covers(x, g, m, 0, s)
      BY <1>10
    <2>3. PICK h : Covers(y, h, m, s + 1, to)
      BY <1>12
    <2>4. x \in Seq(T) /\ y \in Seq(T)
      BY <1>10, <1>12
    <2> HIDE DEF to, x, y
    <2>5. \E f : /\ Covers(x \o y, f, m, 0, to)
                 /\ \A k \in Len(x) + 1..Len(x \o y) : f[k].at > s
      BY ONLY <1>9a, <2>1, <2>2, <2>3, <2>4, Join
    <2> QED
      BY <2>5 DEF to
  <1>14. Frame(m) = x \o y
    <2> DEFINE w == <<Sum(m), Plain(FLAG)>>
    <2>1. w = d \o e
      BY DEF d, e
    <2>2. Frame(m) = ((a \o b) \o c) \o w
      BY DEF Frame, a, b, c
    <2> HIDE DEF w
    <2>3. w \in Seq(T)
      BY <1>11, <2>1
    <2>4. ((a \o b) \o c) \o w = (a \o b) \o (c \o w)
      <3> DEFINE ab == a \o b
      <3>1. ab \in Seq(T) /\ c \in Seq(T)
        BY <1>4, <1>10
      <3> HIDE DEF ab, c
      <3>2. (ab \o c) \o w = ab \o (c \o w)
        BY ONLY <2>3, <3>1, SMTT(30)
      <3> QED
        BY <3>2 DEF ab
    <2> QED
      BY <2>1, <2>2, <2>4
  <1>15. Len(x) + 1 = 2 + Len(b)
    <2>1. Len(a \o b) = Len(a) + Len(b)
      BY <1>3, <1>4, ConcatProperties
    <2>2. Len(a) = 1
      BY DEF a
    <2>3. Len(b) \in Nat
      BY <1>4
    <2> QED
      BY <2>1, <2>2, <2>3
  <1> HIDE DEF x, y
  <1> QED
    BY <1>13, <1>14, <1>15 DEF b, s, t

\* A byte that is hit without consequences for the reader keeps its label.
LEMMA HitCovers ==
  ASSUME NEW m \in Message, m = Current, NEW g, NEW T,
         Frame(m) \in Seq(T), NEW i \in 1..Len(Frame(m)), NEW b,
         Kind(Frame(m), i, b) \in Harmless,
         Covers(Frame(m), g, m, 0, Total(m) + 2),
         \A k \in 2 + Len(Escaped(Heading(m)))..Len(Frame(m)) :
           g[k].at > Start(m)
  PROVE  Covers([Frame(m) EXCEPT ![i] = Plain(b)], g, m, 0, Total(m) + 2)
  <1> DEFINE frame == Frame(m)
             hit == [frame EXCEPT ![i] = Plain(b)]
             t == Total(m)
             s == Start(m)
             q == 2 + Len(Escaped(Heading(m)))
             to == t + 2
  <1>1. s \in Nat /\ t \in Nat /\ t > s
    BY MessageSizes
  <1>2. /\ Len(hit) = Len(frame) /\ Len(frame) \in Nat
        /\ \A k \in 1..Len(frame) :
             hit[k] = IF k = i THEN Plain(b) ELSE frame[k]
    <2> HIDE DEF frame
    <2> QED
      BY DEF frame
  <1>3. /\ ESCAPE \notin {b, frame[i].byte}
        /\ i = Len(frame) \/ i >= q
    <2> DEFINE count == Len(PmppHeader) + 3
    <2>1. Kind(frame, i, b) =
            IF ESCAPE \in {b, frame[i].byte} THEN "escape"
            ELSE IF i = 1 THEN "start" ELSE IF i = Len(frame) THEN "end"
            ELSE IF i < count THEN "header" ELSE IF i < q THEN "count"
            ELSE "payload"
      BY DEF Kind
    <2>2. Kind(frame, i, b) \notin {"escape", "start", "header", "count"}
      BY DEF Harmless
    <2>3. q \in Nat
      <3>1. Len(Escaped(Heading(m))) \in Nat
        <4>1. Heading(m) \in Seq(Byte) /\ Len(Heading(m)) > 0
          <5>1. /\ Heading(m) \in Seq(Byte)
                /\ Len(Heading(m)) = 5 + m.wide
            BY HeadingOf
          <5>2. m.wide \in {0, 1, 2}
            BY LengthFits
          <5> QED
            BY ONLY <5>1, <5>2
        <4>2. Escaped(Heading(m)) \in Seq(Tokens(m.version))
          BY <4>1, EscapedTokens
        <4> QED
          BY <4>2
      <3> QED
        BY <3>1
    <2>4. i \in Int
      BY <1>2
    <2> HIDE DEF frame, count, q
    <2> QED
      BY <2>1, <2>2, <2>3, <2>4
  <1>4. /\ Len(frame) > 0
        /\ \A k \in 1..Len(frame) :
             /\ g[k] \in Label /\ g[k].m = m /\ g[k].at \in 0..to
             /\ Means(g[k], frame[k])
        /\ \A k \in 1..Len(frame) - 1 : Follows(g[k], g[k + 1])
        /\ g[1].at = 0 /\ g[1].half # "second"
        /\ g[Len(frame)].at = to /\ g[Len(frame)].half # "first"
    BY DEF Covers
  <1>5. g[i].at > s
    <2>1. CASE i = Len(frame)
      BY <1>1, <1>4, <2>1
    <2>2. CASE i >= q
      <3>1. i \in q..Len(frame)
        <4>1. i \in 1..Len(frame)
          OBVIOUS
        <4> HIDE DEF q, frame
        <4> QED
          BY <1>2, <2>2, <4>1
      <3> QED
        BY <3>1
    <2> QED
      BY <1>3, <2>1, <2>2
  <1> HIDE DEF frame, hit, to, q
  <1>6. Means(g[i], Plain(b))
    <2>1. Means(g[i], frame[i]) /\ g[i].m = m /\ g[i] \in Label
      BY <1>4 DEF frame
    <2> DEFINE x == g[i]
    <2>2. /\ x.half \in {"whole", "first", "second"} /\ x.at \in Nat
          /\ Plain(b).byte = b
      BY <2>1 DEF Label, Plain
    <2>3. ~(x.at <= s) /\ x.at # 0 /\ x.at \notin 1..s
      BY <1>1, <1>5, <2>2
    <2> HIDE DEF x
    <2>4. Means(x, frame[i]) /\ x.m = m
      BY <2>1 DEF x
    <2>5. x.half # "first"
      BY <1>3, <2>4 DEF Means
    <2>6. Means(x, Plain(b))
      BY <1>3, <2>2, <2>3, <2>4, <2>5 DEF Means, s
    <2> QED
      BY <2>6 DEF x
  <1>7. \A k \in 1..Len(hit) :
          /\ g[k] \in Label /\ g[k].m = m /\ g[k].at \in 0..to
          /\ Means(g[k], hit[k])
    BY <1>2, <1>4, <1>6
  <1>8. Covers(hit, g, m, 0, to)
    BY <1>2, <1>4, <1>7 DEF Covers
  <1> QED
    BY <1>8 DEF hit, frame, to

LEMMA LabelledMore ==
  ASSUME NEW T, NEW l \in Seq(T), NEW s \in Seq(T), NEW lab, NEW h,
         NEW m \in Message, Labelled(l, lab), Covers(s, h, m, 0, Total(m) + 2)
  PROVE  \E f : /\ Labelled(l \o s, f)
                /\ f[1] = IF Len(l) = 0 THEN h[1] ELSE lab[1]
  <1> DEFINE n == Len(l)
             p == Len(s)
             u == l \o s
             f == [k \in 1..n + p |-> IF k <= n THEN lab[k] ELSE h[k - n]]
  <1>1. /\ u \in Seq(T) /\ Len(u) = n + p /\ n \in Nat /\ p \in Nat
        /\ \A i \in 1..n + p : u[i] = IF i <= n THEN l[i] ELSE s[i - n]
    BY ConcatProperties
  <1>2. /\ \A k \in 1..n : lab[k] \in Label /\ Means(lab[k], l[k])
        /\ \A k \in 1..n - 1 : Follows(lab[k], lab[k + 1])
        /\ n > 0 => lab[n].at = Total(lab[n].m) + 2
    BY DEF Labelled
  <1>3. /\ p > 0
        /\ \A k \in 1..p : h[k] \in Label /\ h[k].m = m /\ Means(h[k], s[k])
        /\ \A k \in 1..p - 1 : Follows(h[k], h[k + 1])
        /\ h[1].at = 0 /\ h[1].half # "second"
        /\ h[p].at = Total(m) + 2
    BY DEF Covers
  <1>4. /\ f \in [1..n + p -> {f[k] : k \in 1..n + p}]
        /\ \A k \in 1..n : f[k] = lab[k]
        /\ \A k \in n + 1..n + p : f[k] = h[k - n] /\ k - n \in 1..p
    <2> HIDE DEF n, p
    <2>1. /\ \A k \in 1..n + p : f[k] = IF k <= n THEN lab[k] ELSE h[k - n]
          /\ f \in [1..n + p -> {f[k] : k \in 1..n + p}]
      OBVIOUS
    <2> HIDE DEF f
    <2>2. n \in Nat /\ p \in Nat
      BY <1>1
    <2>3. \A k \in 1..n : k \in 1..n + p /\ k <= n
      BY <2>2
    <2>4. \A k \in n + 1..n + p : k \in 1..n + p /\ ~(k <= n) /\ k - n \in 1..p
      BY <2>2
    <2> QED
      BY <2>1, <2>3, <2>4
  <1> HIDE DEF n, p, u, f
  <1>5. ASSUME NEW k \in 1..n + p
        PROVE  f[k] \in Label /\ Means(f[k], u[k])
    <2>1. CASE k <= n
      <3>1. k \in 1..n /\ u[k] = l[k]
        BY <1>1, <2>1
      <3> QED
        BY <1>2, <1>4, <3>1
    <2>2. CASE k > n
      <3>1. k \in n + 1..n + p /\ ~(k <= n)
        BY <1>1, <2>2
      <3>2. u[k] = s[k - n] /\ f[k] = h[k - n] /\ k - n \in 1..p
        BY <1>1, <1>4, <3>1
      <3> QED
        BY <1>3, <3>2
    <2> QED
      BY <1>1, <2>1, <2>2
  <1>6. ASSUME NEW k \in 1..n + p - 1
        PROVE  Follows(f[k], f[k + 1])
    <2>1. CASE k < n
      <3>1. k \in 1..n - 1 /\ k \in 1..n /\ k + 1 \in 1..n
        BY <1>1, <2>1
      <3> QED
        BY <1>2, <1>4, <3>1
    <2>2. CASE k = n
      <3>1. /\ n \in 1..n /\ n + 1 \in n + 1..n + p /\ (n + 1) - n = 1
            /\ n > 0
        BY <1>1, <1>3, <2>2
      <3>2. f[k] = lab[n] /\ f[k + 1] = h[1]
        BY <1>4, <2>2, <3>1
      <3> DEFINE x == lab[n]
                 t == Total(x.m)
      <3>3. x \in Label /\ Means(x, l[n]) /\ x.at = t + 2 /\ t \in Nat
        <4>1. x \in Label /\ Means(x, l[n]) /\ x.at = t + 2
          BY <1>2, <3>1
        <4>2. x.m \in Message
          BY <4>1 DEF Label
        <4> QED
          BY <4>1, <4>2, MessageSizes
      <3>4. x.half # "first"
        <4>1. x.half = "first" => x.at \in 1..t
          BY <3>3 DEF Means
        <4> HIDE DEF x, t
        <4> QED
          BY <3>3, <4>1
      <3>5. x.at \notin 1..t + 1
        BY <3>3
      <3>6. Follows(x, h[1])
        BY <1>3, <3>3, <3>4, <3>5 DEF Follows
      <3> QED
        BY <3>2, <3>6
    <2>3. CASE k > n
      <3>1. /\ k \in n + 1..n + p /\ k + 1 \in n + 1..n + p
            /\ k - n \in 1..p - 1 /\ (k + 1) - n = (k - n) + 1
        BY <1>1, <2>3
      <3>2. f[k] = h[k - n] /\ f[k + 1] = h[(k - n) + 1]
        <4>1. f[k] = h[k - n] /\ f[k + 1] = h[(k + 1) - n]
          BY <1>4, <3>1
        <4> QED
          BY <3>1, <4>1
      <3> QED
        BY <1>3, <3>1, <3>2
    <2> QED
      BY <1>1, <2>1, <2>2, <2>3
  <1>7. f[n + p] = h[p] /\ h[p].m = m
    <2>1. n + p \in n + 1..n + p /\ (n + p) - n = p /\ p \in 1..p
      BY <1>1, <1>3
    <2> QED
      BY <1>3, <1>4, <2>1
  <1>8. n # 0 => f[1] = lab[1]
    <2>1. n # 0 => 1 \in 1..n
      BY <1>1
    <2> QED
      BY <1>4, <2>1
  <1>9. n = 0 => f[1] = h[1]
    <2>1. n = 0 => 1 \in n + 1..n + p /\ 1 - n = 1
      BY <1>1, <1>3
    <2> QED
      BY <1>4, <2>1
  <1>10. Labelled(u, f)
    <2>1. f \in [1..Len(u) -> Label]
      BY <1>1, <1>4, <1>5
    <2>2. \A k \in 1..Len(u) : Means(f[k], u[k])
      BY <1>1, <1>5
    <2>3. ASSUME NEW k \in 1..Len(u) - 1 PROVE Follows(f[k], f[k + 1])
      <3>1. k \in 1..n + p - 1
        BY <1>1, <2>3
      <3> QED
        BY <1>6, <3>1
    <2>4. f[Len(u)].at = Total(f[Len(u)].m) + 2
      BY <1>1, <1>3, <1>7
    <2> QED
      BY <2>1, <2>2, <2>3, <2>4 DEF Labelled
  <1> QED
    BY <1>8, <1>9, <1>10 DEF n, u

\* What is added to the line does not change where the reader is.
LEMMA MoreLine ==
  ASSUME NEW T, line \in Seq(T), NEW s \in Seq(T), NEW m \in Message, NEW h,
         Covers(s, h, m, 0, Total(m) + 2),
         NEW lab, ReaderKnows(lab),
         line' = line \o s, UNCHANGED <<pc, escaped, buf, need>>
  PROVE  \E f : ReaderKnows(f)'
  <1>1. PICK f : /\ Labelled(line', f)
                 /\ line # <<>> => f[1] = lab[1]
                 /\ line = <<>> => f[1] = h[1]
    <2>1. Labelled(line, lab)
      BY DEF ReaderKnows
    <2>2. PICK f : /\ Labelled(line \o s, f)
                   /\ f[1] = IF Len(line) = 0 THEN h[1] ELSE lab[1]
      BY <2>1, LabelledMore
    <2>3. Len(line) = 0 <=> line = <<>>
      BY EmptySeq
    <2> QED
      BY <2>2, <2>3
  <1>2. /\ s # <<>> /\ h[1] \in Label /\ h[1].at = 0 /\ h[1].half # "second"
    <2>1. Len(s) > 0 /\ Len(s) \in Nat
      BY DEF Covers
    <2>2. 1 \in 1..Len(s) /\ s # <<>>
      BY <2>1, EmptySeq
    <2> QED
      BY <2>2 DEF Covers
  <1>3. line' # <<>>
    BY <1>2, ConcatSimplifications
  <1>4. CASE line = <<>>
    <2> DEFINE b == h[1]
    <2>1. b.m \in Message
      BY <1>2 DEF Label
    <2>1a. Total(b.m) \in Nat
      BY ONLY <2>1, MessageSizes
    <2>1b. 0 <= Total(b.m) + 2
      BY ONLY <2>1a
    <2>2. Awaits(b) = Idle \cup {"second"}
      BY <1>2, <2>1b, AwaitsAt
    <2>3. pc \in {"select", "second", "done"} /\ ~escaped
      BY <1>4 DEF ReaderKnows
    <2> HIDE DEF b
    <2>4. b.at = 0 /\ b.half # "second" /\ f[1] = b
      BY <1>1, <1>2, <1>4 DEF b
    <2>5. Awaits(b)' = Awaits(b)
      BY DEF Awaits
    <2>6. ReaderAt(b)'
      BY <2>2, <2>3, <2>4, <2>5 DEF ReaderAt, Idle
    <2> QED
      BY <1>1, <1>3, <2>4, <2>6 DEF ReaderKnows
  <1>5. CASE line # <<>>
    <2> DEFINE a == lab[1]
    <2>1. ReaderAt(a)
      BY <1>5 DEF ReaderKnows
    <2>2. Head(line') = Head(line)
      <3>1. Len(line) \in Nat /\ Len(line) # 0
        BY <1>5, EmptySeq
      <3>2. line'[1] = line[1] /\ line' \in Seq(T)
        <4>1. /\ Len(s) \in Nat /\ line \o s \in Seq(T)
              /\ \A i \in 1..Len(line) + Len(s) :
                   (line \o s)[i] = IF i <= Len(line) THEN line[i]
                                    ELSE s[i - Len(line)]
          BY ConcatProperties
        <4>2. 1 \in 1..Len(line) + Len(s) /\ 1 <= Len(line)
          BY <3>1, <4>1
        <4> QED
          BY <4>1, <4>2
      <3> QED
        BY <1>3, <1>5, <3>2
    <2>3. Got' = Got
      BY <2>2 DEF Got
    <2> HIDE DEF a
    <2>4. Awaits(a)' = Awaits(a)
      BY DEF Awaits
    <2>5. ReaderAt(a)'
      BY <2>1, <2>3, <2>4 DEF ReaderAt
    <2> QED
      BY <1>1, <1>3, <1>5, <2>5 DEF ReaderKnows, a
  <1> QED
    BY <1>4, <1>5

LEMMA AnswersAligned ==
  ASSUME TypeInv, hits \subseteq Harmless, AlignInv,
         Answer \/ Refuse \/ AnswerHit
  PROVE  \E f : ReaderKnows(f)'
  <1> DEFINE T == Tokens(shown)
  <1>1. line \in Seq(T) /\ shown \in Int /\ shown <= shown
    BY Constants DEF TypeInv, Version
  <1>2. PICK lab : ReaderKnows(lab)
    BY DEF AlignInv
  <1>3. ASSUME NEW r \in BOOLEAN
        PROVE  [version |-> shown, refused |-> r, wide |-> wide] \in Message
    BY DEF Message, TypeInv
  <1>4. ASSUME NEW m \in Message, m.version = shown
        PROVE  Frame(m) \in Seq(T)
    BY <1>1, <1>4, FrameTokens
  <1>5. UNCHANGED <<pc, escaped, buf, need>>
    BY DEF Answer, Refuse, AnswerHit, reader
  <1> DEFINE c == Current
             d == [version |-> shown, refused |-> TRUE, wide |-> wide]
  <1>6. c \in Message /\ c.version = shown /\ d \in Message /\ d.version = shown
    BY <1>3 DEF Current
  <1>7. [Current EXCEPT !.refused = TRUE] = d
    <2>1. \A r \in BOOLEAN : [Current EXCEPT !.refused = r]
            = [version |-> shown, refused |-> r, wide |-> wide]
      BY DEF Current
    <2> QED
      BY <2>1
  <1> HIDE DEF T
  <1>8. CASE Answer
    <2>1. line' = line \o Frame(c)
      BY <1>8 DEF Answer
    <2>2. PICK h : Covers(Frame(c), h, c, 0, Total(c) + 2)
      BY <1>6, FrameCovers
    <2> HIDE DEF c
    <2> QED
      BY <1>1, <1>2, <1>4, <1>5, <1>6, <2>1, <2>2, MoreLine
  <1>9. CASE Refuse
    <2>1. line' = line \o Frame(d)
      BY <1>7, <1>9 DEF Refuse
    <2>2. PICK h : Covers(Frame(d), h, d, 0, Total(d) + 2)
      BY <1>6, FrameCovers
    <2> HIDE DEF d
    <2> QED
      BY <1>1, <1>2, <1>4, <1>5, <1>6, <2>1, <2>2, MoreLine
  <1>10. CASE AnswerHit
    <2> DEFINE frame == Frame(c)
    <2>1. PICK i \in 1..Len(frame), b \in Junk :
            /\ Kind(frame, i, b) \in hits
            /\ line' = line \o [frame EXCEPT ![i] = Plain(b)]
      BY <1>10 DEF AnswerHit, Harmless
    <2> DEFINE hit == [frame EXCEPT ![i] = Plain(b)]
    <2>2. PICK h : /\ Covers(frame, h, c, 0, Total(c) + 2)
                   /\ \A k \in 2 + Len(Escaped(Heading(c)))..Len(frame) :
                        h[k].at > Start(c)
      BY <1>6, FrameCovers
    <2>3. frame \in Seq(T)
      BY <1>4, <1>6
    <2>4. Covers(hit, h, c, 0, Total(c) + 2)
      <3>1. Kind(frame, i, b) \in Harmless
        BY <2>1
      <3> QED
        BY <1>6, <2>2, <2>3, <3>1, HitCovers
    <2>5. hit \in Seq(T)
      <3>1. Plain(b) \in T
        BY Constants, PlainIsToken DEF T
      <3> HIDE DEF frame
      <3> QED
        BY <2>3, <3>1, ExceptSeq
    <2>6. line' = line \o hit
      BY <2>1
    <2> HIDE DEF c, frame, hit
    <2> QED
      BY <1>1, <1>2, <1>5, <1>6, <2>4, <2>5, <2>6, MoreLine
  <1> QED
    BY <1>8, <1>9, <1>10

LEMMA AlignInvInit == Init => AlignInv
  <1> SUFFICES ASSUME Init PROVE \E lab : ReaderKnows(lab)
    BY DEF AlignInv
  <1>1. pc = "select" /\ escaped = FALSE
        /\ (line = <<>> \/ line = <<Plain(FLAG)>>)
    BY DEF Init
  <1>2. CASE line = <<>>
    <2>1. Len(line) = 0
      BY <1>2
    <2>2. Labelled(line, [k \in 1..0 |-> 0])
      BY <2>1 DEF Labelled
    <2> QED
      BY <1>1, <1>2, <2>2 DEF ReaderKnows
  <1>3. CASE line = <<Plain(FLAG)>>
    <2> DEFINE m == Current
               t == Total(m)
               lb == [m |-> m, at |-> t + 2, half |-> "whole"]
               lab == [k \in 1..1 |-> lb]
               token == Plain(FLAG)
    <2>1. m \in Message /\ t \in Nat /\ Start(m) \in Nat /\ t > Start(m)
      <3>1. 0 \in Version
        BY Constants DEF Version
      <3>2. m \in Message
        BY <3>1 DEF Init, Current, Message
      <3> HIDE DEF m
      <3> QED
        BY <3>2, MessageSizes
    <2>2. lb \in Label /\ lb.m = m /\ lb.at = t + 2 /\ lb.half = "whole"
      <3> HIDE DEF m, t
      <3> QED
        BY <2>1 DEF Label
    <2>3. token.byte = FLAG
      BY DEF Plain
    <2> HIDE DEF m, lb, token
    <2>4. Len(line) = 1 /\ line[1] = token /\ Head(line) = token /\ line # <<>>
      BY <1>3 DEF token
    <2>5. Total(lb.m) = t /\ Start(lb.m) = Start(m)
      BY <2>2 DEF t
    <2> HIDE DEF t
    <2>6. Means(lb, token)
      <3>1. /\ t + 2 # 0 /\ t + 2 \notin 1..Start(m) /\ t + 2 \notin 1..t + 1
            /\ t + 2 <= t + 2
        BY <2>1
      <3> QED
        BY <2>2, <2>5, <3>1 DEF Means
    <2>7. lab[1] = lb /\ lab \in [1..1 -> Label]
      BY <2>2
    <2> HIDE DEF lab
    <2>8. Labelled(line, lab)
      BY <2>2, <2>4, <2>5, <2>6, <2>7 DEF Labelled
    <2>9. ReaderAt(lb)
      <3>1. Awaits(lb) = Idle \cup {"end"}
        BY <2>2, <2>5, <2>1, AwaitsAt
      <3>2. t + 2 \notin 2..Start(m)
        BY <2>1
      <3> QED
        BY <1>1, <2>2, <2>3, <2>4, <2>5, <3>1, <3>2 DEF ReaderAt, Idle, Got
    <2> QED
      BY <2>4, <2>7, <2>8, <2>9 DEF ReaderKnows
  <1> QED
    BY <1>1, <1>2, <1>3

LEMMA AlignInvNext == TypeInv /\ AlignInv /\ [Next]_vars => AlignInv'
  <1> SUFFICES ASSUME TypeInv, AlignInv, [Next]_vars PROVE AlignInv'
    OBVIOUS
  <1>0. hits' = hits
    <2>1. CASE \/ Hunt \/ Resync \/ EscapeCharacter \/ Address \/ PmppBytes
               \/ SequenceByte \/ Count \/ CountOne \/ CountHigh
               \/ CountLow \/ Body \/ CheckSum \/ EndFlag
      <3>1. Taken
        BY <2>1 DEF Hunt, Resync, EscapeCharacter, Address, PmppBytes,
           SequenceByte, Count, CountOne, CountHigh, CountLow, Body,
           CheckSum, EndFlag, Collapsed
      <3> QED
        BY <3>1 DEF Taken, setting
    <2>2. CASE TimeOut \/ Ready \/ UNCHANGED vars
      BY <2>2 DEF TimeOut, Ready, vars, setting
    <2>3. CASE Answer \/ Refuse \/ AnswerHit \/ Change \/ RequestLost
      BY <2>3 DEF Answer, Refuse, AnswerHit, Change, RequestLost, setting
    <2> QED
      BY <2>1, <2>2, <2>3 DEF Next, Program
  <1> SUFFICES ASSUME hits \subseteq Harmless PROVE \E f : ReaderKnows(f)'
    BY <1>0 DEF AlignInv
  <1>1. PICK lab : ReaderKnows(lab)
    BY DEF AlignInv
  <1>2. CASE \/ Hunt \/ Resync \/ EscapeCharacter \/ Address \/ PmppBytes
             \/ SequenceByte \/ Count \/ CountOne \/ CountHigh \/ CountLow
             \/ Body \/ CheckSum \/ EndFlag
    BY <1>1, <1>2, ReadsAligned
  <1>3. CASE TimeOut
    <2>1. line = <<>> /\ line' = line /\ escaped' = escaped
          /\ pc' \in {"select", "done"}
      BY <1>3 DEF TimeOut, Turn
    <2>2. ReaderKnows(lab)'
      BY <1>1, <2>1 DEF ReaderKnows
    <2> QED
      BY <2>2
  <1>4. CASE Ready
    <2> DEFINE a == lab[1]
    <2>1. /\ pc = "select" /\ pc' = "hunt" /\ line # <<>>
          /\ UNCHANGED <<line, escaped, buf, need>>
      BY <1>4 DEF Ready
    <2>2. a \in Label /\ Means(a, Head(line)) /\ ReaderAt(a)
      BY <1>1, <2>1, LabelledTail DEF ReaderKnows
    <2> HIDE DEF a
    <2>3. a.at = 0 \/ a.at = Total(a.m) + 2
      BY <2>1, <2>2, PlaceOf DEF ReaderAt, Means, Idle
    <2>4. "hunt" \in Awaits(a)
      BY <2>2, <2>3, AwaitsAt DEF Means, Idle
    <2>5. ReaderAt(a)'
      <3>1. Awaits(a)' = Awaits(a) /\ Got' = Got
        BY <2>1 DEF Awaits, Got
      <3> QED
        BY <2>1, <2>2, <2>4, <3>1 DEF ReaderAt, Idle
    <2>6. ReaderKnows(lab)'
      BY <1>1, <2>1, <2>5 DEF ReaderKnows, a
    <2> QED
      BY <2>6
  <1>5. CASE Answer \/ Refuse \/ AnswerHit
    BY <1>5, AnswersAligned
  <1>6. CASE Change \/ RequestLost \/ UNCHANGED vars
    <2>1. UNCHANGED <<line, pc, escaped, buf, need>>
      BY <1>6 DEF Change, RequestLost, vars, reader
    <2>2. Awaits(lab[1])' = Awaits(lab[1]) /\ Got' = Got
      BY <2>1 DEF Awaits, Got
    <2>3. line # <<>> => ReaderAt(lab[1])'
      BY <1>1, <2>1, <2>2 DEF ReaderAt, ReaderKnows
    <2>4. ReaderKnows(lab)'
      BY <1>1, <2>1, <2>3 DEF ReaderKnows
    <2> QED
      BY <2>4
  <1> QED
    BY <1>2, <1>3, <1>4, <1>5, <1>6 DEF Next, Program

\* As long as nothing but bytes of the objects and end flags are damaged, the
\* reader is back at the select only between two answers, whatever bytes need
\* escaping and however a length is written: it never takes a byte of one
\* answer for a byte of the next (receive_message).
THEOREM ReaderAligned == Spec => []Aligned
  <1>1. DbInv /\ AlignInv /\ [Next]_vars => (DbInv /\ AlignInv)'
    BY DbInvNext, AlignInvNext DEF DbInv
  <1>2. Init => DbInv /\ AlignInv
    BY DbInvInit, AlignInvInit
  <1>3. DbInv /\ AlignInv => Aligned
    <2> SUFFICES ASSUME DbInv, AlignInv, pc = "select", hits \subseteq Harmless,
                        line # <<>>
                 PROVE  Got = FLAG
      BY DEF Aligned
    <2>1. PICK lab : ReaderKnows(lab)
      BY DEF AlignInv
    <2> DEFINE a == lab[1]
    <2>2. a \in Label /\ Means(a, Head(line)) /\ ReaderAt(a)
      BY <2>1, LabelledTail DEF ReaderKnows, DbInv
    <2> HIDE DEF a
    <2>3. a.at = 0 => Got = FLAG
      <3>1. a.at = 0 => a.half = "whole"
        BY <2>2 DEF Means, Label
      <3> QED
        BY <2>2, <3>1 DEF Means, Got
    <2>4. a.at > 0 => Got = FLAG
      BY <2>2 DEF ReaderAt, Idle
    <2> QED
      BY <2>2, <2>3, <2>4 DEF Label
  <1> QED
    BY <1>1, <1>2, <1>3, PTL DEF Spec
=============================================================================

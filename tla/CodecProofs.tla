----------------------------- MODULE CodecProofs -----------------------------
(***************************************************************************)
(* Theorems about Codec: calculateCRC computes the remainder of a division *)
(* of polynomials, and a receiver accepts what was sent and nothing else.  *)
(***************************************************************************)
EXTENDS Codec, TLAPS, WellFoundedInduction, SequenceTheorems

-----------------------------------------------------------------------------
(* Induction on natural numbers, by the least one where something fails *)

LEMMA Induction ==
  ASSUME NEW T, 0 \in T, \A n \in Nat : n \in T => n + 1 \in T
  PROVE  \A n \in Nat : n \in T
<1> DEFINE Bad == Nat \ T
<1>1. SUFFICES ASSUME Bad # {} PROVE FALSE
  BY <1>1
<1>2. PICK x \in Bad : \A y \in Bad : ~ (<<y, x>> \in OpToRel(<, Nat))
  BY <1>1, NatLessThanWellFounded, WFMin
<1>3. x \in Nat /\ x # 0 /\ x - 1 \in Nat /\ x - 1 < x /\ (x - 1) + 1 = x
  <2>1. x \in Nat /\ x \notin T
    OBVIOUS
  <2>2. x # 0
    BY <2>1
  <2> QED BY <2>1, <2>2
<1>4. <<x - 1, x>> \in OpToRel(<, Nat)
  BY <1>3 DEF OpToRel
<1>5. x - 1 \notin Bad
  BY <1>2, <1>4
<1> QED BY <1>2, <1>3, <1>5

-----------------------------------------------------------------------------
(* Polynomials *)

LEMMA UpMember ==
  ASSUME NEW x \in SUBSET Nat, NEW n \in Nat
  PROVE  /\ Up(x, n) \in SUBSET Nat
         /\ \A k \in Nat : k \in Up(x, n) <=> k >= n /\ k - n \in x
<1>1. ASSUME NEW k \in Nat, k >= n, k - n \in x PROVE k \in Up(x, n)
  <2>1. k = (k - n) + n
    OBVIOUS
  <2> QED BY <1>1, <2>1 DEF Up
<1> QED BY <1>1 DEF Up

LEMMA PlusMember ==
  ASSUME NEW x, NEW y
  PROVE  \A k : k \in Plus(x, y) <=> ((k \in x) # (k \in y))
BY DEF Plus

\* What calculateCRC does to the bits of its register.
LEMMA ShiftOnceMember ==
  ASSUME NEW r \in Word(16)
  PROVE  /\ ShiftOnce(r) \in Word(16)
         /\ \A k \in Nat : k \in ShiftOnce(r) <=>
              ((k \in 1 .. 15 /\ k - 1 \in r) # (15 \in r /\ k \in {0, 5, 12}))
<1> DEFINE up == Up(r, 1) \cap 0 .. 15
<1>1. r \in SUBSET Nat /\ r \subseteq 0 .. 15
  BY DEF Word
<1>2. \A k \in Nat : k \in up <=> k \in 1 .. 15 /\ k - 1 \in r
  BY <1>1, UpMember
<1>3. ShiftOnce(r) = IF 15 \in r THEN Plus(up, {0, 5, 12}) ELSE up
  BY DEF ShiftOnce, Polynomial
<1>4. up \in SUBSET Nat /\ up \subseteq 0 .. 15
  OBVIOUS
<1> HIDE DEF up
<1>5. CASE 15 \in r
  BY <1>2, <1>3, <1>4, <1>5 DEF Plus, Word
<1>6. CASE 15 \notin r
  BY <1>2, <1>3, <1>4, <1>6 DEF Word
<1> QED BY <1>5, <1>6

LEMMA MultipleMember ==
  ASSUME NEW q \in SUBSET Nat
  PROVE  \A k \in Nat : k \in Multiple(q) <=>
           (((k >= 16 /\ k - 16 \in q) # (k >= 12 /\ k - 12 \in q))
              # ((k >= 5 /\ k - 5 \in q) # (k \in q)))
<1>1. \A n \in {5, 12, 16} : \A k \in Nat : k \in Up(q, n) <=> k >= n /\ k - n \in q
  BY UpMember
<1> QED BY <1>1 DEF Multiple, Plus

\* The state of a division by n places.
Division(n) == [crc : Word(16), quotient : Word(n)]

\* s is the division of d.
Divides(d, s) == \A k \in Nat : k \in Plus(d, s.crc) <=> k \in Multiple(s.quotient)

\* One shift of the register carries on the division by one place.
LEMMA ShiftDivides ==
  ASSUME NEW d \in SUBSET Nat, NEW n \in Nat, NEW s \in Division(n), Divides(d, s)
  PROVE  Shift(s) \in Division(n + 1) /\ Divides(Up(d, 1), Shift(s))
<1> DEFINE r == s.crc
           q == s.quotient
           t == 15 \in r
           new == Up(q, 1) \cup (IF t THEN {0} ELSE {})
<1>1. /\ r \in Word(16) /\ q \in SUBSET Nat /\ new \in SUBSET Nat
      /\ q \subseteq 0 .. n - 1
      /\ Shift(s) = [crc |-> ShiftOnce(r), quotient |-> new]
  BY UpMember DEF Division, Word, Shift
<1>3. \A k \in Nat : k \in new <=> (k >= 1 /\ k - 1 \in q) \/ (k = 0 /\ t)
  BY <1>1, UpMember
<1>2. Shift(s) \in Division(n + 1)
  <2>1. new \subseteq 0 .. (n + 1) - 1
    BY <1>1, <1>3
  <2> QED BY <1>1, <2>1, ShiftOnceMember DEF Division, Word
<1>4. \A k \in Nat : k \in Up(d, 1) <=> k >= 1 /\ k - 1 \in d
  BY UpMember
<1>5. ASSUME NEW k \in Nat
      PROVE  k \in Plus(Up(d, 1), ShiftOnce(r)) <=> k \in Multiple(new)
  <2> HIDE DEF new, r, q
  <2>1. k \in Plus(Up(d, 1), ShiftOnce(r)) <=>
          ((k >= 1 /\ k - 1 \in d)
             # ((k \in 1 .. 15 /\ k - 1 \in r) # (t /\ k \in {0, 5, 12})))
    BY <1>1, <1>4, ShiftOnceMember, PlusMember
  <2>2. k \in Multiple(new) <=>
          (((k >= 16 /\ k - 16 \in new) # (k >= 12 /\ k - 12 \in new))
              # ((k >= 5 /\ k - 5 \in new) # (k \in new)))
    BY <1>1, MultipleMember
  <2>3. /\ (k >= 16 /\ k - 16 \in new) <=> (k >= 17 /\ k - 17 \in q) \/ (k = 16 /\ t)
        /\ (k >= 12 /\ k - 12 \in new) <=> (k >= 13 /\ k - 13 \in q) \/ (k = 12 /\ t)
        /\ (k >= 5 /\ k - 5 \in new) <=> (k >= 6 /\ k - 6 \in q) \/ (k = 5 /\ t)
        /\ k \in new <=> (k >= 1 /\ k - 1 \in q) \/ (k = 0 /\ t)
    <3>1. ASSUME NEW i \in {16, 12, 5, 0}
          PROVE  (k >= i /\ k - i \in new) <=>
                   (k >= i + 1 /\ k - (i + 1) \in q) \/ (k = i /\ t)
      <4>1. CASE k >= i
        <5>1. k - i \in Nat /\ (k - i >= 1 <=> k >= i + 1) /\ (k - i) - 1 = k - (i + 1)
          BY <3>1, <4>1
        <5> QED BY <1>3, <5>1, <3>1, <4>1
      <4>2. CASE ~(k >= i)
        BY <3>1, <4>2
      <4> QED BY <4>1, <4>2
    <3> QED BY <3>1, <1>3
  <2>4. k >= 1 =>
          ((k - 1 \in d) # (k - 1 \in r)) =
          (((k >= 17 /\ k - 17 \in q) # (k >= 13 /\ k - 13 \in q))
              # ((k >= 6 /\ k - 6 \in q) # (k - 1 \in q)))
    <3> SUFFICES ASSUME k >= 1
                 PROVE ((k - 1 \in d) # (k - 1 \in r)) =
                       (((k >= 17 /\ k - 17 \in q) # (k >= 13 /\ k - 13 \in q))
                         # ((k >= 6 /\ k - 6 \in q) # (k - 1 \in q)))
      OBVIOUS
    <3>1. PICK j \in Nat : j = k - 1
      OBVIOUS
    <3>2. ((j \in d) # (j \in r)) =
            (((j >= 16 /\ j - 16 \in q) # (j >= 12 /\ j - 12 \in q))
              # ((j >= 5 /\ j - 5 \in q) # (j \in q)))
      BY <1>1, MultipleMember, PlusMember DEF Divides, r, q
    <3> QED BY <3>1, <3>2
  <2>5. r \subseteq 0 .. 15
    BY <1>1 DEF Word
  <2>6. k >= 17 => k - 1 \notin r
    BY <2>5
  <2> QED BY <2>1, <2>2, <2>3, <2>4, <2>5, <2>6
<1>6. Shift(s).crc = ShiftOnce(r) /\ Shift(s).quotient = new
  BY <1>1
<1> HIDE DEF new, r
<1> QED BY <1>2, <1>5, <1>6 DEF Divides

LEMMA UpTwice ==
  ASSUME NEW x \in SUBSET Nat, NEW m \in Nat, NEW n \in Nat
  PROVE  Up(Up(x, m), n) = Up(x, m + n)
<1>1. /\ Up(x, m) \in SUBSET Nat /\ Up(x, m + n) \in SUBSET Nat
      /\ Up(Up(x, m), n) \in SUBSET Nat
  <2>1. Up(x, m) \in SUBSET Nat /\ m + n \in Nat
    BY UpMember
  <2> QED BY <2>1, UpMember
<1>2. ASSUME NEW k \in Nat PROVE k \in Up(Up(x, m), n) <=> k \in Up(x, m + n)
  <2>1. k \in Up(Up(x, m), n) <=> k >= n /\ k - n \in Up(x, m)
    BY <1>1, UpMember
  <2>2. k >= n => (k - n \in Up(x, m) <=> k - n >= m /\ (k - n) - m \in x)
    BY UpMember
  <2>3. k \in Up(x, m + n) <=> k >= m + n /\ k - (m + n) \in x
    BY UpMember
  <2> QED BY <2>1, <2>2, <2>3
<1> QED BY <1>1, <1>2

LEMMA ShiftTwiceDivides ==
  ASSUME NEW d \in SUBSET Nat, NEW n \in Nat, NEW s \in Division(n),
         Divides(d, s)
  PROVE  ShiftTwice(s) \in Division(n + 2) /\ Divides(Up(d, 2), ShiftTwice(s))
<1>1. Up(d, 1) \in SUBSET Nat /\ Up(Up(d, 1), 1) = Up(d, 2)
  BY UpMember, UpTwice
<1>2. Shift(s) \in Division(n + 1) /\ Divides(Up(d, 1), Shift(s))
  BY ShiftDivides
<1>3. /\ Shift(Shift(s)) \in Division(n + 2)
      /\ Divides(Up(Up(d, 1), 1), Shift(Shift(s)))
  <2>1. n + 1 \in Nat /\ (n + 1) + 1 = n + 2
    OBVIOUS
  <2>2. Shift(Shift(s)) \in Division((n + 1) + 1)
    BY <1>1, <1>2, <2>1, ShiftDivides
  <2> QED BY <1>1, <1>2, <2>1, <2>2, ShiftDivides
<1> QED BY <1>1, <1>3 DEF ShiftTwice

\* A byte carries on the division by eight places.
LEMMA AddByteDivides ==
  ASSUME NEW d \in SUBSET Nat, NEW n \in Nat, NEW s \in Division(n),
         Divides(d, s), NEW b \in Byte
  PROVE  /\ AddByte(s, b) \in Division(n + 8)
         /\ Divides(Up(Plus(d, Up(b, 8)), 8), AddByte(s, b))
<1> DEFINE t == [s EXCEPT !.crc = Plus(@, Up(b, 8))]
           e == Plus(d, Up(b, 8))
<1>1. b \in SUBSET Nat /\ b \subseteq 0 .. 7
  BY DEF Byte, Word
<1>2. Up(b, 8) \in SUBSET Nat /\ Up(b, 8) \subseteq 0 .. 15
  <2>1. \A k \in Nat : k \in Up(b, 8) <=> k >= 8 /\ k - 8 \in b
    BY <1>1, UpMember
  <2>2. Up(b, 8) \in SUBSET Nat
    BY <1>1, UpMember
  <2> QED BY <1>1, <2>1, <2>2
<1>3. /\ t \in Division(n) /\ t.crc = Plus(s.crc, Up(b, 8))
      /\ t.quotient = s.quotient /\ e \in SUBSET Nat
  BY <1>2 DEF Division, Plus, Word
<1>4. Divides(e, t)
  <2>1. \A k \in Nat : k \in Plus(e, t.crc) <=> k \in Plus(d, s.crc)
    BY <1>3 DEF Plus
  <2> QED BY <1>3, <2>1 DEF Divides
<1> HIDE DEF t, e
<1>5. /\ Up(e, 2) \in SUBSET Nat /\ Up(e, 4) \in SUBSET Nat /\ Up(e, 6) \in SUBSET Nat
      /\ Up(Up(e, 2), 2) = Up(e, 4) /\ Up(Up(e, 4), 2) = Up(e, 6)
      /\ Up(Up(e, 6), 2) = Up(e, 8)
  <2>1. \A i \in Nat : Up(e, i) \in SUBSET Nat /\ Up(Up(e, i), 2) = Up(e, i + 2)
    BY <1>3, UpMember, UpTwice
  <2> QED BY <2>1
<1>a. /\ n + 2 \in Nat /\ n + 4 \in Nat /\ n + 6 \in Nat
      /\ (n + 2) + 2 = n + 4 /\ (n + 4) + 2 = n + 6 /\ (n + 6) + 2 = n + 8
  OBVIOUS
<1>6. ShiftTwice(t) \in Division(n + 2) /\ Divides(Up(e, 2), ShiftTwice(t))
  BY <1>3, <1>4, ShiftTwiceDivides
<1>7. /\ ShiftTwice(ShiftTwice(t)) \in Division(n + 4)
      /\ Divides(Up(e, 4), ShiftTwice(ShiftTwice(t)))
  <2>1. ShiftTwice(ShiftTwice(t)) \in Division((n + 2) + 2)
    BY <1>5, <1>a, <1>6, ShiftTwiceDivides
  <2> QED BY <1>5, <1>a, <1>6, <2>1, ShiftTwiceDivides
<1>8. /\ ShiftTwice(ShiftTwice(ShiftTwice(t))) \in Division(n + 6)
      /\ Divides(Up(e, 6), ShiftTwice(ShiftTwice(ShiftTwice(t))))
  <2>1. ShiftTwice(ShiftTwice(ShiftTwice(t))) \in Division((n + 4) + 2)
    BY <1>5, <1>a, <1>7, ShiftTwiceDivides
  <2> QED BY <1>5, <1>a, <1>7, <2>1, ShiftTwiceDivides
<1>9. /\ ShiftTwice(ShiftTwice(ShiftTwice(ShiftTwice(t)))) \in Division(n + 8)
      /\ Divides(Up(e, 8), ShiftTwice(ShiftTwice(ShiftTwice(ShiftTwice(t)))))
  <2>1. ShiftTwice(ShiftTwice(ShiftTwice(ShiftTwice(t)))) \in Division((n + 6) + 2)
    BY <1>5, <1>a, <1>8, ShiftTwiceDivides
  <2> QED BY <1>5, <1>a, <1>8, <2>1, ShiftTwiceDivides
<1> QED BY <1>9 DEF AddByte, t, e

\* What n bytes of d stand for in the division.
DividendOf(d, n) == Plus(Up(Spelled(d, n), 16), 8 * n .. 8 * n + 15)

LEMMA DividendType ==
  ASSUME NEW d, NEW n \in Nat
  PROVE  DividendOf(d, n) \in SUBSET Nat
<1>1. Spelled(d, n) \in SUBSET Nat /\ 8 * n .. 8 * n + 15 \in SUBSET Nat
  BY DEF Spelled
<1>2. Up(Spelled(d, n), 16) \in SUBSET Nat
  BY <1>1, UpMember
<1> QED BY <1>1, <1>2 DEF DividendOf, Plus

\* One more byte moves them up by eight places.
LEMMA DividendStep ==
  ASSUME NEW d \in Seq(Byte), NEW n \in Nat, n < Len(d)
  PROVE  /\ DividendOf(d, n) \in SUBSET Nat
         /\ DividendOf(d, n + 1) = Up(Plus(DividendOf(d, n), Up(d[n + 1], 8)), 8)
<1> DEFINE b == d[n + 1]
           A == Spelled(d, n)
           B == Spelled(d, n + 1)
           D == DividendOf(d, n)
           E == Plus(D, Up(b, 8))
<1>1. b \in SUBSET Nat /\ b \subseteq 0 .. 7 /\ b \in Byte
  BY DEF Byte, Word
<1>2. A \in SUBSET Nat /\ B \in SUBSET Nat
  BY DEF Spelled
<1>3. \A k \in Nat : k \in A <=> k < 8 * n /\ k % 8 \in d[n - k \div 8]
  BY DEF Spelled
<1>4. \A k \in Nat : k \in B <=> k < 8 * (n + 1) /\ k % 8 \in d[(n + 1) - k \div 8]
  BY DEF Spelled
<1>5. ASSUME NEW k \in Nat PROVE k \in B <=> (k >= 8 /\ k - 8 \in A) \/ k \in b
  <2>1. CASE k >= 8
    <3>1. PICK j \in Nat : j = k - 8
      BY <2>1
    <3>2. k % 8 = j % 8 /\ k \div 8 = j \div 8 + 1 /\ j \div 8 \in Nat
      BY <3>1
    <3>3. (n + 1) - k \div 8 = n - j \div 8 /\ (k < 8 * (n + 1) <=> j < 8 * n)
      BY <3>1, <3>2
    <3>4. k \notin b
      BY <1>1, <2>1
    <3> QED BY <1>3, <1>4, <2>1, <3>1, <3>2, <3>3, <3>4
  <2>2. CASE ~(k >= 8)
    <3>1. k % 8 = k /\ k \div 8 = 0 /\ (n + 1) - 0 = n + 1 /\ k < 8 * (n + 1)
      BY <2>2
    <3> QED BY <1>4, <2>2, <3>1
  <2> QED BY <2>1, <2>2
<1>6. D \in SUBSET Nat /\ DividendOf(d, n + 1) \in SUBSET Nat
  <2>1. Up(A, 16) \in SUBSET Nat /\ Up(B, 16) \in SUBSET Nat
    BY <1>2, UpMember
  <2>2. /\ 8 * n .. 8 * n + 15 \in SUBSET Nat
        /\ 8 * (n + 1) .. 8 * (n + 1) + 15 \in SUBSET Nat
    OBVIOUS
  <2> QED BY <2>1, <2>2 DEF DividendOf, Plus
<1>7. \A k \in Nat : k \in D <=> ((k >= 16 /\ k - 16 \in A) # (k \in 8 * n .. 8 * n + 15))
  BY <1>2, UpMember, PlusMember DEF DividendOf
<1>8. \A k \in Nat : k \in DividendOf(d, n + 1) <=>
        ((k >= 16 /\ k - 16 \in B) # (k \in 8 * (n + 1) .. 8 * (n + 1) + 15))
  BY <1>2, UpMember, PlusMember DEF DividendOf
<1>9. /\ E \in SUBSET Nat /\ Up(E, 8) \in SUBSET Nat
      /\ \A k \in Nat : k \in E <=> ((k \in D) # (k >= 8 /\ k - 8 \in b))
      /\ \A k \in Nat : k \in Up(E, 8) <=> k >= 8 /\ k - 8 \in E
  <2>1. Up(b, 8) \in SUBSET Nat /\ \A k \in Nat : k \in Up(b, 8) <=> k >= 8 /\ k - 8 \in b
    BY <1>1, UpMember
  <2>2. E \in SUBSET Nat
    BY <1>6, <2>1 DEF Plus
  <2> QED BY <2>1, <2>2, UpMember, PlusMember
<1> HIDE DEF A, B, D, E, b
<1>10. ASSUME NEW k \in Nat PROVE k \in DividendOf(d, n + 1) <=> k \in Up(E, 8)
  <2>1. CASE k < 8
    BY <1>8, <1>9, <2>1
  <2>2. CASE k >= 8
    <3>1. PICK j \in Nat : j = k - 8 /\ k = j + 8
      BY <2>2
    <3>2. k \in Up(E, 8) <=> ((j \in D) # (j >= 8 /\ j - 8 \in b))
      BY <1>9, <2>2, <3>1
    <3>3. j \in D <=> ((j >= 16 /\ j - 16 \in A) # (j \in 8 * n .. 8 * n + 15))
      BY <1>7
    <3>4. k \in DividendOf(d, n + 1) <=>
            ((k >= 16 /\ k - 16 \in B) # (j \in 8 * n .. 8 * n + 15))
      BY <1>8, <3>1
    <3>5. CASE k >= 16
      <4>1. PICK i \in Nat : i = k - 16 /\ i = j - 8
        BY <3>1, <3>5
      <4>2. i \in B <=> (i >= 8 /\ i - 8 \in A) \/ i \in b
        BY <1>5
      <4>3. i >= 8 /\ i - 8 \in A => i \notin b
        BY <1>1 DEF b
      <4>4. i - 8 = j - 16 /\ (i >= 8 <=> j >= 16) /\ j >= 8
        BY <4>1, <3>1
      <4> QED BY <3>2, <3>3, <3>4, <3>5, <4>1, <4>2, <4>3, <4>4
    <3>6. CASE ~(k >= 16)
      BY <3>1, <3>2, <3>3, <3>4, <3>6
    <3> QED BY <3>5, <3>6
  <2> QED BY <2>1, <2>2
<1> QED BY <1>6, <1>9, <1>10 DEF D, E, b

-----------------------------------------------------------------------------
(* Remainders *)

\* A set of numbers below n that is not empty has a greatest element.
LEMMA Greatest ==
  ASSUME NEW n \in Nat, NEW x \in Word(n), x # {}
  PROVE  \E m \in x : \A k \in x : k <= m
<1> DEFINE T == {j \in Nat : \A k \in x : k < n - j}
<1>1. SUFFICES ASSUME \A m \in x : \E k \in x : ~(k <= m) PROVE FALSE
  BY <1>1
<1>2. x \subseteq 0 .. n - 1
  BY DEF Word
<1>3. 0 \in T
  BY <1>2
<1>4. ASSUME NEW j \in Nat, j \in T PROVE j + 1 \in T
  <2>1. ASSUME NEW k \in x PROVE k < n - (j + 1)
    <3>1. PICK l \in x : ~(l <= k)
      BY <1>1
    <3>2. l < n - j /\ l \in Nat /\ k \in Nat
      BY <1>2, <1>4
    <3> QED BY <3>1, <3>2
  <2> QED BY <2>1
<1>5. n \in T
  <2> HIDE DEF T
  <2> QED BY <1>3, <1>4, Induction
<1>6. \A k \in x : k < n - n /\ k >= 0
  BY <1>2, <1>5
<1> HIDE DEF T
<1>7. PICK k : k \in x
  OBVIOUS
<1> QED BY <1>2, <1>6, <1>7

\* A polynomial has one remainder: calculateCRC has no choice.
LEMMA RemainderUnique ==
  ASSUME NEW d \in SUBSET Nat, NEW n \in Nat, NEW s \in Division(n),
         NEW t \in Division(n), Divides(d, s), Divides(d, t)
  PROVE  s = t
<1> DEFINE q == Plus(s.quotient, t.quotient)
<1>1. /\ s.crc \subseteq 0 .. 15 /\ t.crc \subseteq 0 .. 15
      /\ s.quotient \in SUBSET Nat /\ t.quotient \in SUBSET Nat
      /\ q \in Word(n) /\ q \in SUBSET Nat
  BY DEF Division, Word, Plus
<1>2. ASSUME NEW k \in Nat
      PROVE  ((k \in s.crc) # (k \in t.crc)) = (k \in Multiple(q))
  <2>1. /\ ((k \in d) # (k \in s.crc)) = (k \in Multiple(s.quotient))
        /\ ((k \in d) # (k \in t.crc)) = (k \in Multiple(t.quotient))
    BY PlusMember DEF Divides
  <2>2. \A j : (j \in q) = ((j \in s.quotient) # (j \in t.quotient))
    BY PlusMember
  <2> DEFINE M(x) == (((k >= 16 /\ k - 16 \in x) # (k >= 12 /\ k - 12 \in x))
                        # ((k >= 5 /\ k - 5 \in x) # (k \in x)))
  <2>3. /\ (k \in Multiple(q)) = M(q)
        /\ (k \in Multiple(s.quotient)) = M(s.quotient)
        /\ (k \in Multiple(t.quotient)) = M(t.quotient)
    BY <1>1, MultipleMember
  <2>4. M(q) = (M(s.quotient) # M(t.quotient))
    <3> HIDE DEF q
    <3> QED BY <2>2
  <2> HIDE DEF M
  <2> QED BY <2>1, <2>3, <2>4
<1>3. q = {}
  <2>1. SUFFICES ASSUME q # {} PROVE FALSE
    BY <2>1
  <2> HIDE DEF q
  <2>2. PICK m \in q : \A k \in q : k <= m
    BY <1>1, <2>1, Greatest
  <2>3. PICK k \in Nat : k = m + 16 /\ m \in Nat
    BY <1>1, <2>2
  <2>4. /\ k - 16 = m /\ k >= 16 /\ k - 12 > m /\ k - 5 > m /\ k > m
        /\ k - 12 \notin q /\ k - 5 \notin q /\ k \notin q
    BY <1>1, <2>2, <2>3
  <2>5. k \in Multiple(q)
    BY <1>1, <2>2, <2>4, MultipleMember
  <2> QED BY <1>1, <1>2, <2>4, <2>5
<1>4. s.quotient = t.quotient
  BY <1>3 DEF Plus
<1>5. \A k \in Nat : k \notin Multiple(q)
  BY <1>3 DEF Multiple, Plus, Up
<1>6. s.crc = t.crc
  <2> HIDE DEF q
  <2> QED BY <1>1, <1>2, <1>5
<1> QED BY <1>4, <1>6 DEF Division

-----------------------------------------------------------------------------
(* Types *)

\* The frame of m as encode has it before the CRC.
Blank(m) == headEncode(m, Bits(HeadSize + Len(m.body.dump))) \o m.body.dump

TypeInv ==
  /\ msg \in Messages /\ sender \in {"little", "big"} /\ receiver \in {"little", "big"}
  /\ stage \in {"message", "encoding", "sent", "checking", "decoded"}
  /\ frame \in Seq(Byte) /\ data \in Seq(Byte)
  /\ stage # "message" => /\ Len(frame) = HeadSize + Len(msg.body.dump)
                          /\ Len(data) = Len(frame)
  /\ done \in 0 .. Len(data)
  /\ stage \notin {"encoding", "checking"} => done = Len(data)
  /\ damaged \in BOOLEAN

LEMMA ByteOfType == \A x, n : ByteOf(x, n) \in Byte
BY DEF ByteOf, Byte, Word

LEMMA HeadType ==
  ASSUME NEW m \in Messages, NEW len
  PROVE  /\ headEncode(m, len) \in Seq(Byte) /\ Len(headEncode(m, len)) = 14
         /\ headEncode(m, len)[8] = {} /\ headEncode(m, len)[9] = {}
<1> DEFINE h == headEncode(m, len)
<1>1. m.version \in Byte /\ m.type \in Byte /\ {} \in Byte
  BY MessagesAssumption DEF Byte, Word
<1> QED BY <1>1, ByteOfType DEF headEncode

LEMMA BlankType ==
  ASSUME NEW m \in Messages
  PROVE  /\ Blank(m) \in Seq(Byte) /\ m.body.dump \in Seq(Byte)
         /\ Len(m.body.dump) \in Nat
         /\ Len(Blank(m)) = HeadSize + Len(m.body.dump)
         /\ \A i \in 1 .. 14 :
              Blank(m)[i] = headEncode(m, Bits(HeadSize + Len(m.body.dump)))[i]
         /\ \A i \in 1 .. Len(m.body.dump) : Blank(m)[HeadSize + i] = m.body.dump[i]
         /\ Blank(m)[8] = {} /\ Blank(m)[9] = {}
<1> DEFINE h == headEncode(m, Bits(HeadSize + Len(m.body.dump)))
           d == m.body.dump
<1>1. h \in Seq(Byte) /\ Len(h) = 14 /\ h[8] = {} /\ h[9] = {}
  BY HeadType
<1>2. d \in Seq(Byte) /\ Len(d) \in Nat
  BY MessagesAssumption
<1> HIDE DEF h, d
<1>3. /\ h \o d \in Seq(Byte) /\ Len(h \o d) = 14 + Len(d)
      /\ \A i \in 1 .. 14 : (h \o d)[i] = h[i]
      /\ \A i \in 1 .. Len(d) : (h \o d)[14 + i] = d[i]
  <2>1. /\ h \o d \in Seq(Byte) /\ Len(h \o d) = Len(h) + Len(d)
        /\ \A i \in 1 .. Len(h) + Len(d) :
             (h \o d)[i] = IF i <= Len(h) THEN h[i] ELSE d[i - Len(h)]
    BY <1>1, <1>2, ConcatProperties
  <2>2. ASSUME NEW i \in 1 .. Len(d) PROVE (h \o d)[14 + i] = d[i]
    <3>1. /\ 14 + i \in 1 .. Len(h) + Len(d) /\ ~(14 + i <= Len(h))
          /\ (14 + i) - Len(h) = i
      BY <1>1, <1>2
    <3> QED BY <2>1, <3>1
  <2> QED BY <1>1, <1>2, <2>1, <2>2
<1>4. HeadSize = 14
  BY DEF HeadSize
<1>5. Blank(m) = h \o d
  BY DEF Blank, h, d
<1>6. /\ Blank(m) \in Seq(Byte) /\ d \in Seq(Byte) /\ Len(d) \in Nat
      /\ Len(Blank(m)) = HeadSize + Len(d)
      /\ \A i \in 1 .. 14 : Blank(m)[i] = h[i]
      /\ \A i \in 1 .. Len(d) : Blank(m)[HeadSize + i] = d[i]
      /\ Blank(m)[8] = {} /\ Blank(m)[9] = {}
  <2>1. 8 \in 1 .. 14 /\ 9 \in 1 .. 14
    OBVIOUS
  <2> QED BY <1>1, <1>2, <1>3, <1>4, <1>5, <2>1
<1> QED BY <1>6 DEF h, d

LEMMA WithCRCType ==
  ASSUME NEW f \in Seq(Byte), NEW v \in Byte \X Byte
  PROVE  /\ WithCRC(f, v) \in Seq(Byte) /\ Len(WithCRC(f, v)) = Len(f)
         /\ DOMAIN f = 1 .. Len(f) /\ DOMAIN WithCRC(f, v) = 1 .. Len(f)
         /\ \A i \in 1 .. Len(f) :
              WithCRC(f, v)[i] = IF i = 8 THEN v[1] ELSE IF i = 9 THEN v[2] ELSE f[i]
<1>1. /\ v[1] \in Byte /\ v[2] \in Byte /\ Len(f) \in Nat
      /\ f \in [1 .. Len(f) -> Byte] /\ DOMAIN f = 1 .. Len(f)
  BY LenProperties
<1>2. WithCRC(f, v) \in [1 .. Len(f) -> Byte]
  BY <1>1 DEF WithCRC
<1>3. WithCRC(f, v) \in Seq(Byte) /\ Len(WithCRC(f, v)) = Len(f)
  BY <1>1, <1>2
<1>4. \A i \in 1 .. Len(f) :
        WithCRC(f, v)[i] = IF i = 8 THEN v[1] ELSE IF i = 9 THEN v[2] ELSE f[i]
  BY <1>1 DEF WithCRC
<1> QED BY <1>1, <1>2, <1>3, <1>4

LEMMA HostOrderType ==
  \A x, order : HostOrder(x, order) \in Byte \X Byte
BY ByteOfType DEF HostOrder

LEMMA PlusByte == \A x, y \in Byte : Plus(x, y) \in Byte
BY DEF Plus, Byte, Word

LEMMA Counting ==
  ASSUME TypeInv, done < Len(data)
  PROVE  /\ done \in Nat /\ done + 1 \in Nat /\ data[done + 1] \in Byte
         /\ done + 1 \in 1 .. Len(data)
BY DEF TypeInv

\* AddNext, as a step of a division.
LEMMA AddNextStep ==
  ASSUME TypeInv, AddNext, NEW d \in SUBSET Nat,
         NEW n \in Nat, crc \in Word(16), quotient \in Word(n),
         Divides(d, [crc |-> crc, quotient |-> quotient])
  PROVE  /\ crc' \in Word(16) /\ quotient' \in Word(n + 8)
         /\ Divides(Up(Plus(d, Up(data[done + 1], 8)), 8),
                    [crc |-> crc', quotient |-> quotient'])
<1> DEFINE s == [crc |-> crc, quotient |-> quotient]
           t == AddByte(s, data[done + 1])
<1>1. s \in Division(n) /\ data[done + 1] \in Byte
  BY Counting DEF Division, AddNext
<1>2. crc' = t.crc /\ quotient' = t.quotient
  BY DEF AddNext, AddThis
<1> HIDE DEF s, t
<1>3. /\ t \in Division(n + 8)
      /\ Divides(Up(Plus(d, Up(data[done + 1], 8)), 8), t)
  BY <1>1, AddByteDivides DEF s, t
<1>4. t = [crc |-> crc', quotient |-> quotient']
  BY <1>2, <1>3 DEF Division
<1> QED BY <1>2, <1>3, <1>4 DEF Division

\* Damage keeps the length of a frame.
LEMMA HurtType ==
  ASSUME NEW f \in Seq(Byte), NEW i \in 1 .. Len(f) - 1, NEW mask \in Byte \X Byte
  PROVE  /\ Hurt(f, i, mask) \in Seq(Byte) /\ Len(Hurt(f, i, mask)) = Len(f)
         /\ \A j \in 1 .. Len(f) :
              Hurt(f, i, mask)[j] = IF j = i THEN Plus(f[j], mask[1])
                                    ELSE IF j = i + 1 THEN Plus(f[j], mask[2])
                                    ELSE f[j]
<1>1. /\ Len(f) \in Nat /\ i \in 1 .. Len(f) /\ i + 1 \in 1 .. Len(f) /\ i # i + 1
      /\ DOMAIN f = 1 .. Len(f) /\ f \in [1 .. Len(f) -> Byte]
      /\ f[i] \in Byte /\ f[i + 1] \in Byte /\ mask[1] \in Byte /\ mask[2] \in Byte
  BY LenProperties
<1> DEFINE u == Plus(f[i], mask[1])
           v == Plus(f[i + 1], mask[2])
           g == [f EXCEPT ![i] = u]
<1>2. u \in Byte /\ v \in Byte
  BY <1>1, PlusByte
<1>3. g \in Seq(Byte) /\ Len(g) = Len(f) /\ \A j \in 1 .. Len(f) : g[j] = IF j = i THEN u ELSE f[j]
  BY <1>1, <1>2, ExceptSeq
<1>4. Hurt(f, i, mask) = [g EXCEPT ![i + 1] = v]
  BY <1>1, <1>3 DEF Hurt
<1> HIDE DEF g, u, v
<1>5. /\ Hurt(f, i, mask) \in Seq(Byte) /\ Len(Hurt(f, i, mask)) = Len(f)
      /\ \A j \in 1 .. Len(f) :
           Hurt(f, i, mask)[j] = IF j = i + 1 THEN v ELSE g[j]
  BY <1>1, <1>2, <1>3, <1>4, ExceptSeq
<1> QED BY <1>1, <1>3, <1>5 DEF u, v

LEMMA TypeInit == Init => TypeInv
<1> SUFFICES ASSUME Init PROVE TypeInv
  OBVIOUS
<1>1. <<>> \in Seq(Byte) /\ Len(<<>>) = 0
  OBVIOUS
<1>2. frame \in Seq(Byte) /\ data \in Seq(Byte) /\ done = Len(data) /\ done \in 0 .. Len(data)
  BY <1>1 DEF Init
<1> QED BY <1>2 DEF Init, TypeInv

LEMMA StartType ==
  ASSUME NEW d \in Seq(Byte), StartCRC(d)
  PROVE  data' = d /\ done' = 0 /\ done' \in 0 .. Len(data')
BY DEF StartCRC

LEMMA TypeNext == TypeInv /\ [Next]_vars => TypeInv'
<1> SUFFICES ASSUME TypeInv, [Next]_vars PROVE TypeInv'
  OBVIOUS
<1>1. CASE Encode
  <2>1. frame' = Blank(msg) /\ StartCRC(Blank(msg)) /\ Blank(msg) \in Seq(Byte)
    BY <1>1, BlankType DEF Encode, Blank, TypeInv
  <2>2. Len(frame') = HeadSize + Len(msg.body.dump)
    BY <2>1, BlankType DEF TypeInv
  <2> QED BY <1>1, <2>1, <2>2, StartType DEF Encode, TypeInv, ends
<1>2. CASE AddNext
  <2>2. done' \in 0 .. Len(data') /\ data' = data
    BY <1>2, Counting DEF AddNext
  <2>3. stage \in {"encoding", "checking"}
    BY <1>2 DEF AddNext, TypeInv
  <2> QED BY <1>2, <2>2, <2>3 DEF AddNext, TypeInv, ends
<1>3. CASE FillCRC
  <2>1. /\ frame' \in Seq(Byte) /\ Len(frame') = Len(frame)
    BY <1>3, HostOrderType, WithCRCType DEF FillCRC, TypeInv
  <2> QED BY <1>3, <2>1 DEF FillCRC, TypeInv, ends, sum
<1>4. CASE \E i \in DOMAIN frame, mask \in Masks : Damage(i, mask)
  <2>1. PICK i \in DOMAIN frame, mask \in Masks : Damage(i, mask)
    BY <1>4
  <2>2. mask \in Byte \X Byte /\ frame \in Seq(Byte) /\ i \in 1 .. Len(frame) - 1
    BY <2>1, LenProperties, WireAssumption DEF TypeInv, Damage
  <2>3. /\ frame' \in Seq(Byte) /\ Len(frame') = Len(frame)
    BY <2>1, <2>2, HurtType DEF Damage
  <2> QED BY <2>1, <2>3 DEF Damage, TypeInv, ends, sum
<1>5. CASE Refuse
  BY <1>5 DEF Refuse, TypeInv, ends, sum
<1>6. CASE CheckCRC
  <2>1. <<{}, {}>> \in Byte \X Byte
    BY DEF Byte, Word
  <2>2. /\ WithCRC(frame, <<{}, {}>>) \in Seq(Byte)
        /\ Len(WithCRC(frame, <<{}, {}>>)) = Len(frame)
    BY <2>1, WithCRCType DEF TypeInv
  <2>3. stage = "sent" /\ StartCRC(WithCRC(frame, <<{}, {}>>))
    BY <1>6 DEF CheckCRC, Passes
  <2> QED BY <1>6, <2>2, <2>3, StartType DEF CheckCRC, TypeInv, ends
<1>7. CASE CompareCRC
  BY <1>7 DEF CompareCRC, TypeInv, ends, sum
<1>8. CASE UNCHANGED vars
  BY <1>8 DEF vars, ends, sum, TypeInv
<1> QED BY <1>1, <1>2, <1>3, <1>4, <1>5, <1>6, <1>7, <1>8 DEF Next

-----------------------------------------------------------------------------
(* The remainder *)

\* CrcIsRemainder, and what holds before the first calculation.
CrcInv ==
  /\ crc \in Word(16) /\ quotient \in Word(8 * done)
  /\ stage # "message" =>
       Divides(DividendOf(data, done), [crc |-> crc, quotient |-> quotient])

\* The division starts at the initial value of the register.
LEMMA StartDivides ==
  ASSUME NEW d, StartCRC(d)
  PROVE  /\ crc' \in Word(16) /\ quotient' \in Word(8 * done')
         /\ Divides(DividendOf(data', done'), [crc |-> crc', quotient |-> quotient'])
<1>1. crc' = 0 .. 15 /\ quotient' = {} /\ done' = 0
  BY DEF StartCRC
<1>2. Spelled(data', 0) = {}
  BY DEF Spelled
<1>3. DividendOf(data', 0) = 0 .. 15
  BY <1>2 DEF DividendOf, Up, Plus
<1>4. Plus(0 .. 15, 0 .. 15) = {} /\ Multiple({}) = {}
  BY DEF Plus, Multiple, Up
<1> QED BY <1>1, <1>3, <1>4 DEF Divides, Word

LEMMA CrcNext == TypeInv /\ CrcInv /\ [Next]_vars => CrcInv'
<1> SUFFICES ASSUME TypeInv, CrcInv, [Next]_vars PROVE CrcInv'
  OBVIOUS
<1>1. CASE Encode
  BY <1>1, StartDivides DEF Encode, CrcInv
<1>2. CASE AddNext
  <2> DEFINE n == 8 * done
             d == DividendOf(data, done)
  <2>1. /\ stage # "message" /\ done \in Nat /\ done < Len(data) /\ n \in Nat
        /\ data' = data /\ done' = done + 1 /\ n + 8 = 8 * done'
    BY <1>2 DEF AddNext, TypeInv
  <2>2. /\ d \in SUBSET Nat
        /\ DividendOf(data, done + 1) = Up(Plus(d, Up(data[done + 1], 8)), 8)
    BY <2>1, DividendStep DEF TypeInv
  <2>3. Divides(d, [crc |-> crc, quotient |-> quotient])
    BY <2>1 DEF CrcInv
  <2> HIDE DEF d, n
  <2>4. /\ crc' \in Word(16) /\ quotient' \in Word(n + 8)
        /\ Divides(Up(Plus(d, Up(data[done + 1], 8)), 8),
                   [crc |-> crc', quotient |-> quotient'])
    BY <1>2, <2>1, <2>2, <2>3, AddNextStep DEF CrcInv, n
  <2> QED BY <2>1, <2>2, <2>4 DEF CrcInv
<1>3. CASE FillCRC
  BY <1>3 DEF FillCRC, CrcInv, sum
<1>4. CASE \E i \in DOMAIN frame, mask \in Masks : Damage(i, mask)
  BY <1>4 DEF Damage, CrcInv, sum
<1>5. CASE Refuse
  BY <1>5 DEF Refuse, CrcInv, sum
<1>6. CASE CheckCRC
  BY <1>6, StartDivides DEF CheckCRC, CrcInv
<1>7. CASE CompareCRC
  BY <1>7 DEF CompareCRC, CrcInv, sum
<1>8. CASE UNCHANGED vars
  BY <1>8 DEF vars, sum, CrcInv
<1> QED BY <1>1, <1>2, <1>3, <1>4, <1>5, <1>6, <1>7, <1>8 DEF Next

LEMMA CrcInit == Init => CrcInv
BY DEF Init, CrcInv, Word

LEMMA CrcCorrect == CrcInv /\ TypeInv => CrcIsRemainder
<1> SUFFICES ASSUME CrcInv, TypeInv, stage # "message" PROVE CrcIsRemainder
  BY DEF CrcIsRemainder
<1>1. done \in Nat /\ quotient \in SUBSET Nat /\ crc \in SUBSET Nat
  BY DEF TypeInv, CrcInv, Word
<1>2. Dividend = DividendOf(data, done)
  BY DEF Dividend, DividendOf
<1>3. Dividend \in SUBSET Nat
  <2>1. Spelled(data, done) \in SUBSET Nat
    BY <1>1 DEF Spelled
  <2>2. Up(Spelled(data, done), 16) \in SUBSET Nat
    BY <2>1, UpMember
  <2>3. 8 * done .. 8 * done + 15 \in SUBSET Nat
    BY <1>1
  <2> QED BY <2>2, <2>3 DEF Dividend, Plus
<1>4. Plus(Dividend, crc) \in SUBSET Nat
  BY <1>1, <1>3 DEF Plus
<1>5. Multiple(quotient) \in SUBSET Nat
  <2>1. \A n \in {16, 12, 5} : Up(quotient, n) \in SUBSET Nat
    BY <1>1, UpMember
  <2> QED BY <1>1, <2>1 DEF Multiple, Plus
<1>6. \A k \in Nat : k \in Plus(Dividend, crc) <=> k \in Multiple(quotient)
  BY <1>2 DEF CrcInv, Divides
<1>7. Plus(Dividend, crc) = Multiple(quotient)
  BY <1>4, <1>5, <1>6
<1> QED BY <1>7 DEF CrcIsRemainder, CrcInv

\* At every moment of a calculation, for input of any length, the register holds
\* the remainder its comment names (myproto.cpp:21-39), which is the only one
\* (RemainderUnique).
THEOREM CrcComputesRemainder == Spec => []CrcIsRemainder
<1>1. Init => TypeInv /\ CrcInv
  BY TypeInit, CrcInit
<1>2. TypeInv /\ CrcInv /\ [Next]_vars => (TypeInv /\ CrcInv)'
  BY TypeNext, CrcNext
<1>3. TypeInv /\ CrcInv => CrcIsRemainder
  BY CrcCorrect
<1> QED BY <1>1, <1>2, <1>3, PTL DEF Spec

-----------------------------------------------------------------------------
(* Bursts *)

LEMMA Least ==
  ASSUME NEW x \in SUBSET Nat, x # {}
  PROVE  \E m \in x : \A k \in x : m <= k
<1>1. PICK m \in x : \A y \in x : ~ (<<y, m>> \in OpToRel(<, Nat))
  BY NatLessThanWellFounded, WFMin
<1>2. ASSUME NEW y \in x, ~ (m <= y) PROVE FALSE
  <2>1. y \in Nat /\ m \in Nat /\ y < m
    BY <1>2
  <2>2. <<y, m>> \in OpToRel(<, Nat)
    BY <2>1 DEF OpToRel
  <2> QED BY <1>1, <2>2
<1> QED BY <1>2

\* A multiple of the generator spans more than 16 places: the least and the
\* greatest element of q stand for terms nothing cancels.
LEMMA MultipleSpan ==
  ASSUME NEW n \in Nat, NEW q \in Word(n), NEW b \in Nat,
         \A k \in Nat : k \in Multiple(q) => k \in b .. b + 15
  PROVE  q = {}
<1>1. SUFFICES ASSUME q # {} PROVE FALSE
  BY <1>1
<1>2. q \in SUBSET Nat
  BY DEF Word
<1>3. PICK l \in q : \A k \in q : l <= k
  BY <1>1, <1>2, Least
<1>4. PICK m \in q : \A k \in q : k <= m
  BY <1>1, Greatest
<1>5. l \in Nat /\ m \in Nat /\ l <= m
  BY <1>2, <1>3
<1>6. l \in Multiple(q)
  <2>1. ~(l - 16 \in q) /\ ~(l - 12 \in q) /\ ~(l - 5 \in q)
    BY <1>3, <1>5
  <2> QED BY <1>2, <1>5, <2>1, MultipleMember
<1>7. m + 16 \in Multiple(q)
  <2>1. PICK k \in Nat : k = m + 16
    BY <1>5
  <2>2. /\ k - 16 = m /\ k >= 16 /\ k - 12 \notin q /\ k - 5 \notin q /\ k \notin q
    BY <1>4, <1>5, <2>1
  <2> QED BY <1>2, <2>1, <2>2, MultipleMember
<1>8. l \in b .. b + 15 /\ m + 16 \in b .. b + 15
  BY <1>5, <1>6, <1>7
<1> QED BY <1>5, <1>8

\* Where the bytes of d and of Hurt(d, i, mask) differ.
LEMMA HurtBits ==
  ASSUME NEW d \in Seq(Byte), NEW i \in 1 .. Len(d) - 1,
         NEW mask \in (Byte \X Byte) \ {<<{}, {}>>}
  PROVE  LET n == Len(d)
             E == Plus(DividendOf(d, n), DividendOf(Hurt(d, i, mask), n))
             b == 8 * (n - i - 1) + 16
         IN  b \in Nat /\ E # {} /\ E \subseteq b .. b + 15
<1> DEFINE n == Len(d)
           h == Hurt(d, i, mask)
           b == 8 * (n - i - 1)
           A == Spelled(d, n)
           B == Spelled(h, n)
           E == Plus(DividendOf(d, n), DividendOf(h, n))
<1>1. /\ n \in Nat /\ i \in Nat /\ i + 1 \in 1 .. n /\ i \in 1 .. n /\ b \in Nat
      /\ mask[1] \in Byte /\ mask[2] \in Byte /\ (mask[1] # {} \/ mask[2] # {})
  BY LenProperties
<1>2. h \in Seq(Byte) /\ \A j \in 1 .. n :
        h[j] = IF j = i THEN Plus(d[j], mask[1])
               ELSE IF j = i + 1 THEN Plus(d[j], mask[2]) ELSE d[j]
  BY HurtType
<1>3. A \in SUBSET Nat /\ B \in SUBSET Nat
  BY <1>1 DEF Spelled
<1>4. /\ \A k \in Nat : k \in A <=> k < 8 * n /\ k % 8 \in d[n - k \div 8]
      /\ \A k \in Nat : k \in B <=> k < 8 * n /\ k % 8 \in h[n - k \div 8]
  BY <1>1 DEF Spelled
<1> HIDE DEF h, A, B, n, b
<1>5. ASSUME NEW k \in Nat
      PROVE  ((k \in A) # (k \in B)) <=>
               k < 8 * n /\ \/ n - k \div 8 = i /\ k % 8 \in mask[1]
                            \/ n - k \div 8 = i + 1 /\ k % 8 \in mask[2]
  <2>1. CASE ~(k < 8 * n)
    BY <1>4, <2>1
  <2>2. CASE k < 8 * n
    <3>1. PICK j : j = n - k \div 8
      OBVIOUS
    <3>2. j \in 1 .. n /\ j \in Nat
      BY <1>1, <2>2, <3>1
    <3>3. i # i + 1
      BY <1>1
    <3> QED BY <1>2, <1>4, <2>2, <3>1, <3>2, <3>3, PlusMember
  <2> QED BY <2>1, <2>2
<1>6. ASSUME NEW k \in Nat, (k \in A) # (k \in B) PROVE k \in b .. b + 15
  <2>1. n - k \div 8 = i \/ n - k \div 8 = i + 1
    BY <1>5, <1>6
  <2> DEFINE j == k \div 8
  <2>2. j \in Nat /\ k \in 8 * j .. 8 * j + 7
    OBVIOUS
  <2> HIDE DEF j
  <2>3. j = n - i \/ j = n - i - 1
    BY <1>1, <2>1, <2>2 DEF j
  <2> QED BY <1>1, <2>2, <2>3 DEF b
<1>7. \E k \in Nat : (k \in A) # (k \in B)
  <2>1. CASE mask[1] # {}
    <3>1. PICK e \in mask[1] : e \in 0 .. 7
      BY <1>1, <2>1 DEF Byte, Word
    <3>2. PICK k \in Nat : k = 8 * (n - i) + e
      BY <1>1, <3>1
    <3>3. k \div 8 = n - i /\ k % 8 = e /\ k < 8 * n /\ n - (n - i) = i
      BY <1>1, <3>1, <3>2
    <3> QED BY <1>5, <3>1, <3>3
  <2>2. CASE mask[2] # {}
    <3>1. PICK e \in mask[2] : e \in 0 .. 7
      BY <1>1, <2>2 DEF Byte, Word
    <3>2. PICK k \in Nat : k = 8 * (n - (i + 1)) + e
      BY <1>1, <3>1
    <3>3. /\ k \div 8 = n - (i + 1) /\ k % 8 = e /\ k < 8 * n
          /\ n - (n - (i + 1)) = i + 1
      BY <1>1, <3>1, <3>2
    <3> QED BY <1>5, <3>1, <3>3
  <2> QED BY <1>1, <2>1, <2>2
<1>8. E \in SUBSET Nat /\ \A k \in Nat : k \in E <=>
        k >= 16 /\ ((k - 16 \in A) # (k - 16 \in B))
  <2>1. /\ Up(A, 16) \in SUBSET Nat /\ Up(B, 16) \in SUBSET Nat
        /\ \A k \in Nat : k \in Up(A, 16) <=> k >= 16 /\ k - 16 \in A
        /\ \A k \in Nat : k \in Up(B, 16) <=> k >= 16 /\ k - 16 \in B
    BY <1>3, UpMember
  <2>2. 8 * n .. 8 * n + 15 \in SUBSET Nat
    BY <1>1
  <2>3. E = Plus(Up(A, 16), Up(B, 16))
    BY DEF DividendOf, Plus, A, B
  <2> QED BY <2>1, <2>2, <2>3 DEF Plus
<1> HIDE DEF E
<1>9. E # {}
  <2>1. PICK j \in Nat : (j \in A) # (j \in B)
    BY <1>7
  <2>2. j + 16 \in Nat /\ j + 16 >= 16 /\ (j + 16) - 16 = j
    OBVIOUS
  <2> QED BY <1>8, <2>1, <2>2
<1>10. E \subseteq b + 16 .. (b + 16) + 15
  <2>1. ASSUME NEW k \in E PROVE k \in b + 16 .. (b + 16) + 15
    <3>1. k \in Nat /\ k >= 16 /\ ((k - 16 \in A) # (k - 16 \in B))
      BY <1>8, <2>1
    <3>2. PICK j \in Nat : j = k - 16
      BY <3>1
    <3>3. j \in b .. b + 15
      BY <1>6, <3>1, <3>2
    <3> QED BY <1>1, <3>1, <3>2, <3>3
  <2> QED BY <2>1
<1> QED BY <1>1, <1>9, <1>10 DEF b, E, h, n

\* The CRCs of two inputs that differ in a burst differ.
LEMMA BurstChangesCRC ==
  ASSUME NEW d \in Seq(Byte), NEW i \in 1 .. Len(d) - 1,
         NEW mask \in (Byte \X Byte) \ {<<{}, {}>>},
         NEW s \in Division(8 * Len(d)), NEW t \in Division(8 * Len(d)),
         Divides(DividendOf(d, Len(d)), s),
         Divides(DividendOf(Hurt(d, i, mask), Len(d)), t)
  PROVE  s.crc # t.crc
<1> DEFINE D == DividendOf(d, Len(d))
           H == DividendOf(Hurt(d, i, mask), Len(d))
           E == Plus(D, H)
           b == 8 * (Len(d) - i - 1) + 16
           n == 8 * Len(d)
           q == Plus(s.quotient, t.quotient)
<1>1. SUFFICES ASSUME s.crc = t.crc PROVE FALSE
  BY <1>1
<1>2. b \in Nat /\ E # {} /\ E \subseteq b .. b + 15 /\ n \in Nat
  BY HurtBits, LenProperties
<1>3. /\ s.quotient \in SUBSET Nat /\ t.quotient \in SUBSET Nat
      /\ q \in Word(n) /\ q \in SUBSET Nat
  BY DEF Division, Word, Plus
<1>4. ASSUME NEW k \in Nat PROVE (k \in E) = (k \in Multiple(q))
  <2>1. /\ ((k \in D) # (k \in s.crc)) = (k \in Multiple(s.quotient))
        /\ ((k \in H) # (k \in t.crc)) = (k \in Multiple(t.quotient))
    BY PlusMember DEF Divides
  <2>2. \A j : (j \in q) = ((j \in s.quotient) # (j \in t.quotient))
    BY PlusMember
  <2> DEFINE M(x) == (((k >= 16 /\ k - 16 \in x) # (k >= 12 /\ k - 12 \in x))
                        # ((k >= 5 /\ k - 5 \in x) # (k \in x)))
  <2>3. /\ (k \in Multiple(q)) = M(q)
        /\ (k \in Multiple(s.quotient)) = M(s.quotient)
        /\ (k \in Multiple(t.quotient)) = M(t.quotient)
    BY <1>3, MultipleMember
  <2>4. M(q) = (M(s.quotient) # M(t.quotient))
    <3> HIDE DEF q
    <3> QED BY <2>2
  <2>5. (k \in E) = ((k \in D) # (k \in H))
    BY PlusMember
  <2> HIDE DEF M, D, H, E, q
  <2> QED BY <1>1, <2>1, <2>3, <2>4, <2>5
<1> HIDE DEF D, H, E, q, b, n
<1>5. q = {}
  BY <1>2, <1>3, <1>4, MultipleSpan
<1>6. Multiple(q) = {}
  BY <1>5 DEF Multiple, Plus, Up
<1>7. E \subseteq Nat
  BY <1>2
<1> QED BY <1>2, <1>4, <1>6, <1>7

-----------------------------------------------------------------------------
(* A frame from end to end *)

LEMMA PlusChanges ==
  ASSUME NEW x, NEW y, Plus(x, y) = x
  PROVE  y = {}
BY PlusMember

\* ntohs after htons, and ntohl after htonl.
LEMMA ShortOf ==
  ASSUME NEW x \in Word(16)
  PROVE  Up(ByteOf(x, 1), 8) \cup ByteOf(x, 0) = x
<1>1. x \subseteq 0 .. 15
  BY DEF Word
<1>2. ASSUME NEW k \in x PROVE k \in Up(ByteOf(x, 1), 8) \cup ByteOf(x, 0)
  <2>1. CASE k < 8
    BY <1>1, <2>1 DEF ByteOf
  <2>2. CASE ~(k < 8)
    <3>1. k - 8 \in ByteOf(x, 1) /\ k = (k - 8) + 8
      BY <1>1, <2>2 DEF ByteOf
    <3> QED BY <3>1 DEF Up
  <2> QED BY <2>1, <2>2
<1>3. ASSUME NEW k \in Up(ByteOf(x, 1), 8) \cup ByteOf(x, 0) PROVE k \in x
  BY DEF ByteOf, Up
<1> QED BY <1>2, <1>3

LEMMA LongOf ==
  ASSUME NEW x \in Word(32)
  PROVE  Up(Up(ByteOf(x, 3), 8) \cup ByteOf(x, 2), 16)
           \cup (Up(ByteOf(x, 1), 8) \cup ByteOf(x, 0)) = x
<1> DEFINE high == {k \in 0 .. 15 : k + 16 \in x}
           low  == {k \in 0 .. 15 : k \in x}
<1>1. high \in Word(16) /\ low \in Word(16) /\ x \subseteq 0 .. 31
  BY DEF Word
<1>2. /\ ByteOf(high, 1) = ByteOf(x, 3) /\ ByteOf(high, 0) = ByteOf(x, 2)
      /\ ByteOf(low, 1) = ByteOf(x, 1) /\ ByteOf(low, 0) = ByteOf(x, 0)
  <2>1. \A k \in 0 .. 7 :
          /\ k + 8 * 1 \in high <=> k + 8 * 3 \in x
          /\ k + 8 * 0 \in high <=> k + 8 * 2 \in x
          /\ k + 8 * 1 \in low <=> k + 8 * 1 \in x
          /\ k + 8 * 0 \in low <=> k + 8 * 0 \in x
    OBVIOUS
  <2> HIDE DEF high, low
  <2> QED BY <2>1 DEF ByteOf
<1>3. Up(high, 16) \cup low = x
  <2>1. ASSUME NEW k \in x PROVE k \in Up(high, 16) \cup low
    <3>1. CASE k < 16
      BY <1>1, <3>1
    <3>2. CASE ~(k < 16)
      <4>1. k - 16 \in high /\ k = (k - 16) + 16
        BY <1>1, <3>2
      <4> QED BY <4>1 DEF Up
    <3> QED BY <3>1, <3>2
  <2>2. ASSUME NEW k \in Up(high, 16) \cup low PROVE k \in x
    BY DEF Up
  <2> QED BY <2>1, <2>2
<1> HIDE DEF high, low
<1> QED BY <1>1, <1>2, <1>3, ShortOf

LEMMA HostOrderUnique ==
  ASSUME NEW x \in Word(16), NEW y \in Word(16), NEW order,
         HostOrder(x, order) = HostOrder(y, order)
  PROVE  x = y
<1>1. ByteOf(x, 0) = ByteOf(y, 0) /\ ByteOf(x, 1) = ByteOf(y, 1)
  BY DEF HostOrder
<1> QED BY <1>1, ShortOf

\* A frame of m that carries the CRC c.
Signed(m, c, order) == WithCRC(Blank(m), HostOrder(c, order))

\* What the receiver reports of m when all is well.
Received(m) ==
  [accepted |-> TRUE, version |-> m.version, server |-> m.server,
   len |-> Bits(HeadSize + Len(m.body.dump)), sequence |-> m.sequence,
   type |-> m.type, dump |-> m.body.dump]

\* parserHead and parserBody read back what encode wrote, and the CRC can be
\* taken out again.
LEMMA SignedFrame ==
  ASSUME NEW m \in Messages, NEW c, NEW order
  PROVE  LET f == Signed(m, c, order)
         IN  /\ f \in Seq(Byte) /\ Len(f) = Len(Blank(m)) /\ f[1] = m.version
             /\ <<f[8], f[9]>> = HostOrder(c, order)
             /\ SubSeq(f, HeadSize + 1, Len(f)) = m.body.dump
             /\ Fields(f) = Received(m)
             /\ WithCRC(f, <<{}, {}>>) = Blank(m)
<1> DEFINE v == HostOrder(c, order)
           B == Blank(m)
           f == Signed(m, c, order)
           d == m.body.dump
           len == Bits(HeadSize + Len(d))
           n == Len(d)
<1>1. /\ B \in Seq(Byte) /\ d \in Seq(Byte) /\ n \in Nat /\ Len(B) = 14 + n
      /\ \A i \in 1 .. 14 : B[i] = headEncode(m, len)[i]
      /\ \A i \in 1 .. n : B[14 + i] = d[i]
      /\ B[8] = {} /\ B[9] = {}
  BY BlankType DEF HeadSize
<1>2. v \in Byte \X Byte /\ v = <<v[1], v[2]>> /\ {} \in Byte
  BY HostOrderType DEF Byte, Word
<1> HIDE DEF v, B, d, n
<1>3. /\ f \in Seq(Byte) /\ Len(f) = Len(B) /\ DOMAIN f = 1 .. Len(B)
      /\ \A i \in 1 .. Len(B) :
           f[i] = IF i = 8 THEN v[1] ELSE IF i = 9 THEN v[2] ELSE B[i]
  BY <1>1, <1>2, WithCRCType DEF Signed, v, B
<1> HIDE DEF f
<1>4. f[8] = v[1] /\ f[9] = v[2] /\ \A i \in (1 .. 14) \ {8, 9} : f[i] = headEncode(m, len)[i]
  BY <1>1, <1>3
<1> HIDE DEF len
<1>5. /\ f[1] = m.version /\ f[2] = ByteOf(m.server, 1) /\ f[3] = ByteOf(m.server, 0)
      /\ f[4] = ByteOf(len, 3) /\ f[5] = ByteOf(len, 2)
      /\ f[6] = ByteOf(len, 1) /\ f[7] = ByteOf(len, 0)
      /\ f[10] = ByteOf(m.sequence, 3) /\ f[11] = ByteOf(m.sequence, 2)
      /\ f[12] = ByteOf(m.sequence, 1) /\ f[13] = ByteOf(m.sequence, 0)
      /\ f[14] = m.type
  BY <1>4 DEF headEncode
<1>6. SubSeq(f, 15, Len(f)) = d
  <2> DEFINE g == SubSeq(f, 15, Len(f))
  <2>1. Len(f) = 14 + n /\ \A i \in 15 .. Len(f) : f[i] \in Byte
    BY <1>1, <1>3
  <2>2. /\ g \in Seq(Byte) /\ Len(g) = n /\ \A i \in 1 .. n : g[i] = f[15 + i - 1]
    <3>1. /\ g \in Seq(Byte)
          /\ Len(g) = IF 15 <= Len(f) THEN Len(f) - 15 + 1 ELSE 0
          /\ \A i \in 1 .. Len(f) - 15 + 1 : g[i] = f[15 + i - 1]
      <4>1. 15 \in Int /\ Len(f) \in Int
        BY <1>1, <2>1
      <4> QED BY <2>1, <4>1, SubSeqProperties
    <3> HIDE DEF g
    <3> QED BY <1>1, <2>1, <3>1
  <2>3. ASSUME NEW i \in 1 .. n PROVE f[15 + i - 1] = d[i]
    <3>1. 15 + i - 1 = 14 + i /\ 14 + i \in 1 .. Len(B) /\ 14 + i # 8 /\ 14 + i # 9
      BY <1>1
    <3> QED BY <1>1, <1>3, <3>1
  <2> HIDE DEF g
  <2> QED BY <1>1, <2>2, <2>3, SeqEqual DEF g, n
<1>7. /\ Short(f, 1) = m.server /\ Long(f, 3) = len /\ Long(f, 9) = m.sequence
  <2>1. m.server \in Word(16) /\ len \in Word(32) /\ m.sequence \in Word(32)
    BY MessagesAssumption DEF len, Bits, Word
  <2>2. Short(f, 1) = Up(f[2], 8) \cup f[3]
    BY DEF Short
  <2>3. Long(f, 3) = Up(Up(f[4], 8) \cup f[5], 16) \cup (Up(f[6], 8) \cup f[7])
    BY DEF Short, Long
  <2>4. Long(f, 9) = Up(Up(f[10], 8) \cup f[11], 16) \cup (Up(f[12], 8) \cup f[13])
    BY DEF Short, Long
  <2> QED BY <1>5, <2>1, <2>2, <2>3, <2>4, ShortOf, LongOf
<1>8. WithCRC(f, <<{}, {}>>) = B
  <2> DEFINE g == WithCRC(f, <<{}, {}>>)
  <2>1. /\ g \in Seq(Byte) /\ Len(g) = Len(f)
        /\ \A i \in 1 .. Len(f) :
             g[i] = IF i = 8 THEN {} ELSE IF i = 9 THEN {} ELSE f[i]
    <3> DEFINE z == <<{}, {}>>
    <3>1. z \in Byte \X Byte /\ z[1] = {} /\ z[2] = {}
      BY <1>2
    <3> HIDE DEF z
    <3>2. /\ WithCRC(f, z) \in Seq(Byte) /\ Len(WithCRC(f, z)) = Len(f)
          /\ \A i \in 1 .. Len(f) :
               WithCRC(f, z)[i] = IF i = 8 THEN z[1] ELSE IF i = 9 THEN z[2] ELSE f[i]
      BY <1>3, <3>1, WithCRCType
    <3> QED BY <3>1, <3>2 DEF z
  <2> HIDE DEF g
  <2>2. \A i \in 1 .. Len(g) : g[i] = B[i]
    BY <1>1, <1>3, <2>1
  <2> QED BY <1>1, <1>3, <2>1, <2>2, SeqEqual DEF g
<1>9. Fields(f) = Received(m)
  <2>1. Fields(f) = [accepted |-> TRUE, version |-> f[1], server |-> Short(f, 1),
                     len |-> Long(f, 3), sequence |-> Long(f, 9), type |-> f[14],
                     dump |-> SubSeq(f, 15, Len(f))]
    BY DEF Fields, HeadSize
  <2> QED BY <1>5, <1>6, <1>7, <2>1 DEF Received, d, len
<1> QED BY <1>2, <1>3, <1>4, <1>5, <1>6, <1>8, <1>9 DEF f, v, B, d, HeadSize

\* The positions Damage chooses from.
Spots(f) == {i \in 1 .. Len(f) - 1 : i \notin 3 .. 7 /\ i # 9}

\* Damage to the CRC field changes what it says and nothing else; damage
\* elsewhere leaves it alone.
LEMMA HurtFrame ==
  ASSUME NEW f \in Seq(Byte), NEW i \in Spots(f),
         NEW mask \in (Byte \X Byte) \ {<<{}, {}>>}
  PROVE  LET h == Hurt(f, i, mask)
             blank == WithCRC(f, <<{}, {}>>)
         IN  IF i = 8
             THEN WithCRC(h, <<{}, {}>>) = blank /\ <<h[8], h[9]>> # <<f[8], f[9]>>
             ELSE /\ WithCRC(h, <<{}, {}>>) = Hurt(blank, i, mask)
                  /\ Len(f) >= 9 => <<h[8], h[9]>> = <<f[8], f[9]>>
<1> DEFINE h == Hurt(f, i, mask)
           v == <<{}, {}>>
           blank == WithCRC(f, v)
           g == WithCRC(h, v)
           k == Hurt(blank, i, mask)
<1>1. /\ Len(f) \in Nat /\ i \in 1 .. Len(f) - 1 /\ i \notin 3 .. 7 /\ i # 9
      /\ mask \in Byte \X Byte /\ (mask[1] # {} \/ mask[2] # {})
      /\ v \in Byte \X Byte /\ v[1] = {} /\ v[2] = {}
  BY LenProperties DEF Spots, Byte, Word
<1> HIDE DEF v
<1>2. /\ h \in Seq(Byte) /\ Len(h) = Len(f)
      /\ \A j \in 1 .. Len(f) : h[j] = IF j = i THEN Plus(f[j], mask[1])
                                       ELSE IF j = i + 1 THEN Plus(f[j], mask[2])
                                       ELSE f[j]
  BY <1>1, HurtType
<1>3. /\ blank \in Seq(Byte) /\ Len(blank) = Len(f)
      /\ \A j \in 1 .. Len(f) :
           blank[j] = IF j = 8 THEN {} ELSE IF j = 9 THEN {} ELSE f[j]
  BY <1>1, WithCRCType
<1> HIDE DEF h, blank
<1>4. /\ g \in Seq(Byte) /\ Len(g) = Len(f)
      /\ \A j \in 1 .. Len(f) :
           g[j] = IF j = 8 THEN {} ELSE IF j = 9 THEN {} ELSE h[j]
  <2>1. /\ WithCRC(h, v) \in Seq(Byte) /\ Len(WithCRC(h, v)) = Len(h)
        /\ \A j \in 1 .. Len(h) :
             WithCRC(h, v)[j] = IF j = 8 THEN v[1] ELSE IF j = 9 THEN v[2] ELSE h[j]
    BY <1>1, <1>2, WithCRCType
  <2> QED BY <1>1, <1>2, <2>1
<1>5. /\ k \in Seq(Byte) /\ Len(k) = Len(f)
      /\ \A j \in 1 .. Len(f) : k[j] = IF j = i THEN Plus(blank[j], mask[1])
                                       ELSE IF j = i + 1 THEN Plus(blank[j], mask[2])
                                       ELSE blank[j]
  BY <1>1, <1>3, HurtType
<1> HIDE DEF g, k
<1>6. CASE i = 8
  <2>1. 8 \in 1 .. Len(f) /\ 9 \in 1 .. Len(f)
    BY <1>1, <1>6
  <2>2. h[8] = Plus(f[8], mask[1]) /\ h[9] = Plus(f[9], mask[2])
    BY <1>2, <1>6, <2>1
  <2>3. h[8] # f[8] \/ h[9] # f[9]
    BY <1>1, <2>2, PlusChanges
  <2>4. \A j \in 1 .. Len(g) : g[j] = blank[j]
    BY <1>1, <1>2, <1>3, <1>4, <1>6
  <2>5. g = blank
    BY <1>3, <1>4, <2>4, SeqEqual
  <2> QED BY <1>6, <2>3, <2>5 DEF g, h, blank, v
<1>7. CASE i # 8
  <2>1. i # 8 /\ i # 9 /\ i + 1 # 8 /\ i + 1 # 9
    BY <1>1, <1>7
  <2>2. \A j \in 1 .. Len(g) : g[j] = k[j]
    BY <1>1, <1>2, <1>3, <1>4, <1>5, <2>1
  <2>3. g = k
    BY <1>4, <1>5, <2>2, SeqEqual
  <2>4. Len(f) >= 9 => h[8] = f[8] /\ h[9] = f[9]
    <3>1. Len(f) >= 9 => 8 \in 1 .. Len(f) /\ 9 \in 1 .. Len(f)
      BY <1>1
    <3> QED BY <1>2, <2>1, <3>1
  <2> QED BY <1>7, <2>3, <2>4 DEF g, h, k, blank, v
<1> QED BY <1>6, <1>7

-----------------------------------------------------------------------------
(* What the receiver accepts *)

\* c is the CRC of the message.
Sealed(c) ==
  \E q \in Word(8 * Len(Blank(msg))) :
    Divides(DividendOf(Blank(msg), Len(Blank(msg))), [crc |-> c, quotient |-> q])

Sent(c) == Signed(msg, c, sender)

\* The frame is the one sent with the CRC c, or the same after one burst.
Arrived(c) ==
  IF damaged THEN \E i \in Spots(Sent(c)), mask \in Masks : frame = Hurt(Sent(c), i, mask)
             ELSE frame = Sent(c)

Acceptable ==
  /\ msg.version \in {{}, {0}} /\ HeadSize + Len(msg.body.dump) <= MaxSize
  /\ validateJsonContent(msg.body)

FrameInv ==
  /\ stage \in {"message", "encoding"} => ~damaged
  /\ stage = "encoding" => frame = Blank(msg) /\ data = Blank(msg)
  /\ stage \in {"sent", "checking"} => \E c \in Word(16) : Sealed(c) /\ Arrived(c)
  /\ stage = "checking" =>
       data = WithCRC(frame, <<{}, {}>>) /\ (~damaged => Acceptable)
  /\ stage # "decoded" => decoded = Refused
  /\ AcceptedAsSent

LEMMA FrameInit == Init => FrameInv
BY DEF Init, FrameInv, AcceptedAsSent

\* What parserHead and parserBody decide about an undamaged frame.
LEMMA Undamaged ==
  ASSUME TypeInv, NEW c, frame = Sent(c)
  PROVE  ~BodyDamaged /\ (HeadPasses /\ validateJsonContent(msg.body) <=> Acceptable)
<1>1. msg \in Messages
  BY DEF TypeInv
<1>2. /\ frame[1] = msg.version
      /\ SubSeq(frame, HeadSize + 1, Len(frame)) = msg.body.dump
      /\ Len(frame) = HeadSize + Len(msg.body.dump)
  BY <1>1, SignedFrame, BlankType DEF Sent
<1> QED BY <1>2 DEF BodyDamaged, HeadPasses, Acceptable

\* A calculation that is done over what was sent ends in the CRC that was sent.
LEMMA SameCRC ==
  ASSUME TypeInv, CrcInv, NEW c \in Word(16), Sealed(c), stage # "message",
         data = Blank(msg), done = Len(data)
  PROVE  crc = c
<1> DEFINE B == Blank(msg)
           n == Len(B)
           s == [crc |-> crc, quotient |-> quotient]
<1>1. B \in Seq(Byte) /\ n \in Nat
  BY BlankType DEF TypeInv
<1>2. PICK q \in Word(8 * n) : Divides(DividendOf(B, n), [crc |-> c, quotient |-> q])
  BY DEF Sealed
<1>3. /\ s \in Division(8 * n) /\ [crc |-> c, quotient |-> q] \in Division(8 * n)
      /\ Divides(DividendOf(B, n), s) /\ 8 * n \in Nat
  BY <1>1 DEF CrcInv, Division
<1>4. DividendOf(B, n) \in SUBSET Nat
  BY <1>1, DividendType
<1>5. s = [crc |-> c, quotient |-> q]
  BY <1>2, <1>3, <1>4, RemainderUnique
<1> QED BY <1>5

\* Over a burst it does not.
LEMMA OtherCRC ==
  ASSUME TypeInv, CrcInv, NEW c \in Word(16), Sealed(c), stage # "message",
         NEW i \in Spots(Blank(msg)), NEW mask \in Masks,
         data = Hurt(Blank(msg), i, mask), done = Len(data)
  PROVE  crc # c
<1> DEFINE B == Blank(msg)
           n == Len(B)
           s == [crc |-> crc, quotient |-> quotient]
<1>1. /\ B \in Seq(Byte) /\ n \in Nat /\ i \in 1 .. n - 1
      /\ mask \in (Byte \X Byte) \ {<<{}, {}>>}
  <2>1. msg \in Messages
    BY DEF TypeInv
  <2>2. B \in Seq(Byte)
    BY <2>1, BlankType
  <2>3. i \in 1 .. n - 1
    BY DEF Spots
  <2>4. mask \in (Byte \X Byte) \ {<<{}, {}>>}
    BY WireAssumption
  <2> QED BY <2>2, <2>3, <2>4, LenProperties
<1>2. PICK q \in Word(8 * n) : Divides(DividendOf(B, n), [crc |-> c, quotient |-> q])
  BY DEF Sealed
<1>3. Len(data) = n
  BY <1>1, HurtType
<1> DEFINE t == [crc |-> c, quotient |-> q]
<1>4. /\ s \in Division(8 * n) /\ t \in Division(8 * n)
      /\ Divides(DividendOf(Hurt(B, i, mask), n), s)
  BY <1>3 DEF CrcInv, Division
<1> HIDE DEF s, t, B
<1>5. t.crc # s.crc
  BY <1>1, <1>2, <1>4, BurstChangesCRC DEF t
<1> QED BY <1>5 DEF s, t

\* The comparison of the two CRCs, between hosts of one byte order.
LEMMA CompareAccepts ==
  ASSUME TypeInv, CrcInv, FrameInv, CompareCRC, sender = receiver
  PROVE  decoded' = IF ~damaged THEN Received(msg) ELSE Refused
<1> DEFINE B == Blank(msg)
           said == <<frame[8], frame[9]>>
<1>1. PICK c \in Word(16) : Sealed(c) /\ Arrived(c)
  BY DEF FrameInv, CompareCRC
<1>2. /\ msg \in Messages /\ stage = "checking" /\ done = Len(data) /\ crc \in Word(16)
      /\ data = WithCRC(frame, <<{}, {}>>)
      /\ decoded' = IF HostOrder(crc, sender) = said THEN Fields(frame) ELSE Refused
  BY DEF TypeInv, CrcInv, FrameInv, CompareCRC
<1> DEFINE f == Sent(c)
<1>3. /\ f \in Seq(Byte) /\ Len(f) = Len(B) /\ <<f[8], f[9]>> = HostOrder(c, sender)
      /\ Fields(f) = Received(msg) /\ WithCRC(f, <<{}, {}>>) = B
  BY <1>2, SignedFrame DEF Sent
<1>4. Len(B) \in Nat /\ Len(B) >= 14
  <2>1. Len(B) = HeadSize + Len(msg.body.dump) /\ Len(msg.body.dump) \in Nat
    BY <1>2, BlankType
  <2> HIDE DEF B
  <2> QED BY <2>1 DEF HeadSize
<1> HIDE DEF f, B
<1>5. CASE ~damaged
  <2>1. frame = f
    BY <1>1, <1>5 DEF Arrived, f
  <2>2. crc = c
    BY <1>1, <1>2, <1>3, <2>1, SameCRC DEF B
  <2> QED BY <1>2, <1>3, <1>5, <2>1, <2>2
<1>6. CASE damaged
  <2>1. PICK i \in Spots(f), mask \in Masks : frame = Hurt(f, i, mask)
    BY <1>1, <1>6 DEF Arrived, f
  <2>2. mask \in (Byte \X Byte) \ {<<{}, {}>>}
    BY WireAssumption
  <2>3. CASE i = 8
    <3>1. data = B /\ said # HostOrder(c, sender)
      BY <1>2, <1>3, <2>1, <2>2, <2>3, HurtFrame
    <3>2. crc = c
      BY <1>1, <1>2, <3>1, SameCRC DEF B
    <3> QED BY <1>2, <1>6, <3>1, <3>2
  <2>4. CASE i # 8
    <3>1. data = Hurt(B, i, mask) /\ said = HostOrder(c, sender)
      BY <1>2, <1>3, <1>4, <2>1, <2>2, <2>4, HurtFrame
    <3>2. i \in Spots(B)
      BY <1>3, <2>1 DEF Spots
    <3>3. crc # c
      BY <1>1, <1>2, <3>1, <3>2, OtherCRC DEF B
    <3>4. HostOrder(crc, sender) # HostOrder(c, sender)
      BY <1>2, <3>3, HostOrderUnique
    <3> QED BY <1>2, <1>6, <3>1, <3>4
  <2> QED BY <2>3, <2>4
<1> QED BY <1>5, <1>6

LEMMA FrameNext == TypeInv /\ CrcInv /\ FrameInv /\ [Next]_vars => FrameInv'
<1> SUFFICES ASSUME TypeInv, CrcInv, FrameInv, [Next]_vars PROVE FrameInv'
  OBVIOUS
<1>1. CASE Encode
  BY <1>1 DEF Encode, FrameInv, AcceptedAsSent, StartCRC, Blank, ends
<1>2. CASE AddNext
  <2>1. stage \in {"encoding", "checking"}
    BY <1>2 DEF AddNext, TypeInv
  <2> QED BY <1>2, <2>1 DEF AddNext, FrameInv, AcceptedAsSent, Acceptable, Sealed,
        Arrived, Sent, ends
<1>3. CASE FillCRC
  <2>1. /\ frame = Blank(msg) /\ data = Blank(msg) /\ done = Len(data) /\ ~damaged
        /\ crc \in Word(16) /\ quotient \in Word(8 * done)
        /\ Divides(DividendOf(data, done), [crc |-> crc, quotient |-> quotient])
    BY <1>3 DEF FillCRC, FrameInv, CrcInv
  <2>2. Sealed(crc)
    BY <2>1 DEF Sealed
  <2>3. Sealed(crc)' /\ Arrived(crc)' /\ crc' = crc
    BY <1>3, <2>1, <2>2 DEF FillCRC, Sealed, Arrived, Sent, Signed, ends, sum
  <2> QED BY <1>3, <2>1, <2>3 DEF FillCRC, FrameInv, AcceptedAsSent
<1>4. CASE \E i \in DOMAIN frame, mask \in Masks : Damage(i, mask)
  <2>1. PICK i \in DOMAIN frame, mask \in Masks : Damage(i, mask)
    BY <1>4
  <2>2. PICK c \in Word(16) : Sealed(c) /\ Arrived(c)
    BY <2>1 DEF FrameInv, Damage
  <2>3. frame = Sent(c)
    BY <2>1, <2>2 DEF Arrived, Damage
  <2>4. i \in Spots(Sent(c))
    BY <2>1, <2>3, LenProperties DEF Spots, Damage, TypeInv
  <2>5. Sealed(c)' /\ Arrived(c)'
    BY <2>1, <2>2, <2>3, <2>4 DEF Damage, Sealed, Arrived, Sent, ends
  <2> QED BY <2>1, <2>2, <2>5 DEF Damage, FrameInv, AcceptedAsSent
<1>5. CASE Refuse
  <2>1. decoded' = Refused /\ stage' = "decoded"
    BY <1>5 DEF Refuse, FrameInv
  <2>2. ~(~damaged /\ Acceptable)
    <3>1. SUFFICES ASSUME ~damaged PROVE ~Acceptable
      BY <3>1
    <3>2. PICK c \in Word(16) : Arrived(c)
      BY <1>5 DEF FrameInv, Refuse
    <3>3. frame = Sent(c)
      BY <3>1, <3>2 DEF Arrived
    <3> QED BY <1>5, <3>3, Undamaged DEF Refuse
  <2> QED BY <1>5, <2>1, <2>2 DEF Refuse, FrameInv, AcceptedAsSent, Acceptable, ends
<1>6. CASE CheckCRC
  <2>1. /\ stage = "sent" /\ stage' = "checking" /\ data' = WithCRC(frame, <<{}, {}>>)
        /\ UNCHANGED <<msg, sender, receiver, frame, damaged, decoded>>
    BY <1>6 DEF CheckCRC, Passes, StartCRC, ends
  <2>2. PICK c \in Word(16) : Sealed(c) /\ Arrived(c)
    BY <2>1 DEF FrameInv
  <2>3. Sealed(c)' /\ Arrived(c)'
    BY <2>1, <2>2 DEF Sealed, Arrived, Sent
  <2>4. ~damaged => Acceptable
    <3>1. ~damaged => frame = Sent(c)
      BY <2>2 DEF Arrived
    <3> QED BY <1>6, <3>1, Undamaged DEF CheckCRC, Passes
  <2> QED BY <2>1, <2>3, <2>4 DEF FrameInv, AcceptedAsSent, Acceptable
<1>7. CASE CompareCRC
  <2>1. /\ stage = "checking" /\ stage' = "decoded" /\ (~damaged => Acceptable)
        /\ UNCHANGED <<msg, sender, receiver, damaged>>
    BY <1>7 DEF CompareCRC, FrameInv, ends
  <2>2. sender = receiver => decoded' = IF ~damaged THEN Received(msg) ELSE Refused
    BY <1>7, CompareAccepts
  <2>3. AcceptedAsSent'
    BY <2>1, <2>2 DEF AcceptedAsSent, Acceptable, Received
  <2> QED BY <2>1, <2>3 DEF FrameInv
<1>8. CASE UNCHANGED vars
  BY <1>8 DEF vars, ends, sum, FrameInv, AcceptedAsSent, Acceptable, Sealed, Arrived,
       Sent
<1> QED BY <1>1, <1>2, <1>3, <1>4, <1>5, <1>6, <1>7, <1>8 DEF Next

\* Between hosts of one byte order a receiver accepts every frame that is
\* undamaged, supported, short enough and valid, with every field as it was sent,
\* and no frame that a burst of one or two bytes has damaged: for messages of any
\* length and any burst, wherever it falls outside the length field and the borders
\* of the CRC field.
THEOREM AcceptsWhatWasSent == Spec => []AcceptedAsSent
<1>1. Init => TypeInv /\ CrcInv /\ FrameInv
  BY TypeInit, CrcInit, FrameInit
<1>2. TypeInv /\ CrcInv /\ FrameInv /\ [Next]_vars => (TypeInv /\ CrcInv /\ FrameInv)'
  BY TypeNext, CrcNext, FrameNext
<1>3. FrameInv => AcceptedAsSent
  BY DEF FrameInv
<1> QED BY <1>1, <1>2, <1>3, PTL DEF Spec

=============================================================================

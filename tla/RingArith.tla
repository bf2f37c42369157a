----------------------------- MODULE RingArith -----------------------------
(***************************************************************************)
(* The arithmetic of free-running pointers and of the entries of a ring    *)
(* that they name, for rings of any size: the lemmas on which the proofs   *)
(* about the rings of TxRing, RxRing and CtrlRing rest.                    *)
(***************************************************************************)
EXTENDS Integers, TLAPS

\* What is left of a number is an entry.
LEMMA ModRange ==
    ASSUME NEW n \in Nat \ {0}, NEW a \in Int
    PROVE  a % n \in 0 .. n - 1
OBVIOUS

\* A remainder is known by a quotient that leaves it.
LEMMA ModUnique ==
    ASSUME NEW n \in Nat \ {0}, NEW q \in Int, NEW r \in 0 .. n - 1
    PROVE  (n * q + r) % n = r
OBVIOUS

\* Every number has a quotient and a remainder.
LEMMA DivMod ==
    ASSUME NEW n \in Nat \ {0}, NEW a \in Int
    PROVE  \E d \in Int, r \in 0 .. n - 1 : a = n * d + r /\ a % n = r
<1>1. a \div n \in Int /\ a % n \in 0 .. n - 1 /\ a = n * (a \div n) + (a % n)
  OBVIOUS
<1> QED
  BY <1>1

\* Whole rounds do not change the entry.
LEMMA ModShift ==
    ASSUME NEW n \in Nat \ {0}, NEW a \in Int, NEW q \in Int
    PROVE  (a + n * q) % n = a % n
<1>1. PICK d \in Int, r \in 0 .. n - 1 : a = n * d + r /\ a % n = r
  BY DivMod, Zenon
<1>2. (n * (d + q) + r) % n = r
  BY ModUnique
<1>3. n * (d + q) = n * d + n * q
  OBVIOUS
<1> QED
  BY <1>1, <1>2, <1>3

\* The entry of a pointer is that of the entry of the pointer, moved on.
LEMMA ModAdd ==
    ASSUME NEW n \in Nat \ {0}, NEW a \in Int, NEW k \in Int
    PROVE  ((a % n) + k) % n = (a + k) % n
<1>1. PICK d \in Int, r \in 0 .. n - 1 : a = n * d + r /\ a % n = r
  BY DivMod, Zenon
<1>2. r + k \in Int
  OBVIOUS
<1>3. ((r + k) + n * d) % n = (r + k) % n
  BY <1>2, ModShift, Zenon
<1>4. (r + k) + n * d = a + k
  BY <1>1
<1> QED
  BY <1>1, <1>3, <1>4

\* Different entries of one round are different.
LEMMA ModInjective ==
    ASSUME NEW n \in Nat \ {0}, NEW a \in Int, NEW j \in 0 .. n - 1, NEW k \in 0 .. n - 1,
           (a + j) % n = (a + k) % n
    PROVE  j = k
<1>1. PICK s \in 0 .. n - 1 : a % n = s
  BY DivMod
<1>2. \A i \in Int : ((a % n) + i) % n = (a + i) % n
  BY ModAdd, Zenon
<1>3. \A i \in 0 .. n - 1 : (s + i) % n = IF s + i < n THEN s + i ELSE s + i - n
  OBVIOUS
<1>4. (s + j) % n = (s + k) % n
  BY <1>1, <1>2
<1>5. (IF s + j < n THEN s + j ELSE s + j - n) = (IF s + k < n THEN s + k ELSE s + k - n)
  BY <1>3, <1>4
<1> QED
  BY <1>5

\* A pointer of w values names the same entry after it has wrapped.
LEMMA ModMod ==
    ASSUME NEW n \in Nat \ {0}, NEW w \in Nat \ {0}, w % n = 0, NEW a \in Int
    PROVE  (a % w) % n = a % n
<1>1. PICK d \in Int, r \in 0 .. w - 1 : a = w * d + r /\ a % w = r
  BY DivMod, Zenon
<1>2. PICK m \in Int : w = n * m
  BY DivMod
<1>3. PICK e \in Int : w * d = n * e
  <2>1. m * d \in Int /\ w * d = n * (m * d)
    BY <1>2
  <2> QED
    BY <2>1, Zenon
<1> r \in Int
  OBVIOUS
<1>4. (r + n * e) % n = r % n
  BY ModShift, Zenon
<1>5. a = r + n * e
  BY <1>1, <1>3
<1> QED
  BY <1>1, <1>4, <1>5

\* The entry k behind pointer p is the one at distance k from p.
LEMMA AtDistance ==
    ASSUME NEW n \in Nat \ {0}, NEW p \in Int, NEW k \in 0 .. n - 1
    PROVE  (((p + k) % n) - p) % n = k
<1> p + k \in Int /\ -p \in Int
  OBVIOUS
<1>1. (((p + k) % n) + (-p)) % n = (p + k + (-p)) % n
  BY ModAdd, Zenon
<1>2. k % n = k /\ p + k + (-p) = k
  OBVIOUS
<1>3. (p + k) % n \in Int /\ ((p + k) % n) + (-p) = ((p + k) % n) - p
  BY ModRange
<1> QED
  BY <1>1, <1>2, <1>3

LEMMA OwnDistance ==
    ASSUME NEW n \in Nat \ {0}, NEW p \in Int, NEW x \in 0 .. n - 1
    PROVE  (x - p) % n \in 0 .. n - 1 /\ x = (p + ((x - p) % n)) % n
<1> x - p \in Int
  OBVIOUS
<1>1. (((x - p) % n) + p) % n = (x - p + p) % n
  BY ModAdd, Zenon
<1>2. x % n = x /\ x - p + p = x
  OBVIOUS
<1>3. (x - p) % n \in 0 .. n - 1
  BY ModRange
<1>4. ((x - p) % n) + p = p + ((x - p) % n)
  BY <1>3
<1> QED
  BY <1>1, <1>2, <1>3, <1>4

\* The number of entries between two pointers of w values, and how it changes
\* when the first or the second moves on.
LEMMA Distance ==
    ASSUME NEW w \in Nat \ {0}, NEW a \in 0 .. w - 1, NEW b \in 0 .. w - 1
    PROVE  /\ (a - b) % w = IF a >= b THEN a - b ELSE a - b + w
           /\ (a - b) % w \in 0 .. w - 1
OBVIOUS

LEMMA Moved ==
    ASSUME NEW w \in Nat \ {0}, NEW a \in 0 .. w - 1, NEW j \in 0 .. w - 1
    PROVE  /\ (a + j) % w = IF a + j < w THEN a + j ELSE a + j - w
           /\ (a + j) % w \in 0 .. w - 1
OBVIOUS

LEMMA FirstMoves ==
    ASSUME NEW w \in Nat \ {0}, NEW a \in 0 .. w - 1, NEW b \in 0 .. w - 1, NEW j \in Nat,
           ((a - b) % w) + j < w
    PROVE  (((a + j) % w) - b) % w = ((a - b) % w) + j
<1>1. (a - b) % w \in 0 .. w - 1
  BY Distance
<1>2. j \in 0 .. w - 1
  BY <1>1
<1>3. (a + j) % w \in 0 .. w - 1 /\ (a + j) % w = IF a + j < w THEN a + j ELSE a + j - w
  BY <1>2, Moved, Zenon
<1>4. (a - b) % w = IF a >= b THEN a - b ELSE a - b + w
  BY Distance
<1> DEFINE c == (a + j) % w
<1>5. (c - b) % w = IF c >= b THEN c - b ELSE c - b + w
  BY <1>3, Distance
<1> QED
  BY <1>2, <1>3, <1>4, <1>5

LEMMA SecondMoves ==
    ASSUME NEW w \in Nat \ {0}, NEW a \in 0 .. w - 1, NEW b \in 0 .. w - 1, NEW j \in Nat,
           j <= (a - b) % w
    PROVE  (a - ((b + j) % w)) % w = ((a - b) % w) - j
<1>1. (a - b) % w \in 0 .. w - 1
  BY Distance
<1>2. j \in 0 .. w - 1
  BY <1>1
<1>3. (b + j) % w \in 0 .. w - 1 /\ (b + j) % w = IF b + j < w THEN b + j ELSE b + j - w
  BY <1>2, Moved, Zenon
<1>4. (a - b) % w = IF a >= b THEN a - b ELSE a - b + w
  BY Distance
<1> DEFINE c == (b + j) % w
<1>5. (a - c) % w = IF a >= c THEN a - c ELSE a - c + w
  BY <1>3, Distance
<1> QED
  BY <1>2, <1>3, <1>4, <1>5

\* The entry of the first pointer is as far behind that of the second.
LEMMA FirstAtDistance ==
    ASSUME NEW n \in Nat \ {0}, NEW w \in Nat \ {0}, w % n = 0,
           NEW a \in 0 .. w - 1, NEW b \in 0 .. w - 1, NEW j \in Int
    PROVE  (a + j) % n = (b + ((a - b) % w) + j) % n
<1>1. (a - b) % w = IF a >= b THEN a - b ELSE a - b + w
  BY Distance
<1>2. CASE a >= b
  BY <1>1, <1>2
<1>3. CASE a < b
  <2>1. PICK m \in Int : w = n * m
    BY DivMod
  <2>2. a + j \in Int
    OBVIOUS
  <2>3. ((a + j) + n * m) % n = (a + j) % n
    BY <2>2, ModShift, Zenon
  <2>4. b + ((a - b) % w) + j = (a + j) + n * m
    BY <1>1, <1>3, <2>1
  <2> QED
    BY <2>3, <2>4
<1> QED
  BY <1>2, <1>3

\* Entries counted from a pointer.
LEMMA EntriesOf ==
    ASSUME NEW n \in Nat \ {0}, NEW p \in Int
    PROVE  /\ \A k \in Int : (p + k) % n \in 0 .. n - 1
           /\ \A j, k \in 0 .. n - 1 : (p + j) % n = (p + k) % n => j = k
           /\ \A i \in 0 .. n - 1 : (i - p) % n \in 0 .. n - 1 /\ i = (p + ((i - p) % n)) % n
           /\ \A i, k \in 0 .. n - 1 : i = (p + k) % n => (i - p) % n = k
           /\ \A j, k \in Int : (((p + j) % n) + k) % n = (p + (j + k)) % n
<1>1. \A k \in Int : (p + k) % n \in 0 .. n - 1
  BY ModRange
<1>2. ASSUME NEW j \in 0 .. n - 1, NEW k \in 0 .. n - 1, (p + j) % n = (p + k) % n
      PROVE  j = k
  BY <1>2, ModInjective, Zenon
<1>3. ASSUME NEW i \in 0 .. n - 1
      PROVE  (i - p) % n \in 0 .. n - 1 /\ i = (p + ((i - p) % n)) % n
  BY OwnDistance, Zenon
<1>5. ASSUME NEW i \in 0 .. n - 1, NEW k \in 0 .. n - 1, i = (p + k) % n
      PROVE  (i - p) % n = k
  <2>1. (((p + k) % n) - p) % n = k
    BY AtDistance, Zenon
  <2> QED
    BY <1>5, <2>1
<1>4. ASSUME NEW j \in Int, NEW k \in Int
      PROVE  (((p + j) % n) + k) % n = (p + (j + k)) % n
  <2>1. p + j \in Int /\ (p + j) + k = p + (j + k)
    OBVIOUS
  <2>2. (((p + j) % n) + k) % n = ((p + j) + k) % n
    BY <2>1, ModAdd, Zenon
  <2> QED
    BY <2>1, <2>2
<1> QED
  BY <1>1, <1>2, <1>3, <1>4, <1>5

\* A pointer of w values moves on: the entries behind it move with it.
LEMMA IncOf ==
    ASSUME NEW n \in Nat \ {0}, NEW w \in Nat \ {0}, w % n = 0
    PROVE  \A p, j, k \in Int : (((p + j) % w) + k) % n = (p + (j + k)) % n
<1> SUFFICES ASSUME NEW p \in Int, NEW j \in Int, NEW k \in Int
             PROVE  (((p + j) % w) + k) % n = (p + (j + k)) % n
  BY Zenon
<1>0. p + j \in Int /\ (p + j) % w \in Int /\ (p + j) + k = p + (j + k)
  OBVIOUS
<1>1. ((p + j) % w) % n = (p + j) % n
  BY <1>0, ModMod, Zenon
<1>2. ((((p + j) % w) % n) + k) % n = (((p + j) % w) + k) % n
  BY <1>0, ModAdd, Zenon
<1>3. (((p + j) % n) + k) % n = ((p + j) + k) % n
  BY <1>0, ModAdd, Zenon
<1> QED
  BY <1>0, <1>1, <1>2, <1>3

\* How far one pointer is from another tells the entry of the one from the
\* other's.
LEMMA DistanceIs ==
    ASSUME NEW n \in Nat \ {0}
    PROVE  \A a, p \in Int :
              /\ (a - p) % n \in 0 .. n - 1 /\ a % n = (p + ((a - p) % n)) % n
              /\ \A k \in 0 .. n - 1 : a % n = (p + k) % n => (a - p) % n = k
<1> SUFFICES ASSUME NEW a \in Int, NEW p \in Int
             PROVE  /\ (a - p) % n \in 0 .. n - 1 /\ a % n = (p + ((a - p) % n)) % n
                    /\ \A k \in 0 .. n - 1 : a % n = (p + k) % n => (a - p) % n = k
  BY Zenon
<1>0. a % n \in 0 .. n - 1 /\ -p \in Int /\ a + (-p) = a - p
  BY ModRange
<1>1. ((a % n) + (-p)) % n = (a + (-p)) % n
  BY <1>0, ModAdd, Zenon
<1>2. ((a % n) - p) % n = (a - p) % n
  BY <1>0, <1>1
<1> DEFINE i == a % n
<1>3. (i - p) % n \in 0 .. n - 1 /\ i = (p + ((i - p) % n)) % n
  BY <1>0, OwnDistance, Zenon
<1>4. ASSUME NEW k \in 0 .. n - 1, i = (p + k) % n PROVE (i - p) % n = k
  <2>1. (((p + k) % n) - p) % n = k
    BY AtDistance, Zenon
  <2> QED
    BY <1>4, <2>1
<1> QED
  BY <1>2, <1>3, <1>4, Zenon

=============================================================================

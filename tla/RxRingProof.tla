---------------------------- MODULE RxRingProof ----------------------------
(***************************************************************************)
(* Proofs about the receive ring and the XDP ring (RxRing), for rings of   *)
(* any size.                                                               *)
(***************************************************************************)
EXTENDS RxRing, RingArith, TLAPS
-----------------------------------------------------------------------------
(***************************************************************************)
(* The receive ring and the XDP ring.  Entries are counted from the        *)
(* driver's read pointers.  On the receive ring the packets to take come   *)
(* first, then the buffers the device is to fill, then those it has not    *)
(* been told of; on the XDP ring the packets sent, then those to send,     *)
(* then those of the poll under way.                                       *)
(***************************************************************************)
Running == rx_pc \in {"idle", "poll"}

RxAt == [k \in 0 .. RxCnt - 1 |-> RxIdx(rx_rd + k)]

RxGot  == RxIdx(fl_rd - rx_rd)
RxTold == RxIdx(fl_wr - fl_rd)
RxPart == rx_wr % FlBatch

RxPlaces ==
    /\ RxGot + RxTold + RxPart = RxUsed /\ RxUsed <= RxFill
    /\ Running => RxUsed = RxFill - rejects /\ ~tainted
    /\ ~Running => /\ rx_wr = 0 /\ rx_rd = 0 /\ fl_wr = 0 /\ fl_rd = 0 /\ rx_dd = {}
                   /\ rejects = 0

RxFilled == \A k \in 0 .. RxUsed - 1 : RxAt[k] \in rx_dd <=> k < RxGot

RxOwned ==
    /\ Running => \A k \in 0 .. RxUsed - 1 : rxbufs[RxAt[k]] = "own"
    /\ rx_pc = "stopped" /\ ~tainted =>
          \A i \in RxSlots : rxbufs[i] = IF i < RxFill THEN "own" ELSE "none"
    /\ rx_pc # "none" => \A i \in XdpSlots : xdpbufs[i] = "own"

XdpSent == XdpIdx(fx_rd - xdp_rd)
XdpTold == XdpIdx(fx_wr - fx_rd)

XdpPlaces ==
    /\ XdpSent + XdpTold + xdp_add = XdpUsed /\ XdpUsed <= XdpCnt - 1
    /\ xdp_qcp = XdpIdx(xdp_rd)
    /\ ~Running => xdp_wr = 0 /\ xdp_rd = 0 /\ fx_wr = 0 /\ fx_rd = 0

RxCalled == rx_pc = "idle" /\ ~irq => RxGot = 0

RxInv == RxTypeOK /\ RxPlaces /\ RxFilled /\ RxOwned /\ XdpPlaces /\ RxCalled

LEMMA RxNumbers ==
    /\ RxCnt \in Nat \ {0} /\ XdpCnt \in Nat \ {0} /\ RxWord \in Nat \ {0} /\ FlBatch \in Nat \ {0}
    /\ RxWord % RxCnt = 0 /\ RxWord % XdpCnt = 0 /\ RxCnt % FlBatch = 0
    /\ RxCnt % RxCnt = 0 /\ XdpCnt % XdpCnt = 0
<1>1. /\ RxCnt \in Nat \ {0} /\ XdpCnt \in Nat \ {0} /\ RxWord \in Nat \ {0} /\ FlBatch \in Nat \ {0}
      /\ RxWord % RxCnt = 0 /\ RxWord % XdpCnt = 0 /\ RxCnt % FlBatch = 0
  BY RxConstants
<1>2. ASSUME NEW n \in Nat \ {0} PROVE n % n = 0
  <2>1. n * 1 + 0 = n /\ 0 \in 0 .. n - 1 /\ 1 \in Int
    OBVIOUS
  <2>2. (n * 1 + 0) % n = 0
    BY <2>1, ModUnique
  <2> QED
    BY <2>1, <2>2
<1> QED
  BY <1>1, <1>2

\* What the steps need of them
LEMMA RxSizes ==
    /\ RxCnt \in Nat /\ XdpCnt \in Nat /\ RxCnt > 1 /\ XdpCnt > 1 /\ FlBatch \in 1 .. RxCnt - 1
    /\ RxWord \in Nat /\ RxWord > RxCnt /\ RxWord > XdpCnt /\ Budget \in Nat \ {0}
    /\ MaxComplete \in Nat \ {0} /\ MaxRejects \in 0 .. RxCnt - 2
BY RxConstants

\* The first or the second of two pointers moves on, by less than the ring
\* between them.
LEMMA FirstOn ==
    ASSUME NEW n \in Nat \ {0}, NEW w \in Nat \ {0}, w % n = 0
    PROVE  \A a, p, j \in Int :
              ((a - p) % n) + j \in 0 .. n - 1 => (((a + j) % w) - p) % n = ((a - p) % n) + j
<1> SUFFICES ASSUME NEW a \in Int, NEW p \in Int, NEW j \in Int, ((a - p) % n) + j \in 0 .. n - 1
             PROVE  (((a + j) % w) - p) % n = ((a - p) % n) + j
  BY Zenon
<1> DEFINE d == (a - p) % n
<1>0. /\ a - p \in Int /\ -p \in Int /\ a + j \in Int /\ (a + j) + (-p) = (a - p) + j
      /\ (a + j) % w \in Int /\ ((a + j) % w) + (-p) = ((a + j) % w) - p /\ (a - p) + j \in Int
  OBVIOUS
<1>1. ((a + j) % w) % n = (a + j) % n
  BY <1>0, ModMod, Zenon
<1>2. (((((a + j) % w) % n)) + (-p)) % n = (((a + j) % w) + (-p)) % n
  BY <1>0, ModAdd, Zenon
<1>3. (((a + j) % n) + (-p)) % n = ((a + j) + (-p)) % n
  BY <1>0, ModAdd, Zenon
<1>4. (((a - p) % n) + j) % n = ((a - p) + j) % n
  BY <1>0, ModAdd, Zenon
<1>5. (d + j) % n = d + j
  BY ModUnique
<1> QED
  BY <1>0, <1>1, <1>2, <1>3, <1>4, <1>5

LEMMA SecondOn ==
    ASSUME NEW n \in Nat \ {0}, NEW w \in Nat \ {0}, w % n = 0
    PROVE  \A a, p, j \in Int :
              ((a - p) % n) - j \in 0 .. n - 1 => (a - ((p + j) % w)) % n = ((a - p) % n) - j
<1>a. \A x, y, z \in Int : (((x + y) % w) + z) % n = (x + (y + z)) % n
  BY IncOf, Zenon
<1>b. \A b, q \in Int :
         /\ (b - q) % n \in 0 .. n - 1 /\ b % n = (q + ((b - q) % n)) % n
         /\ \A k \in 0 .. n - 1 : b % n = (q + k) % n => (b - q) % n = k
  BY DistanceIs, Zenon
<1> SUFFICES ASSUME NEW a \in Int, NEW p \in Int, NEW j \in Int, ((a - p) % n) - j \in 0 .. n - 1
             PROVE  (a - ((p + j) % w)) % n = ((a - p) % n) - j
  BY Zenon
<1>0. PICK k \in 0 .. n - 1 : k = ((a - p) % n) - j
  OBVIOUS
<1>1. PICK q \in Int : q = (p + j) % w
  OBVIOUS
<1>2. k \in Int /\ j + k = (a - p) % n
  BY <1>0
<1>3. (((p + j) % w) + k) % n = (p + (j + k)) % n
  BY <1>2, <1>a, ZenonT(30)
<1>4. a % n = (p + ((a - p) % n)) % n
  BY <1>b, Zenon
<1>5. a % n = (q + k) % n
  BY <1>1, <1>2, <1>3, <1>4, Zenon
<1>6. (a - q) % n = k
  <2>1. \A y \in Int : \A z \in 0 .. n - 1 : a % n = (y + z) % n => (a - y) % n = z
    BY <1>b, Zenon
  <2> QED
    BY <1>5, <2>1, Zenon
<1> QED
  BY <1>0, <1>1, <1>6


LEMMA Multiple == ASSUME NEW n \in Nat \ {0}, NEW a \in Int, a % n = 0 PROVE \E d \in Int : a = n * d
<1>1. PICK d \in Int, r \in 0 .. n - 1 : a = n * d + r /\ a % n = r
  BY DivMod
<1>2. a = n * d
  BY <1>1
<1> QED
  BY <1>2

LEMMA BaseOf == ASSUME NEW n \in Nat \ {0}, NEW a \in Int, NEW p \in Int PROVE (a - (p % n)) % n = (a - p) % n
<1>1. PICK d \in Int, r \in 0 .. n - 1 : p = n * d + r /\ p % n = r
  BY DivMod
<1>2. a - p \in Int
  OBVIOUS
<1>3. ((a - p) + n * d) % n = (a - p) % n
  BY <1>2, ModShift, Zenon
<1>4. (a - p) + n * d = a - r
  BY <1>1
<1> QED
  BY <1>1, <1>3, <1>4

\* The laws of the entries of the receive ring, and those of the XDP ring.
LEMMA RxEntry ==
    /\ \A p \in Int : RxIdx(p) \in RxSlots
    /\ \A p \in Int : \A j, k \in 0 .. RxCnt - 1 : RxIdx(p + j) = RxIdx(p + k) => j = k
    /\ \A p, j, k \in Int : RxIdx(RxPlus(p, j) + k) = RxIdx(p + (j + k))
    /\ \A p, j, k \in Int : RxIdx(RxIdx(p + j) + k) = RxIdx(p + (j + k))
    /\ \A p \in RxSlots : RxIdx(p) = p
<1>1. RxCnt \in Nat \ {0} /\ RxWord \in Nat \ {0} /\ RxWord % RxCnt = 0 /\ RxCnt % RxCnt = 0
  BY RxNumbers
<1>2. \A p \in Int : p % RxCnt \in 0 .. RxCnt - 1
  BY <1>1, ModRange
<1>3. \A p \in Int : \A j, k \in 0 .. RxCnt - 1 : (p + j) % RxCnt = (p + k) % RxCnt => j = k
  BY <1>1, ModInjective, Zenon
<1>4. \A x, y, z \in Int : (((x + y) % RxWord) + z) % RxCnt = (x + (y + z)) % RxCnt
  BY <1>1, IncOf, Zenon
<1>5. \A x, y, z \in Int : (((x + y) % RxCnt) + z) % RxCnt = (x + (y + z)) % RxCnt
  BY <1>1, IncOf, Zenon
<1>6. \A p \in 0 .. RxCnt - 1 : p % RxCnt = p
  BY <1>1, ModUnique
<1> QED
  BY <1>2, <1>3, <1>4, <1>5, <1>6 DEF RxIdx, RxPlus, RxSlots

LEMMA RxSame == \A p \in Int : \A j, k \in 0 .. RxCnt - 1 : RxIdx(p + j) = RxIdx(p + k) => j = k
BY RxEntry

LEMMA RxDistance ==
    /\ \A a, p \in Int : RxIdx(a - p) \in 0 .. RxCnt - 1 /\ RxIdx(a) = RxIdx(p + RxIdx(a - p))
    /\ \A a, p, j \in Int : RxIdx(a - p) + j \in 0 .. RxCnt - 1 =>
          RxIdx(RxPlus(a, j) - p) = RxIdx(a - p) + j /\ RxIdx(RxIdx(a + j) - p) = RxIdx(a - p) + j
    /\ \A a, p, j \in Int : RxIdx(a - p) - j \in 0 .. RxCnt - 1 =>
          RxIdx(a - RxPlus(p, j)) = RxIdx(a - p) - j /\ RxIdx(a - RxIdx(p + j)) = RxIdx(a - p) - j
<1>1. RxCnt \in Nat \ {0} /\ RxWord \in Nat \ {0} /\ RxWord % RxCnt = 0 /\ RxCnt % RxCnt = 0
  BY RxNumbers
<1>2. \A b, q \in Int :
         /\ (b - q) % RxCnt \in 0 .. RxCnt - 1 /\ b % RxCnt = (q + ((b - q) % RxCnt)) % RxCnt
         /\ \A k \in 0 .. RxCnt - 1 : b % RxCnt = (q + k) % RxCnt => (b - q) % RxCnt = k
  BY <1>1, DistanceIs, Zenon
<1>3. \A x, y, z \in Int :
         ((x - y) % RxCnt) + z \in 0 .. RxCnt - 1 => (((x + z) % RxWord) - y) % RxCnt = ((x - y) % RxCnt) + z
  BY <1>1, FirstOn, Zenon
<1>4. \A x, y, z \in Int :
         ((x - y) % RxCnt) + z \in 0 .. RxCnt - 1 => (((x + z) % RxCnt) - y) % RxCnt = ((x - y) % RxCnt) + z
  BY <1>1, FirstOn, Zenon
<1>5. \A x, y, z \in Int :
         ((x - y) % RxCnt) - z \in 0 .. RxCnt - 1 => (x - ((y + z) % RxWord)) % RxCnt = ((x - y) % RxCnt) - z
  BY <1>1, SecondOn, Zenon
<1>6. \A x, y, z \in Int :
         ((x - y) % RxCnt) - z \in 0 .. RxCnt - 1 => (x - ((y + z) % RxCnt)) % RxCnt = ((x - y) % RxCnt) - z
  BY <1>1, SecondOn, Zenon
<1>7. \A a, p \in Int : RxIdx(a - p) \in 0 .. RxCnt - 1 /\ RxIdx(a) = RxIdx(p + RxIdx(a - p))
  BY <1>2 DEF RxIdx
<1>8. \A a, p, j \in Int : RxIdx(a - p) + j \in 0 .. RxCnt - 1 =>
          RxIdx(RxPlus(a, j) - p) = RxIdx(a - p) + j /\ RxIdx(RxIdx(a + j) - p) = RxIdx(a - p) + j
  BY <1>3, <1>4, ZenonT(30) DEF RxIdx, RxPlus
<1>9. ASSUME NEW a \in Int, NEW p \in Int, NEW j \in Int, RxIdx(a - p) - j \in 0 .. RxCnt - 1
      PROVE  RxIdx(a - RxPlus(p, j)) = RxIdx(a - p) - j /\ RxIdx(a - RxIdx(p + j)) = RxIdx(a - p) - j
  <2>1. ((a - p) % RxCnt) - j \in 0 .. RxCnt - 1
    BY <1>9 DEF RxIdx
  <2>2. (a - ((p + j) % RxWord)) % RxCnt = ((a - p) % RxCnt) - j
    BY <1>5, <2>1, ZenonT(30)
  <2>3. (a - ((p + j) % RxCnt)) % RxCnt = ((a - p) % RxCnt) - j
    BY <1>6, <2>1, ZenonT(30)
  <2> QED
    BY <2>2, <2>3 DEF RxIdx, RxPlus
<1> QED
  BY <1>7, <1>8, <1>9

LEMMA RxFirst ==
    \A a, p, j \in Int : RxIdx(a - p) + j \in 0 .. RxCnt - 1 =>
          RxIdx(RxPlus(a, j) - p) = RxIdx(a - p) + j /\ RxIdx(RxIdx(a + j) - p) = RxIdx(a - p) + j
BY RxDistance, Zenon

LEMMA RxSecond ==
    \A a, p, j \in Int : RxIdx(a - p) - j \in 0 .. RxCnt - 1 =>
          RxIdx(a - RxPlus(p, j)) = RxIdx(a - p) - j /\ RxIdx(a - RxIdx(p + j)) = RxIdx(a - p) - j
BY RxDistance, Zenon


LEMMA XdpEntry ==
    /\ \A p \in Int : XdpIdx(p) \in XdpSlots
    /\ \A p \in Int : \A j, k \in 0 .. XdpCnt - 1 : XdpIdx(p + j) = XdpIdx(p + k) => j = k
    /\ \A p, j, k \in Int : XdpIdx(RxPlus(p, j) + k) = XdpIdx(p + (j + k))
    /\ \A p, j, k \in Int : XdpIdx(XdpIdx(p + j) + k) = XdpIdx(p + (j + k))
    /\ \A p \in XdpSlots : XdpIdx(p) = p
<1>1. XdpCnt \in Nat \ {0} /\ RxWord \in Nat \ {0} /\ RxWord % XdpCnt = 0 /\ XdpCnt % XdpCnt = 0
  BY RxNumbers
<1>2. \A p \in Int : p % XdpCnt \in 0 .. XdpCnt - 1
  BY <1>1, ModRange
<1>3. \A p \in Int : \A j, k \in 0 .. XdpCnt - 1 : (p + j) % XdpCnt = (p + k) % XdpCnt => j = k
  BY <1>1, ModInjective, Zenon
<1>4. \A x, y, z \in Int : (((x + y) % RxWord) + z) % XdpCnt = (x + (y + z)) % XdpCnt
  BY <1>1, IncOf, Zenon
<1>5. \A x, y, z \in Int : (((x + y) % XdpCnt) + z) % XdpCnt = (x + (y + z)) % XdpCnt
  BY <1>1, IncOf, Zenon
<1>6. \A p \in 0 .. XdpCnt - 1 : p % XdpCnt = p
  BY <1>1, ModUnique
<1> QED
  BY <1>2, <1>3, <1>4, <1>5, <1>6 DEF XdpIdx, RxPlus, XdpSlots

LEMMA XdpSame == \A p \in Int : \A j, k \in 0 .. XdpCnt - 1 : XdpIdx(p + j) = XdpIdx(p + k) => j = k
BY XdpEntry

LEMMA XdpDistance ==
    /\ \A a, p \in Int : XdpIdx(a - p) \in 0 .. XdpCnt - 1 /\ XdpIdx(a) = XdpIdx(p + XdpIdx(a - p))
    /\ \A a, p, j \in Int : XdpIdx(a - p) + j \in 0 .. XdpCnt - 1 =>
          XdpIdx(RxPlus(a, j) - p) = XdpIdx(a - p) + j /\ XdpIdx(XdpIdx(a + j) - p) = XdpIdx(a - p) + j
    /\ \A a, p, j \in Int : XdpIdx(a - p) - j \in 0 .. XdpCnt - 1 =>
          XdpIdx(a - RxPlus(p, j)) = XdpIdx(a - p) - j /\ XdpIdx(a - XdpIdx(p + j)) = XdpIdx(a - p) - j
<1>1. XdpCnt \in Nat \ {0} /\ RxWord \in Nat \ {0} /\ RxWord % XdpCnt = 0 /\ XdpCnt % XdpCnt = 0
  BY RxNumbers
<1>2. \A b, q \in Int :
         /\ (b - q) % XdpCnt \in 0 .. XdpCnt - 1 /\ b % XdpCnt = (q + ((b - q) % XdpCnt)) % XdpCnt
         /\ \A k \in 0 .. XdpCnt - 1 : b % XdpCnt = (q + k) % XdpCnt => (b - q) % XdpCnt = k
  BY <1>1, DistanceIs, Zenon
<1>3. \A x, y, z \in Int :
         ((x - y) % XdpCnt) + z \in 0 .. XdpCnt - 1 => (((x + z) % RxWord) - y) % XdpCnt = ((x - y) % XdpCnt) + z
  BY <1>1, FirstOn, Zenon
<1>4. \A x, y, z \in Int :
         ((x - y) % XdpCnt) + z \in 0 .. XdpCnt - 1 => (((x + z) % XdpCnt) - y) % XdpCnt = ((x - y) % XdpCnt) + z
  BY <1>1, FirstOn, Zenon
<1>5. \A x, y, z \in Int :
         ((x - y) % XdpCnt) - z \in 0 .. XdpCnt - 1 => (x - ((y + z) % RxWord)) % XdpCnt = ((x - y) % XdpCnt) - z
  BY <1>1, SecondOn, Zenon
<1>6. \A x, y, z \in Int :
         ((x - y) % XdpCnt) - z \in 0 .. XdpCnt - 1 => (x - ((y + z) % XdpCnt)) % XdpCnt = ((x - y) % XdpCnt) - z
  BY <1>1, SecondOn, Zenon
<1>7. \A a, p \in Int : XdpIdx(a - p) \in 0 .. XdpCnt - 1 /\ XdpIdx(a) = XdpIdx(p + XdpIdx(a - p))
  BY <1>2 DEF XdpIdx
<1>8. \A a, p, j \in Int : XdpIdx(a - p) + j \in 0 .. XdpCnt - 1 =>
          XdpIdx(RxPlus(a, j) - p) = XdpIdx(a - p) + j /\ XdpIdx(XdpIdx(a + j) - p) = XdpIdx(a - p) + j
  BY <1>3, <1>4, Zenon DEF XdpIdx, RxPlus
<1>9. ASSUME NEW a \in Int, NEW p \in Int, NEW j \in Int, XdpIdx(a - p) - j \in 0 .. XdpCnt - 1
      PROVE  XdpIdx(a - RxPlus(p, j)) = XdpIdx(a - p) - j /\ XdpIdx(a - XdpIdx(p + j)) = XdpIdx(a - p) - j
  <2>1. ((a - p) % XdpCnt) - j \in 0 .. XdpCnt - 1
    BY <1>9 DEF XdpIdx
  <2>2. (a - ((p + j) % RxWord)) % XdpCnt = ((a - p) % XdpCnt) - j
    BY <1>5, <2>1, Zenon
  <2>3. (a - ((p + j) % XdpCnt)) % XdpCnt = ((a - p) % XdpCnt) - j
    BY <1>6, <2>1, Zenon
  <2> QED
    BY <2>2, <2>3 DEF XdpIdx, RxPlus
<1> QED
  BY <1>7, <1>8, <1>9

LEMMA XdpFirst ==
    \A a, p, j \in Int : XdpIdx(a - p) + j \in 0 .. XdpCnt - 1 =>
          XdpIdx(RxPlus(a, j) - p) = XdpIdx(a - p) + j /\ XdpIdx(XdpIdx(a + j) - p) = XdpIdx(a - p) + j
BY XdpDistance, Zenon

LEMMA XdpSecond ==
    \A a, p, j \in Int : XdpIdx(a - p) - j \in 0 .. XdpCnt - 1 =>
          XdpIdx(a - RxPlus(p, j)) = XdpIdx(a - p) - j /\ XdpIdx(a - XdpIdx(p + j)) = XdpIdx(a - p) - j
BY XdpDistance, Zenon


LEMMA RxParts ==
    ASSUME RxInv
    PROVE  /\ RxTypeOK /\ RxPlaces /\ RxFilled /\ RxOwned /\ XdpPlaces /\ RxCalled
           /\ rx_wr \in Int /\ rx_rd \in Int /\ fl_wr \in Int /\ fl_rd \in Int
           /\ RxUsed \in 0 .. RxCnt - 1 /\ RxGot \in 0 .. RxCnt - 1 /\ RxTold \in 0 .. RxCnt - 1
           /\ RxPart \in 0 .. FlBatch - 1 /\ RxGot + RxTold + RxPart = RxUsed
           /\ RxIdx(rx_wr) = RxIdx(rx_rd + RxUsed) /\ fl_rd = RxIdx(rx_rd + RxGot)
           /\ fl_wr = RxIdx(fl_rd + RxTold)
           /\ Running => RxUsed >= 1
<1> USE RxSizes
<1>0. RxTypeOK /\ RxPlaces /\ RxFilled /\ RxOwned /\ XdpPlaces /\ RxCalled
  BY DEF RxInv
<1>1. /\ rx_wr \in 0 .. RxWord - 1 /\ rx_rd \in 0 .. RxWord - 1
      /\ rx_wr \in Int /\ rx_rd \in Int /\ fl_wr \in Int /\ fl_rd \in Int
      /\ fl_wr \in RxSlots /\ fl_rd \in RxSlots /\ rejects \in 0 .. MaxRejects
  BY <1>0 DEF RxTypeOK, RxSlots
<1>2. RxUsed \in 0 .. RxCnt - 1
  <2>1. RxUsed \in 0 .. RxWord - 1
    BY <1>1, RxNumbers, Distance DEF RxUsed
  <2> QED
    BY <1>0, <2>1 DEF RxPlaces, RxFill
<1>3. RxGot \in 0 .. RxCnt - 1 /\ RxIdx(fl_rd) = RxIdx(rx_rd + RxGot)
  BY <1>1, RxDistance, Zenon DEF RxGot
<1>4. RxTold \in 0 .. RxCnt - 1 /\ RxIdx(fl_wr) = RxIdx(fl_rd + RxTold)
  BY <1>1, RxDistance DEF RxTold
<1>5. RxIdx(fl_rd) = fl_rd /\ RxIdx(fl_wr) = fl_wr
  BY <1>1, RxEntry
<1>6. RxPart \in 0 .. FlBatch - 1
  BY <1>1, RxNumbers, ModRange DEF RxPart
<1>7. RxIdx(rx_wr) = RxIdx(rx_rd + RxUsed)
  <2>1. rx_wr - rx_rd \in Int /\ RxCnt \in Nat \ {0} /\ RxWord \in Nat \ {0} /\ RxWord % RxCnt = 0
    BY <1>1, RxNumbers
  <2>2. RxUsed % RxCnt = (rx_wr - rx_rd) % RxCnt
    BY <2>1, ModMod, Zenon DEF RxUsed
  <2>3. RxUsed % RxCnt = RxUsed
    BY <1>2, <2>1, ModUnique
  <2>4. RxUsed = RxIdx(rx_wr - rx_rd)
    BY <2>2, <2>3 DEF RxIdx
  <2>5. RxIdx(rx_wr) = RxIdx(rx_rd + RxIdx(rx_wr - rx_rd))
    BY <1>1, RxDistance
  <2> QED
    BY <2>4, <2>5
<1>8. Running => RxUsed >= 1
  BY <1>0, <1>1 DEF RxPlaces, RxFill
<1> QED
  BY <1>0, <1>1, <1>2, <1>3, <1>4, <1>5, <1>6, <1>7, <1>8 DEF RxPlaces

LEMMA XdpParts ==
    ASSUME RxInv
    PROVE  /\ RxTypeOK /\ XdpPlaces
           /\ xdp_wr \in Int /\ xdp_rd \in Int /\ fx_wr \in Int /\ fx_rd \in Int /\ xdp_add \in Nat
           /\ XdpUsed \in 0 .. XdpCnt - 1 /\ XdpSent \in 0 .. XdpCnt - 1 /\ XdpTold \in 0 .. XdpCnt - 1
           /\ XdpSent + XdpTold + xdp_add = XdpUsed /\ xdp_qcp = XdpIdx(xdp_rd)
           /\ XdpTodo = XdpSent
<1> USE RxSizes
<1>0. RxTypeOK /\ XdpPlaces
  BY DEF RxInv
<1>1. /\ xdp_wr \in 0 .. RxWord - 1 /\ xdp_rd \in 0 .. RxWord - 1
      /\ xdp_wr \in Int /\ xdp_rd \in Int /\ fx_wr \in Int /\ fx_rd \in Int /\ xdp_add \in Nat
      /\ fx_rd \in XdpSlots
  BY <1>0 DEF RxTypeOK, XdpSlots
<1>2. XdpUsed \in 0 .. XdpCnt - 1
  <2>1. XdpUsed \in 0 .. RxWord - 1
    BY <1>1, RxNumbers, Distance DEF XdpUsed
  <2> QED
    BY <1>0, <2>1 DEF XdpPlaces
<1>3. XdpSent \in 0 .. XdpCnt - 1
  BY <1>1, XdpDistance, Zenon DEF XdpSent
<1>4. XdpTold \in 0 .. XdpCnt - 1
  BY <1>1, XdpDistance, Zenon DEF XdpTold
<1>5. XdpTodo = XdpSent
  <2>1. (fx_rd - (xdp_rd % XdpCnt)) % XdpCnt = (fx_rd - xdp_rd) % XdpCnt
    BY <1>1, RxNumbers, BaseOf, Zenon
  <2> QED
    BY <1>0, <2>1 DEF XdpTodo, XdpPlaces, XdpSent, XdpIdx
<1> QED
  BY <1>0, <1>1, <1>2, <1>3, <1>4, <1>5 DEF XdpPlaces

\* The side that a step leaves alone.
LEMMA RxFrame ==
    ASSUME RxInv, UNCHANGED <<rx_wr, rx_rd, rx_dd, fl_wr, fl_rd>>
    PROVE  RxUsed' = RxUsed /\ RxGot' = RxGot /\ RxTold' = RxTold /\ RxPart' = RxPart /\ RxAt' = RxAt
           /\ RxFilled'
<1>1. RxUsed' = RxUsed /\ RxGot' = RxGot /\ RxTold' = RxTold /\ RxPart' = RxPart /\ RxAt' = RxAt
  BY DEF RxUsed, RxGot, RxTold, RxPart, RxAt, RxIdx
<1> QED
  BY <1>1, RxParts DEF RxFilled

LEMMA XdpFrame ==
    ASSUME RxInv, UNCHANGED <<xdp_wr, xdp_rd, xdp_qcp, xdp_add, fx_wr, fx_rd>>, ~Running' => ~Running
    PROVE  XdpPlaces'
<1>1. XdpUsed' = XdpUsed /\ XdpSent' = XdpSent /\ XdpTold' = XdpTold
  BY DEF XdpUsed, XdpSent, XdpTold, XdpIdx
<1>2. XdpIdx(xdp_rd)' = XdpIdx(xdp_rd)
  BY DEF XdpIdx
<1> QED
  BY <1>1, <1>2, XdpParts DEF XdpPlaces

LEMMA RxInvInit == RxInit => RxInv
<1> USE RxSizes
<1> SUFFICES ASSUME RxInit PROVE RxInv
  OBVIOUS
<1>1. RxTypeOK
  <2>1. rxbufs \in [RxSlots -> Entry] /\ xdpbufs \in [XdpSlots -> Entry] /\ rx_dd \subseteq RxSlots
    BY DEF RxInit, Entry
  <2>2. /\ 0 \in 0 .. RxWord - 1 /\ 0 \in RxSlots /\ 0 \in XdpSlots /\ 0 \in 0 .. XdpCnt
        /\ 0 \in 0 .. Budget /\ 0 \in 0 .. MaxRejects
    BY DEF RxSlots, XdpSlots
  <2> QED
    BY <2>1, <2>2, Zenon DEF RxInit, RxTypeOK
<1>2. RxIdx(0) = 0 /\ XdpIdx(0) = 0 /\ (0 % RxWord) = 0 /\ (0 % FlBatch) = 0 /\ 0 - 0 = 0
  <2>1. /\ 0 \in RxSlots /\ 0 \in XdpSlots /\ 0 \in 0 .. RxWord - 1 /\ 0 \in 0 .. FlBatch - 1
        /\ RxWord \in Nat \ {0} /\ FlBatch \in Nat \ {0}
    BY RxNumbers DEF RxSlots, XdpSlots
  <2>2. (0 % RxWord) = 0 /\ (0 % FlBatch) = 0
    BY <2>1, ModUnique
  <2> QED
    BY <2>1, <2>2, RxEntry, XdpEntry
<1>3. RxUsed = 0 /\ RxGot = 0 /\ RxTold = 0 /\ RxPart = 0 /\ XdpUsed = 0 /\ XdpSent = 0 /\ XdpTold = 0
  BY <1>2 DEF RxInit, RxUsed, RxGot, RxTold, RxPart, XdpUsed, XdpSent, XdpTold
<1>4. ~Running /\ rx_pc = "none"
  BY DEF RxInit, Running
<1>5. RxPlaces /\ RxFilled /\ RxOwned /\ XdpPlaces /\ RxCalled
  BY <1>2, <1>3, <1>4 DEF RxInit, RxPlaces, RxFilled, RxOwned, XdpPlaces, RxCalled, RxFill
<1> QED
  BY <1>1, <1>5 DEF RxInv


LEMMA RxAllocs == ASSUME RxInv, BufsAlloc PROVE RxInv'
<1> USE RxSizes
<1>0. /\ rx_pc = "none" /\ rx_pc' = "stopped"
      /\ rxbufs' = [i \in RxSlots |-> IF i < RxFill THEN "own" ELSE "none"]
      /\ xdpbufs' = [i \in XdpSlots |-> "own"]
      /\ UNCHANGED <<rx_wr, rx_rd, rx_dd, fl_wr, xdp_wr, xdp_rd, xdp_qcp, xdp_add, fx_wr, fl_rd, fx_rd,
                     polled, completed, irq, rejects, tainted>>
  BY DEF BufsAlloc, rxdev, rxhist
<1>1. ~Running /\ ~Running'
  BY <1>0 DEF Running
<1>2. RxUsed' = RxUsed /\ RxGot' = RxGot /\ RxTold' = RxTold /\ RxPart' = RxPart /\ RxFilled'
  BY <1>0, RxFrame
<1>3. XdpPlaces'
  BY <1>0, <1>1, XdpFrame
<1>4. RxPlaces'
  <2>1. RxPlaces
    BY RxParts
  <2> QED
    BY <1>0, <1>1, <1>2, <2>1 DEF RxPlaces, RxFill
<1>5. RxTypeOK'
  <2>1. RxTypeOK
    BY RxParts
  <2>2. rxbufs' \in [RxSlots -> Entry] /\ xdpbufs' \in [XdpSlots -> Entry]
    BY <1>0 DEF Entry
  <2> QED
    BY <1>0, <2>1, <2>2 DEF RxTypeOK
<1>6. RxOwned'
  BY <1>0, <1>1 DEF RxOwned, RxFill
<1>7. RxCalled'
  BY <1>0 DEF RxCalled
<1> QED
  BY <1>2, <1>3, <1>4, <1>5, <1>6, <1>7 DEF RxInv

LEMMA RxFrees == ASSUME RxInv, BufsFree PROVE RxInv'
<1> USE RxSizes
<1>0. /\ rx_pc = "stopped" /\ rx_pc' = "none" /\ tainted' = FALSE
      /\ rxbufs' = [i \in RxSlots |-> "none"] /\ xdpbufs' = [i \in XdpSlots |-> "none"]
      /\ UNCHANGED <<rx_wr, rx_rd, rx_dd, fl_wr, xdp_wr, xdp_rd, xdp_qcp, xdp_add, fx_wr, fl_rd, fx_rd,
                     polled, completed, irq, rejects>>
  BY DEF BufsFree, rxdev
<1>1. ~Running /\ ~Running'
  BY <1>0 DEF Running
<1>2. RxUsed' = RxUsed /\ RxGot' = RxGot /\ RxTold' = RxTold /\ RxPart' = RxPart /\ RxFilled'
  BY <1>0, RxFrame
<1>3. XdpPlaces'
  BY <1>0, <1>1, XdpFrame
<1>4. RxPlaces'
  <2>1. RxPlaces
    BY RxParts
  <2> QED
    BY <1>0, <1>1, <1>2, <2>1 DEF RxPlaces, RxFill
<1>5. RxTypeOK'
  <2>1. RxTypeOK
    BY RxParts
  <2>2. rxbufs' \in [RxSlots -> Entry] /\ xdpbufs' \in [XdpSlots -> Entry]
    BY <1>0 DEF Entry
  <2> QED
    BY <1>0, <2>1, <2>2, Zenon DEF RxTypeOK
<1>6. RxOwned' /\ RxCalled'
  BY <1>0, <1>1 DEF RxOwned, RxCalled
<1> QED
  BY <1>2, <1>3, <1>4, <1>5, <1>6 DEF RxInv

\* A ring is fed: the device has been told of the whole batches.
LEMMA RxFills == ASSUME RxInv, FillFreelist PROVE RxInv'
<1> USE RxSizes
<1>0. /\ rx_pc = "stopped" /\ ~tainted /\ rx_pc' = "idle"
      /\ rx_wr' = RxFill /\ fl_wr' = RxFill - (RxFill % FlBatch)
      /\ UNCHANGED <<rx_rd, rxbufs, rx_dd, xdp_wr, xdp_rd, xdp_qcp, xdp_add, xdpbufs, fx_wr, fl_rd, fx_rd,
                     polled, completed, irq, rejects, tainted>>
  BY DEF FillFreelist, xdpring, rxdev, rxhist
<1>1. ~Running /\ Running'
  BY <1>0 DEF Running
<1>2. rx_rd = 0 /\ fl_rd = 0 /\ rx_dd = {} /\ rejects = 0 /\ RxTypeOK /\ RxOwned
  BY <1>1, RxParts DEF RxPlaces
<1>3. RxFill % FlBatch \in 0 .. FlBatch - 1 /\ RxFill % FlBatch <= RxFill /\ fl_wr' \in RxSlots
  <2>1. RxFill \in Int /\ RxFill >= 0 /\ RxFill = RxCnt - 1
    BY DEF RxFill
  <2>2. RxFill % FlBatch \in 0 .. FlBatch - 1
    BY <2>1, RxNumbers, ModRange
  <2>3. RxFill % FlBatch <= RxFill
    BY <2>1, <2>2
  <2> QED
    BY <1>0, <2>1, <2>2, <2>3 DEF RxSlots
<1>4. RxUsed' = RxFill
  <2>1. RxFill \in 0 .. RxWord - 1 /\ RxFill - 0 = RxFill /\ RxWord \in Nat \ {0}
    BY RxNumbers DEF RxFill
  <2>2. RxFill % RxWord = RxFill
    BY <2>1, ModUnique
  <2> QED
    BY <1>0, <1>2, <2>1, <2>2 DEF RxUsed
<1>5. RxGot' = 0 /\ RxTold' = fl_wr' /\ RxPart' = RxFill % FlBatch
  <2>1. 0 \in RxSlots /\ RxIdx(0) = 0 /\ 0 - 0 = 0 /\ RxIdx(fl_wr') = fl_wr'
    BY <1>3, RxEntry DEF RxSlots
  <2>2. fl_wr' - 0 = fl_wr'
    <3>1. \A x \in Int : x - 0 = x
      OBVIOUS
    <3>2. fl_wr' \in Int
      BY <1>3 DEF RxSlots
    <3> QED
      BY <3>1, <3>2, Zenon
  <2> QED
    BY <1>0, <1>2, <2>1, <2>2 DEF RxGot, RxTold, RxPart, RxIdx
<1>6. RxPlaces'
  <2>1. RxFill \in Nat
    BY DEF RxFill
  <2>2. 0 + (RxFill - (RxFill % FlBatch)) + (RxFill % FlBatch) = RxFill /\ RxFill = RxFill - 0
    BY <1>3, <2>1
  <2>3. RxFill' = RxFill
    BY DEF RxFill
  <2> QED
    BY <1>0, <1>1, <1>2, <1>4, <1>5, <2>1, <2>2, <2>3 DEF RxPlaces
<1>7. RxFilled'
  BY <1>0, <1>2, <1>5 DEF RxFilled
<1>8. RxOwned'
  <2>1. \A k \in 0 .. RxFill - 1 : k \in RxSlots /\ RxIdx(k) = k /\ 0 + k = k /\ k < RxFill /\ k \in 0 .. RxCnt - 1
    BY RxEntry DEF RxSlots, RxFill
  <2>2. \A k \in 0 .. RxFill - 1 : RxAt'[k] = k
    BY <1>0, <1>2, <2>1 DEF RxAt, RxIdx
  <2>3. \A k \in 0 .. RxFill - 1 : rxbufs[k] = "own"
    BY <1>0, <1>2, <2>1 DEF RxOwned
  <2> QED
    BY <1>0, <1>2, <1>4, <2>2, <2>3 DEF RxOwned
<1>9. XdpPlaces'
  BY <1>0, <1>1, XdpFrame
<1>10. RxTypeOK'
  <2>1. rx_wr' \in 0 .. RxWord - 1
    BY <1>0 DEF RxFill
  <2> QED
    BY <1>0, <1>2, <1>3, <2>1 DEF RxTypeOK
<1>11. RxCalled'
  BY <1>5 DEF RxCalled
<1> QED
  BY <1>6, <1>7, <1>8, <1>9, <1>10, <1>11 DEF RxInv

\* Numbers of rings whose pointers are all at the start
LEMMA Zeroes == /\ RxIdx(0) = 0 /\ XdpIdx(0) = 0 /\ (0 % RxWord) = 0 /\ (0 % FlBatch) = 0 /\ 0 - 0 = 0
                /\ 0 \in RxSlots /\ 0 \in XdpSlots /\ 0 \in 0 .. RxWord - 1
<1>1. /\ 0 \in RxSlots /\ 0 \in XdpSlots /\ 0 \in 0 .. RxWord - 1 /\ 0 \in 0 .. FlBatch - 1
      /\ RxWord \in Nat \ {0} /\ FlBatch \in Nat \ {0}
  BY RxNumbers, RxSizes DEF RxSlots, XdpSlots
<1>2. (0 % RxWord) = 0 /\ (0 % FlBatch) = 0
  BY <1>1, ModUnique
<1> QED
  BY <1>1, <1>2, RxEntry, XdpEntry

\* A ring nothing is missing from is reset: the entry outside the window gets
\* the buffer of the last one.
LEMMA RxResets == ASSUME RxInv, RxReset PROVE RxInv'
<1> USE RxSizes
<1>0. /\ rx_pc \in {"idle", "stopped"} /\ ResetGeometry /\ rx_pc' = "stopped" /\ irq' = FALSE
      /\ rx_wr' = 0 /\ rx_rd' = 0 /\ rx_dd' = {} /\ fl_wr' = 0 /\ fl_rd' = 0
      /\ xdp_wr' = 0 /\ xdp_rd' = 0 /\ xdp_qcp' = 0 /\ xdp_add' = 0 /\ fx_wr' = 0 /\ fx_rd' = 0
      /\ rejects' = 0 /\ tainted' = (tainted \/ rejects > 0)
      /\ UNCHANGED <<xdpbufs, polled, completed>>
  BY DEF RxReset
<1>1. ~Running'
  BY <1>0 DEF Running
<1>2. /\ RxUsed' = 0 /\ RxGot' = 0 /\ RxTold' = 0 /\ RxPart' = 0 /\ XdpUsed' = 0 /\ XdpSent' = 0 /\ XdpTold' = 0
      /\ XdpIdx(xdp_rd)' = 0
  BY <1>0, Zeroes DEF RxUsed, RxGot, RxTold, RxPart, XdpUsed, XdpSent, XdpTold, RxIdx, XdpIdx
<1>3. RxPlaces' /\ RxFilled' /\ XdpPlaces' /\ RxCalled'
  BY <1>0, <1>1, <1>2 DEF RxPlaces, RxFilled, XdpPlaces, RxCalled, RxFill
<1>4. RxTypeOK /\ RxOwned /\ RxPlaces /\ rx_wr \in Int /\ rx_rd \in Int /\ rxbufs \in [RxSlots -> Entry] /\ rejects \in Nat
  <2>1. RxTypeOK /\ RxOwned /\ RxPlaces /\ rx_wr \in Int /\ rx_rd \in Int
    BY RxParts
  <2> QED
    BY <2>1 DEF RxTypeOK
<1>5. RxIdx(rx_wr) \in RxSlots /\ RxFill \in RxSlots
  <2>1. RxIdx(rx_wr) \in RxSlots
    BY <1>4, RxEntry
  <2> QED
    BY <2>1 DEF RxSlots, RxFill
<1>6. RxTypeOK'
  <2>1. rxbufs' \in [RxSlots -> Entry]
    BY <1>0, <1>4, <1>5 DEF ResetGeometry, Entry
  <2>2. tainted' \in BOOLEAN
    BY <1>0
  <2>3. 0 \in 0 .. XdpCnt /\ 0 \in 0 .. MaxRejects /\ {} \subseteq RxSlots
    OBVIOUS
  <2> QED
    BY <1>0, <1>4, <2>1, <2>2, <2>3, Zeroes, Zenon DEF RxTypeOK
<1>7. ASSUME ~tainted', NEW i \in RxSlots PROVE rxbufs'[i] = IF i < RxFill THEN "own" ELSE "none"
  <2>1. ~tainted /\ rejects = 0
    <3>1. ~tainted /\ ~(rejects > 0)
      BY <1>0, <1>7, Zenon
    <3> QED
      BY <1>4, <3>1
  <2>2. CASE rx_pc = "stopped"
    <3>1. rx_wr = 0 /\ rx_rd = 0
      BY <1>4, <2>2 DEF RxPlaces, Running
    <3> QED
      BY <1>0, <1>4, <2>1, <2>2, <3>1 DEF ResetGeometry, RxOwned
  <2>3. CASE rx_pc = "idle"
    <3>1. Running /\ RxUsed = RxFill /\ RxFill = RxCnt - 1
      BY <1>4, <2>1, <2>3 DEF RxPlaces, Running, RxFill
    <3>2. ~(rx_wr = 0 /\ rx_rd = 0)
      <4>1. SUFFICES ASSUME rx_wr = 0, rx_rd = 0 PROVE FALSE
        OBVIOUS
      <4>2. RxUsed = 0
        BY <4>1, Zeroes DEF RxUsed
      <4> QED
        BY <3>1, <4>2
    <3>3. rxbufs' = [rxbufs EXCEPT ![RxIdx(rx_wr)] = rxbufs[RxFill], ![RxFill] = "none"]
      BY <1>0, <3>2 DEF ResetGeometry
    <3>4. ASSUME NEW j \in RxSlots, j # RxIdx(rx_wr) PROVE rxbufs[j] = "own"
      <4>1. j \in Int /\ RxIdx(j) = j
        BY RxEntry DEF RxSlots
      <4>2. PICK k \in 0 .. RxCnt - 1 : j = RxIdx(rx_rd + k)
        <5>1. RxIdx(j - rx_rd) \in 0 .. RxCnt - 1 /\ RxIdx(j) = RxIdx(rx_rd + RxIdx(j - rx_rd))
          BY <1>4, <4>1, RxDistance, Zenon
        <5> QED
          BY <4>1, <5>1
      <4>3. RxIdx(rx_wr) = RxIdx(rx_rd + RxUsed)
        BY RxParts
      <4>4. k # RxUsed
        BY <3>4, <4>2, <4>3
      <4>5. k \in 0 .. RxUsed - 1
        BY <3>1, <4>4
      <4>6. RxAt[k] = j
        BY <4>2 DEF RxAt
      <4> QED
        BY <1>4, <3>1, <4>5, <4>6 DEF RxOwned
    <3>5. CASE i = RxFill
      BY <1>4, <1>5, <3>1, <3>3, <3>5
    <3>6. CASE i # RxFill
      <4>1. i < RxFill
        BY <3>1, <3>6 DEF RxSlots
      <4>2. CASE i = RxIdx(rx_wr)
        <5>1. rxbufs'[i] = rxbufs[RxFill] /\ RxFill # RxIdx(rx_wr)
          BY <1>4, <1>5, <3>3, <3>6, <4>2
        <5> QED
          BY <1>5, <3>4, <4>1, <5>1
      <4>3. CASE i # RxIdx(rx_wr)
        <5>1. rxbufs'[i] = rxbufs[i]
          BY <1>4, <1>5, <3>3, <3>6, <4>3
        <5> QED
          BY <3>4, <4>1, <4>3, <5>1
      <4> QED
        BY <4>2, <4>3
    <3> QED
      BY <3>5, <3>6
  <2> QED
    BY <1>0, <2>2, <2>3
<1>8. RxOwned'
  <2>1. \A i \in XdpSlots : xdpbufs'[i] = "own"
    BY <1>0, <1>4 DEF RxOwned
  <2>2. RxFill' = RxFill
    BY DEF RxFill
  <2> QED
    BY <1>1, <1>7, <2>1, <2>2 DEF RxOwned
<1> QED
  BY <1>3, <1>6, <1>8 DEF RxInv


\* The device fills the buffer after those it has filled.
LEMMA RxReceives == ASSUME RxInv, FwReceive PROVE RxInv'
<1> USE RxSizes
<1>0. /\ rx_pc \in {"idle", "poll"} /\ fl_rd # fl_wr /\ rx_dd' = rx_dd \cup {fl_rd}
      /\ fl_rd' = RxIdx(fl_rd + 1) /\ irq' = TRUE
      /\ UNCHANGED <<rx_wr, rx_rd, rxbufs, fl_wr, xdp_wr, xdp_rd, xdp_qcp, xdp_add, xdpbufs, fx_wr, fx_rd,
                     rx_pc, polled, completed, rejects, tainted>>
  BY DEF FwReceive, xdpring, rxhist
<1>1. /\ RxTypeOK /\ RxPlaces /\ RxFilled /\ RxOwned /\ rx_rd \in Int /\ fl_wr \in Int /\ fl_rd \in Int
      /\ RxUsed \in 0 .. RxCnt - 1 /\ RxGot \in 0 .. RxCnt - 1 /\ RxTold \in 0 .. RxCnt - 1
      /\ RxPart \in 0 .. FlBatch - 1 /\ RxGot + RxTold + RxPart = RxUsed
      /\ fl_rd = RxIdx(rx_rd + RxGot) /\ fl_wr = RxIdx(fl_rd + RxTold)
  BY RxParts
<1>2. Running /\ Running'
  BY <1>0 DEF Running
<1>3. RxTold >= 1 /\ RxGot + 1 \in 0 .. RxCnt - 1 /\ RxTold - 1 \in 0 .. RxCnt - 1
  <2>1. RxTold # 0
    <3>1. SUFFICES ASSUME RxTold = 0 PROVE FALSE
      OBVIOUS
    <3>2. fl_rd + RxTold = fl_rd /\ fl_rd \in RxSlots
      BY <1>1, <3>1 DEF RxTypeOK
    <3>3. RxIdx(fl_rd) = fl_rd
      BY <3>2, RxEntry
    <3> QED
      BY <1>0, <1>1, <3>2, <3>3
  <2> QED
    BY <1>1, <2>1
<1>4. RxGot' = RxGot + 1
  <2>0. RxIdx(fl_rd - rx_rd) + 1 \in 0 .. RxCnt - 1 /\ 1 \in Int
    BY <1>3 DEF RxGot
  <2>1. RxIdx(RxIdx(fl_rd + 1) - rx_rd) = RxIdx(fl_rd - rx_rd) + 1
    BY <1>1, <2>0, RxFirst
  <2> QED
    BY <1>0, <2>1 DEF RxGot, RxIdx
<1>5. RxTold' = RxTold - 1
  <2>0. RxIdx(fl_wr - fl_rd) - 1 \in 0 .. RxCnt - 1 /\ 1 \in Int
    BY <1>3 DEF RxTold
  <2>1. RxIdx(fl_wr - RxIdx(fl_rd + 1)) = RxIdx(fl_wr - fl_rd) - 1
    BY <1>1, <2>0, RxSecond
  <2> QED
    BY <1>0, <2>1 DEF RxTold, RxIdx
<1>6. RxUsed' = RxUsed /\ RxPart' = RxPart /\ RxAt' = RxAt /\ RxFill' = RxFill
  BY <1>0 DEF RxUsed, RxPart, RxAt, RxIdx, RxFill
<1>7. RxPlaces'
  <2>1. (RxGot + 1) + (RxTold - 1) + RxPart = RxUsed
    BY <1>1
  <2> QED
    BY <1>0, <1>1, <1>2, <1>4, <1>5, <1>6, <2>1 DEF RxPlaces
<1>8. RxFilled'
  <2> SUFFICES ASSUME NEW k \in 0 .. RxUsed - 1 PROVE RxAt[k] \in rx_dd' <=> k < RxGot + 1
    BY <1>4, <1>6 DEF RxFilled
  <2>1. k \in 0 .. RxCnt - 1 /\ (k < RxGot + 1 <=> (k < RxGot \/ k = RxGot))
    BY <1>1
  <2>2. RxAt[k] \in rx_dd <=> k < RxGot
    BY <1>1 DEF RxFilled
  <2>3. RxAt[k] = RxIdx(rx_rd + k)
    BY <2>1 DEF RxAt
  <2>4. RxAt[k] = fl_rd <=> k = RxGot
    <3>1. RxIdx(rx_rd + k) = RxIdx(rx_rd + RxGot) => k = RxGot
      BY <1>1, <2>1, RxSame
    <3> QED
      BY <1>1, <2>3, <3>1, Zenon
  <2> QED
    BY <1>0, <2>1, <2>2, <2>4
<1>9. RxOwned'
  BY <1>0, <1>1, <1>2, <1>6 DEF RxOwned
<1>10. RxTypeOK'
  <2>1. fl_rd + 1 \in Int
    BY <1>1
  <2>2. fl_rd' \in RxSlots
    BY <1>0, <2>1, RxEntry
  <2>3. rx_dd' \subseteq RxSlots
    BY <1>0, <1>1, Zenon DEF RxTypeOK
  <2> QED
    BY <1>0, <1>1, <2>2, <2>3 DEF RxTypeOK
<1>11. XdpPlaces'
  BY <1>0, <1>2, XdpFrame
<1>12. RxCalled'
  BY <1>0 DEF RxCalled
<1> QED
  BY <1>7, <1>8, <1>9, <1>10, <1>11, <1>12 DEF RxInv

LEMMA RxFwSends == ASSUME RxInv, FwSend PROVE RxInv'
<1> USE RxSizes
<1>0. /\ rx_pc \in {"idle", "poll"} /\ fx_rd # fx_wr /\ fx_rd' = XdpIdx(fx_rd + 1)
      /\ UNCHANGED <<rx_wr, rx_rd, rxbufs, rx_dd, fl_wr, fl_rd, xdp_wr, xdp_rd, xdp_qcp, xdp_add, xdpbufs, fx_wr,
                     rx_pc, polled, completed, irq, rejects, tainted>>
  BY DEF FwSend, xdpring, rxring, rxpoll, rxhist
<1>1. /\ RxTypeOK /\ XdpPlaces /\ xdp_rd \in Int /\ fx_wr \in Int /\ fx_rd \in Int /\ xdp_add \in Nat
      /\ XdpUsed \in 0 .. XdpCnt - 1 /\ XdpSent \in 0 .. XdpCnt - 1 /\ XdpTold \in 0 .. XdpCnt - 1
      /\ XdpSent + XdpTold + xdp_add = XdpUsed
  BY XdpParts
<1>2. Running /\ Running'
  BY <1>0 DEF Running
<1>3. XdpTold >= 1 /\ XdpSent + 1 \in 0 .. XdpCnt - 1 /\ XdpTold - 1 \in 0 .. XdpCnt - 1
  <2>1. XdpTold # 0
    <3>1. SUFFICES ASSUME XdpTold = 0 PROVE FALSE
      OBVIOUS
    <3>2. fx_rd + XdpTold = fx_rd /\ fx_rd \in XdpSlots /\ fx_wr \in XdpSlots
      BY <1>1, <3>1 DEF RxTypeOK
    <3>3. XdpIdx(fx_rd) = fx_rd /\ XdpIdx(fx_wr) = fx_wr
      BY <3>2, XdpEntry
    <3>4. XdpIdx(fx_wr) = XdpIdx(fx_rd + XdpTold)
      BY <1>1, XdpDistance DEF XdpTold
    <3> QED
      BY <1>0, <3>2, <3>3, <3>4
  <2> QED
    BY <1>1, <2>1
<1>4. XdpSent' = XdpSent + 1
  <2>0. XdpIdx(fx_rd - xdp_rd) + 1 \in 0 .. XdpCnt - 1 /\ 1 \in Int
    BY <1>3 DEF XdpSent
  <2>1. XdpIdx(XdpIdx(fx_rd + 1) - xdp_rd) = XdpIdx(fx_rd - xdp_rd) + 1
    BY <1>1, <2>0, XdpFirst, SMTT(30)
  <2> QED
    BY <1>0, <2>1 DEF XdpSent, XdpIdx
<1>5. XdpTold' = XdpTold - 1
  <2>0. XdpIdx(fx_wr - fx_rd) - 1 \in 0 .. XdpCnt - 1 /\ 1 \in Int
    BY <1>3 DEF XdpTold
  <2>1. XdpIdx(fx_wr - XdpIdx(fx_rd + 1)) = XdpIdx(fx_wr - fx_rd) - 1
    BY <1>1, <2>0, XdpSecond
  <2> QED
    BY <1>0, <2>1 DEF XdpTold, XdpIdx
<1>6. XdpUsed' = XdpUsed /\ XdpIdx(xdp_rd)' = XdpIdx(xdp_rd)
  BY <1>0 DEF XdpUsed, XdpIdx
<1>7. XdpPlaces'
  <2>1. (XdpSent + 1) + (XdpTold - 1) + xdp_add = XdpUsed
    BY <1>1
  <2> QED
    BY <1>0, <1>1, <1>2, <1>4, <1>5, <1>6, <2>1 DEF XdpPlaces
<1>8. RxUsed' = RxUsed /\ RxGot' = RxGot /\ RxTold' = RxTold /\ RxPart' = RxPart /\ RxAt' = RxAt /\ RxFilled'
  BY <1>0, RxFrame
<1>9. RxPlaces' /\ RxOwned' /\ RxCalled'
  <2>1. RxPlaces /\ RxOwned /\ RxCalled
    BY RxParts
  <2>2. RxFill' = RxFill
    BY DEF RxFill
  <2> QED
    BY <1>0, <1>2, <1>8, <2>1, <2>2 DEF RxPlaces, RxOwned, RxCalled
<1>10. RxTypeOK'
  <2>1. fx_rd + 1 \in Int
    BY <1>1
  <2>2. fx_rd' \in XdpSlots
    BY <1>0, <2>1, XdpEntry
  <2> QED
    BY <1>0, <1>1, <2>2 DEF RxTypeOK
<1> QED
  BY <1>7, <1>8, <1>9, <1>10 DEF RxInv

LEMMA RxPolls == ASSUME RxInv, RxPoll PROVE RxInv'
<1>0. /\ rx_pc = "idle" /\ rx_pc' = "poll" /\ irq' = FALSE
      /\ UNCHANGED <<rx_wr, rx_rd, rxbufs, rx_dd, fl_wr, fl_rd, xdp_wr, xdp_rd, xdp_qcp, xdp_add, xdpbufs, fx_wr,
                     fx_rd, polled, completed, rejects, tainted>>
  BY DEF RxPoll, xdpring, rxring, rxdev, rxhist
<1>1. Running /\ Running' /\ RxFill' = RxFill
  BY <1>0 DEF Running, RxFill
<1>2. RxUsed' = RxUsed /\ RxGot' = RxGot /\ RxTold' = RxTold /\ RxPart' = RxPart /\ RxAt' = RxAt /\ RxFilled'
  BY <1>0, RxFrame
<1>3. RxPlaces' /\ RxOwned' /\ RxCalled'
  <2>1. RxPlaces /\ RxOwned
    BY RxParts
  <2> QED
    BY <1>0, <1>1, <1>2, <2>1 DEF RxPlaces, RxOwned, RxCalled
<1>4. XdpPlaces'
  BY <1>0, <1>1, XdpFrame
<1>5. RxTypeOK'
  <2>1. RxTypeOK
    BY RxParts
  <2> QED
    BY <1>0, <2>1, Zenon DEF RxTypeOK
<1> QED
  BY <1>2, <1>3, <1>4, <1>5 DEF RxInv


\* A packet to take: the first entry of the window has been filled.
LEMMA RxHas ==
    ASSUME RxInv, HasPacket
    PROVE  /\ Running /\ RxUsed >= 1 /\ RxGot >= 1 /\ RxAt[0] = RxIdx(rx_rd) /\ Taken = "own"
           /\ RxIdx(rx_rd) \in RxSlots /\ RxIdx(rx_wr) \in RxSlots /\ polled < Budget
           /\ rx_pc = "poll"
<1> USE RxSizes
<1>0. Running /\ rx_pc = "poll" /\ polled < Budget /\ RxIdx(rx_rd) \in rx_dd
  BY DEF HasPacket, Running
<1>1. /\ RxFilled /\ RxOwned /\ rx_rd \in Int /\ rx_wr \in Int /\ RxUsed \in 0 .. RxCnt - 1 /\ RxUsed >= 1
      /\ RxGot \in 0 .. RxCnt - 1
  BY <1>0, RxParts
<1>2. 0 \in 0 .. RxUsed - 1 /\ 0 \in 0 .. RxCnt - 1 /\ rx_rd + 0 = rx_rd
  BY <1>1
<1>3. RxAt[0] = RxIdx(rx_rd)
  BY <1>2 DEF RxAt
<1>4. 0 < RxGot /\ rxbufs[RxAt[0]] = "own"
  BY <1>0, <1>1, <1>2, <1>3 DEF RxFilled, RxOwned
<1>5. RxIdx(rx_rd) \in RxSlots /\ RxIdx(rx_wr) \in RxSlots
  BY <1>1, RxEntry
<1> QED
  BY <1>0, <1>1, <1>3, <1>4, <1>5 DEF Taken

LEMMA RxTakes ==
    ASSUME RxInv, HasPacket, TakePacket, UNCHANGED fl_rd
    PROVE  /\ rx_rd' \in 0 .. RxWord - 1 /\ polled' \in 0 .. Budget /\ RxGot' = RxGot - 1
           /\ \A k \in 0 .. RxCnt - 2 : RxAt'[k] = RxAt[k + 1]
<1> USE RxSizes
<1>0. rx_rd' = RxPlus(rx_rd, 1) /\ polled' = polled + 1 /\ fl_rd' = fl_rd
  BY DEF TakePacket
<1>1. /\ RxTypeOK /\ rx_rd \in Int /\ fl_rd \in Int /\ RxGot \in 0 .. RxCnt - 1 /\ RxGot >= 1
      /\ polled < Budget
  BY RxParts, RxHas
<1>2. rx_rd' \in 0 .. RxWord - 1
  <2>1. rx_rd + 1 \in Int
    BY <1>1
  <2> QED
    BY <1>0, <2>1, RxNumbers, ModRange, Zenon DEF RxPlus
<1>3. polled' \in 0 .. Budget
  BY <1>0, <1>1 DEF RxTypeOK
<1>4. RxGot' = RxGot - 1
  <2>1. RxIdx(fl_rd - rx_rd) - 1 \in 0 .. RxCnt - 1 /\ 1 \in Int
    BY <1>1 DEF RxGot
  <2>2. RxIdx(fl_rd - RxPlus(rx_rd, 1)) = RxIdx(fl_rd - rx_rd) - 1
    BY <1>1, <2>1, RxSecond
  <2> QED
    BY <1>0, <2>2 DEF RxGot, RxIdx
<1>5. ASSUME NEW k \in 0 .. RxCnt - 2 PROVE RxAt'[k] = RxAt[k + 1]
  <2>1. k \in Int /\ 1 \in Int /\ k \in 0 .. RxCnt - 1 /\ k + 1 \in 0 .. RxCnt - 1 /\ 1 + k = k + 1
    OBVIOUS
  <2>2. RxIdx(RxPlus(rx_rd, 1) + k) = RxIdx(rx_rd + (1 + k))
    BY <1>1, <2>1, RxEntry
  <2>3. RxAt'[k] = RxIdx(rx_rd' + k) /\ RxAt[k + 1] = RxIdx(rx_rd + (k + 1))
    BY <2>1 DEF RxAt, RxIdx
  <2> QED
    BY <1>0, <2>1, <2>2, <2>3
<1> QED
  BY <1>2, <1>3, <1>4, <1>5

\* A batch is full after FlBatch buffers.
LEMMA RxBatch ==
    ASSUME NEW p \in 0 .. RxWord - 1
    PROVE  RxPlus(p, 1) % FlBatch = IF (p % FlBatch) + 1 = FlBatch THEN 0 ELSE (p % FlBatch) + 1
<1>0. RxWord \in Nat \ {0} /\ FlBatch \in Nat \ {0} /\ RxCnt \in Nat \ {0} /\ p \in Int /\ p + 1 \in Int /\ 1 \in Int
  BY RxNumbers
<1>1. RxWord % FlBatch = 0
  <2>1. (RxWord % RxCnt) = 0 /\ RxCnt % FlBatch = 0
    BY RxNumbers
  <2>a. RxWord \in Int /\ RxCnt \in Int
    BY <1>0
  <2>2. PICK d \in Int : RxWord = RxCnt * d
    BY <1>0, <2>1, <2>a, Multiple, Zenon
  <2>3. PICK e \in Int : RxCnt = FlBatch * e
    BY <1>0, <2>1, <2>a, Multiple, Zenon
  <2>4. e * d \in Int /\ RxWord = FlBatch * (e * d) + 0 /\ 0 \in 0 .. FlBatch - 1
    BY <1>0, <2>2, <2>3
  <2>5. (FlBatch * (e * d) + 0) % FlBatch = 0
    BY <1>0, <2>4, ModUnique, Zenon
  <2> QED
    BY <2>4, <2>5
<1>2. ((p + 1) % RxWord) % FlBatch = (p + 1) % FlBatch
  BY <1>0, <1>1, ModMod, Zenon
<1>3. ((p % FlBatch) + 1) % FlBatch = (p + 1) % FlBatch
  BY <1>0, ModAdd, Zenon
<1>4. p % FlBatch \in 0 .. FlBatch - 1
  BY <1>0, ModRange
<1>5. CASE (p % FlBatch) + 1 = FlBatch
  <2>1. FlBatch % FlBatch = 0
    BY <1>0
  <2> QED
    BY <1>2, <1>3, <1>5, <2>1 DEF RxPlus
<1>6. CASE (p % FlBatch) + 1 # FlBatch
  <2>1. (p % FlBatch) + 1 \in 0 .. FlBatch - 1
    BY <1>0, <1>4, <1>6
  <2>2. ((p % FlBatch) + 1) % FlBatch = (p % FlBatch) + 1
    BY <1>0, <2>1, ModUnique
  <2> QED
    BY <1>2, <1>3, <1>6, <2>2 DEF RxPlus
<1> QED
  BY <1>5, <1>6


\* A buffer is taken off the ring and one is given for it: the window moves
\* on by one entry, which the device is told of with the rest of its batch.
LEMMA RxGives ==
    ASSUME RxInv, HasPacket, TakePacket, GiveOne("own"), UNCHANGED <<rx_pc, fl_rd, rejects, tainted>>,
           \A i \in XdpSlots : xdpbufs'[i] = "own"
    PROVE  /\ RxPlaces' /\ RxFilled' /\ RxOwned' /\ RxCalled'
           /\ rx_wr' \in 0 .. RxWord - 1 /\ fl_wr' \in RxSlots
           /\ rxbufs' \in [RxSlots -> Entry] /\ rx_dd' \subseteq RxSlots
<1> USE RxSizes
<1>0. /\ rxbufs' = [rxbufs EXCEPT ![RxIdx(rx_rd)] = "stale", ![RxIdx(rx_wr)] = "own"]
      /\ rx_dd' = rx_dd \ {RxIdx(rx_wr)} /\ rx_wr' = RxPlus(rx_wr, 1)
      /\ fl_wr' = IF rx_wr' % FlBatch = 0 THEN RxIdx(fl_wr + FlBatch) ELSE fl_wr
      /\ rx_rd' = RxPlus(rx_rd, 1) /\ UNCHANGED <<rx_pc, fl_rd, rejects, tainted>>
  BY DEF GiveOne, TakePacket
<1>1. /\ RxTypeOK /\ RxPlaces /\ RxFilled /\ RxOwned
      /\ rx_wr \in Int /\ rx_rd \in Int /\ fl_wr \in Int /\ fl_rd \in Int
      /\ RxUsed \in 0 .. RxCnt - 1 /\ RxGot \in 0 .. RxCnt - 1 /\ RxTold \in 0 .. RxCnt - 1
      /\ RxPart \in 0 .. FlBatch - 1 /\ RxGot + RxTold + RxPart = RxUsed
      /\ RxIdx(rx_wr) = RxIdx(rx_rd + RxUsed)
  BY RxParts
<1>2. /\ Running /\ RxUsed >= 1 /\ RxGot >= 1 /\ RxAt[0] = RxIdx(rx_rd) /\ rx_pc = "poll"
      /\ RxIdx(rx_rd) \in RxSlots /\ RxIdx(rx_wr) \in RxSlots
  BY RxHas
<1>3. RxGot' = RxGot - 1 /\ \A k \in 0 .. RxCnt - 2 : RxAt'[k] = RxAt[k + 1]
  BY RxTakes
<1>4. Running' /\ RxFill' = RxFill
  BY <1>0, <1>2 DEF Running, RxFill
<1>5. rx_wr' \in 0 .. RxWord - 1 /\ RxUsed' = RxUsed
  <2>1. rx_wr \in 0 .. RxWord - 1 /\ rx_rd \in 0 .. RxWord - 1 /\ RxWord \in Nat \ {0} /\ 1 \in Nat
    BY <1>1, RxNumbers DEF RxTypeOK
  <2>2. ((rx_wr - rx_rd) % RxWord) + 1 < RxWord
    BY <1>1 DEF RxUsed
  <2>3. PICK w \in 0 .. RxWord - 1 : w = (rx_wr + 1) % RxWord
    BY <2>1, ModRange
  <2>4. (w - rx_rd) % RxWord = ((rx_wr - rx_rd) % RxWord) + 1
    <3>1. (((rx_wr + 1) % RxWord) - rx_rd) % RxWord = ((rx_wr - rx_rd) % RxWord) + 1
      BY <2>1, <2>2, FirstMoves
    <3> QED
      BY <2>3, <3>1
  <2>5. (w - rx_rd) % RxWord = RxUsed + 1
    BY <2>4 DEF RxUsed
  <2>6. 1 <= (w - rx_rd) % RxWord
    BY <1>1, <2>5
  <2>7. (w - ((rx_rd + 1) % RxWord)) % RxWord = ((w - rx_rd) % RxWord) - 1
    BY <2>1, <2>6, SecondMoves
  <2>8. (w - ((rx_rd + 1) % RxWord)) % RxWord = RxUsed
    BY <1>1, <2>5, <2>7
  <2>9. rx_wr' = w /\ rx_rd' = (rx_rd + 1) % RxWord
    BY <1>0, <2>3 DEF RxPlus
  <2> QED
    BY <2>8, <2>9 DEF RxUsed
<1>6. RxPart' = IF RxPart + 1 = FlBatch THEN 0 ELSE RxPart + 1
  <2>1. rx_wr \in 0 .. RxWord - 1
    BY <1>1 DEF RxTypeOK
  <2> QED
    BY <1>0, <2>1, RxBatch DEF RxPart
<1>7. /\ RxTold' = (IF RxPart + 1 = FlBatch THEN RxTold + FlBatch ELSE RxTold)
      /\ fl_wr' \in RxSlots
  <2>1. CASE RxPart + 1 = FlBatch
    <3>1. fl_wr' = RxIdx(fl_wr + FlBatch)
      BY <1>0, <1>6, <2>1 DEF RxPart
    <3>2. RxTold + FlBatch \in 0 .. RxCnt - 1 /\ fl_wr + FlBatch \in Int /\ FlBatch \in Int
      BY <1>1, <1>2, <2>1
    <3>3. RxIdx(fl_wr - fl_rd) + FlBatch \in 0 .. RxCnt - 1
      BY <3>2 DEF RxTold
    <3>4. RxIdx(RxIdx(fl_wr + FlBatch) - fl_rd) = RxIdx(fl_wr - fl_rd) + FlBatch
      BY <1>1, <3>2, <3>3, RxFirst, ZenonT(30)
    <3>5. RxTold' = RxTold + FlBatch
      BY <1>0, <3>1, <3>4 DEF RxTold, RxIdx
    <3>6. fl_wr' \in RxSlots
      BY <3>1, <3>2, RxEntry
    <3> QED
      BY <2>1, <3>5, <3>6
  <2>2. CASE RxPart + 1 # FlBatch
    <3>1. fl_wr' = fl_wr
      BY <1>0, <1>1, <1>6, <2>2 DEF RxPart
    <3>2. RxTold' = RxTold
      BY <1>0, <3>1 DEF RxTold, RxIdx
    <3> QED
      BY <1>1, <2>2, <3>1, <3>2 DEF RxTypeOK
  <2> QED
    BY <2>1, <2>2
<1>8. RxPlaces'
  <2>1. RxGot' + RxTold' + RxPart' = RxUsed
    BY <1>1, <1>3, <1>6, <1>7
  <2> QED
    BY <1>0, <1>1, <1>2, <1>4, <1>5, <2>1 DEF RxPlaces
<1>9. /\ \A k \in 0 .. RxUsed - 1 : RxAt'[k] = RxAt[k + 1]
      /\ RxAt[RxUsed] = RxIdx(rx_wr)
      /\ \A k \in 0 .. RxUsed - 1 : k + 1 \in 0 .. RxCnt - 1 /\ (k + 1 \in 0 .. RxUsed - 1 \/ k + 1 = RxUsed)
  <2>1. \A k \in 0 .. RxUsed - 1 : k \in 0 .. RxCnt - 2
    BY <1>1
  <2>2. RxAt[RxUsed] = RxIdx(rx_wr)
    BY <1>1 DEF RxAt
  <2>3. \A k \in 0 .. RxUsed - 1 : k + 1 \in 0 .. RxCnt - 1 /\ (k + 1 \in 0 .. RxUsed - 1 \/ k + 1 = RxUsed)
    BY <1>1
  <2> QED
    BY <1>3, <2>1, <2>2, <2>3, Zenon
<1>10. \A j \in 0 .. RxCnt - 1 : RxAt[j] \in RxSlots /\ \A k \in 0 .. RxCnt - 1 : RxAt[j] = RxAt[k] => j = k
  <2>1. \A j \in 0 .. RxCnt - 1 : RxAt[j] = RxIdx(rx_rd + j) /\ rx_rd + j \in Int
    BY <1>1 DEF RxAt
  <2>2. \A j \in 0 .. RxCnt - 1 : RxAt[j] \in RxSlots
    BY <2>1, RxEntry, ZenonT(30)
  <2>3. \A j, k \in 0 .. RxCnt - 1 : RxIdx(rx_rd + j) = RxIdx(rx_rd + k) => j = k
    BY <1>1, RxSame
  <2> QED
    BY <2>1, <2>2, <2>3
<1>11. RxFilled'
  <2> SUFFICES ASSUME NEW k \in 0 .. RxUsed - 1 PROVE RxAt'[k] \in rx_dd' <=> k < RxGot - 1
    BY <1>3, <1>5 DEF RxFilled
  <2>1. CASE k + 1 \in 0 .. RxUsed - 1
    <3>1. RxAt[k + 1] \in rx_dd <=> k + 1 < RxGot
      BY <1>1, <2>1 DEF RxFilled
    <3>2. RxAt[k + 1] # RxIdx(rx_wr)
      BY <1>1, <1>9, <1>10, <2>1
    <3>3. k + 1 < RxGot <=> k < RxGot - 1
      BY <1>1
    <3> QED
      BY <1>0, <1>9, <3>1, <3>2, <3>3
  <2>2. CASE k + 1 = RxUsed
    <3>1. ~(k < RxGot - 1)
      BY <1>1, <2>2
    <3>2. RxAt'[k] = RxIdx(rx_wr)
      BY <1>9, <2>2
    <3> QED
      BY <1>0, <3>1, <3>2
  <2> QED
    BY <1>9, <2>1, <2>2
<1>12. rxbufs' \in [RxSlots -> Entry] /\ rx_dd' \subseteq RxSlots
  <2>1. rxbufs \in [RxSlots -> Entry] /\ rx_dd \subseteq RxSlots
    BY <1>1 DEF RxTypeOK
  <2> QED
    BY <1>0, <2>1, Zenon DEF Entry
<1>13. \A k \in 0 .. RxUsed - 1 : rxbufs'[RxAt'[k]] = "own"
  <2> SUFFICES ASSUME NEW k \in 0 .. RxUsed - 1 PROVE rxbufs'[RxAt[k + 1]] = "own"
    BY <1>9
  <2>0. rxbufs \in [RxSlots -> Entry] /\ k + 1 \in 0 .. RxCnt - 1 /\ 0 \in 0 .. RxCnt - 1 /\ k + 1 # 0
    BY <1>1, <1>9 DEF RxTypeOK
  <2>1. CASE k + 1 \in 0 .. RxUsed - 1
    <3>1. rxbufs[RxAt[k + 1]] = "own"
      BY <1>1, <1>2, <2>1 DEF RxOwned
    <3>2. RxAt[k + 1] # RxIdx(rx_rd) /\ RxAt[k + 1] \in RxSlots
      BY <1>2, <1>10, <2>0
    <3>3. rxbufs'[RxAt[k + 1]] = rxbufs[RxAt[k + 1]] \/ RxAt[k + 1] = RxIdx(rx_wr)
      BY <1>0, <2>0, <3>2
    <3>4. rxbufs'[RxIdx(rx_wr)] = "own"
      BY <1>0, <1>2, <2>0
    <3> QED
      BY <3>1, <3>3, <3>4
  <2>2. CASE k + 1 = RxUsed
    BY <1>0, <1>2, <1>9, <2>0, <2>2
  <2> QED
    BY <1>9, <2>1, <2>2
<1>14. RxOwned'
  BY <1>0, <1>2, <1>5, <1>13, Zenon DEF RxOwned
<1>15. RxCalled'
  BY <1>0, <1>2 DEF RxCalled
<1> QED
  BY <1>5, <1>7, <1>8, <1>11, <1>12, <1>14, <1>15


\* Entries of the XDP ring are completed, no more than the device has sent.
LEMMA XdpCompletes ==
    ASSUME RxInv, NEW n \in 0 .. XdpSent, XdpComplete(n), UNCHANGED fx_rd
    PROVE  /\ xdp_rd' \in 0 .. RxWord - 1 /\ xdp_qcp' = XdpIdx(xdp_rd)' /\ xdp_qcp' \in XdpSlots
           /\ XdpSent' = XdpSent - n /\ (xdp_wr - xdp_rd') % RxWord = XdpUsed - n
<1> USE RxSizes
<1>0. xdp_qcp' = XdpIdx(xdp_qcp + n) /\ xdp_rd' = RxPlus(xdp_rd, n) /\ fx_rd' = fx_rd
  BY DEF XdpComplete
<1>1. /\ RxTypeOK /\ xdp_rd \in Int /\ fx_rd \in Int /\ XdpSent \in 0 .. XdpCnt - 1
      /\ XdpUsed \in 0 .. XdpCnt - 1 /\ XdpTold \in 0 .. XdpCnt - 1 /\ xdp_add \in Nat
      /\ XdpSent + XdpTold + xdp_add = XdpUsed /\ xdp_qcp = XdpIdx(xdp_rd)
  BY XdpParts
<1>2. n \in Nat /\ n \in Int /\ n <= XdpUsed /\ xdp_rd + n \in Int
  BY <1>1
<1>3. xdp_rd' \in 0 .. RxWord - 1
  BY <1>0, <1>2, RxNumbers, ModRange, Zenon DEF RxPlus
<1>4. xdp_qcp' = XdpIdx(xdp_rd + n) /\ XdpIdx(xdp_rd') = XdpIdx(xdp_rd + n) /\ xdp_qcp' \in XdpSlots
  <2>1. ((xdp_rd % XdpCnt) + n) % XdpCnt = (xdp_rd + n) % XdpCnt
    BY <1>1, <1>2, RxNumbers, ModAdd, Zenon
  <2>2. ((xdp_rd + n) % RxWord) % XdpCnt = (xdp_rd + n) % XdpCnt
    BY <1>2, RxNumbers, ModMod
  <2>3. XdpIdx(xdp_rd + n) \in XdpSlots
    BY <1>2, XdpEntry
  <2> QED
    BY <1>0, <1>1, <2>1, <2>2, <2>3 DEF XdpIdx, RxPlus
<1>5. XdpSent' = XdpSent - n
  <2>1. XdpIdx(fx_rd - xdp_rd) - n \in 0 .. XdpCnt - 1
    BY <1>1, <1>2 DEF XdpSent
  <2>2. XdpIdx(fx_rd - RxPlus(xdp_rd, n)) = XdpIdx(fx_rd - xdp_rd) - n
    BY <1>1, <1>2, <2>1, XdpSecond
  <2> QED
    BY <1>0, <2>2 DEF XdpSent, XdpIdx
<1>6. (xdp_wr - xdp_rd') % RxWord = XdpUsed - n
  <2>1. /\ xdp_wr \in 0 .. RxWord - 1 /\ xdp_rd \in 0 .. RxWord - 1 /\ RxWord \in Nat \ {0}
        /\ n <= (xdp_wr - xdp_rd) % RxWord
    BY <1>1, <1>2, RxNumbers DEF RxTypeOK, XdpUsed
  <2>2. (xdp_wr - ((xdp_rd + n) % RxWord)) % RxWord = ((xdp_wr - xdp_rd) % RxWord) - n
    BY <1>2, <2>1, SecondMoves
  <2> QED
    BY <1>0, <2>2 DEF XdpUsed, RxPlus
<1>7. XdpIdx(xdp_rd)' = XdpIdx(xdp_rd')
  BY DEF XdpIdx
<1> QED
  BY <1>3, <1>4, <1>5, <1>6, <1>7

LEMMA XdpDoneFits == ASSUME RxInv PROVE XdpDone \in 0 .. XdpSent /\ 0 \in 0 .. XdpSent /\ Reclaimed \in 0 .. XdpSent
<1>1. XdpTodo = XdpSent /\ XdpSent \in Nat /\ MaxComplete \in Nat
  BY XdpParts, RxSizes
<1>2. XdpDone \in 0 .. XdpSent /\ 0 \in 0 .. XdpSent
  BY <1>1 DEF XdpDone
<1> QED
  BY <1>2 DEF Reclaimed

\* The types of what a step of the poll changes
LEMMA RxPollTypes ==
    ASSUME RxInv, rx_wr' \in 0 .. RxWord - 1, rx_rd' \in 0 .. RxWord - 1, fl_wr' \in RxSlots,
           rxbufs' \in [RxSlots -> Entry], rx_dd' \subseteq RxSlots, polled' \in 0 .. Budget,
           xdp_wr' \in 0 .. RxWord - 1, xdp_rd' \in 0 .. RxWord - 1, xdp_qcp' \in XdpSlots,
           xdp_add' \in 0 .. XdpCnt, xdpbufs' \in [XdpSlots -> Entry], fx_wr' \in XdpSlots,
           completed' \in BOOLEAN, irq' \in BOOLEAN, rx_pc' \in {"idle", "poll"}, rejects' \in 0 .. MaxRejects,
           UNCHANGED <<fl_rd, fx_rd, tainted>>
    PROVE  RxTypeOK'
<1>1. RxTypeOK
  BY RxParts
<1> QED
  BY <1>1 DEF RxTypeOK

LEMMA RxReceive == ASSUME RxInv, Receive PROVE RxInv'
<1> USE RxSizes
<1>0. /\ HasPacket /\ TakePacket /\ GiveOne(Taken)
      /\ UNCHANGED <<xdp_wr, xdp_rd, xdp_qcp, xdp_add, xdpbufs, fx_wr, fl_rd, fx_rd, rx_pc, completed, irq, rejects, tainted>>
  BY DEF Receive, xdpring, rxdev, rxhist
<1>1. Running /\ Taken = "own" /\ rx_pc = "poll"
  BY <1>0, RxHas
<1>2. RxTypeOK /\ RxOwned
  BY RxParts
<1>3. \A i \in XdpSlots : xdpbufs'[i] = "own"
  BY <1>0, <1>1, <1>2 DEF RxOwned
<1>4. /\ RxPlaces' /\ RxFilled' /\ RxOwned' /\ RxCalled'
      /\ rx_wr' \in 0 .. RxWord - 1 /\ fl_wr' \in RxSlots
      /\ rxbufs' \in [RxSlots -> Entry] /\ rx_dd' \subseteq RxSlots
  BY <1>0, <1>1, <1>3, RxGives
<1>5. rx_rd' \in 0 .. RxWord - 1 /\ polled' \in 0 .. Budget
  BY <1>0, RxTakes
<1>6. XdpPlaces'
  <2>1. Running'
    BY <1>0, <1>1 DEF Running
  <2> QED
    BY <1>0, <2>1, XdpFrame
<1>7. RxTypeOK'
  <2>1. /\ xdp_wr' \in 0 .. RxWord - 1 /\ xdp_rd' \in 0 .. RxWord - 1 /\ xdp_qcp' \in XdpSlots
        /\ xdp_add' \in 0 .. XdpCnt /\ xdpbufs' \in [XdpSlots -> Entry] /\ fx_wr' \in XdpSlots
        /\ completed' \in BOOLEAN /\ irq' \in BOOLEAN /\ rx_pc' \in {"idle", "poll"} /\ rejects' \in 0 .. MaxRejects
    BY <1>0, <1>1, <1>2 DEF RxTypeOK
  <2> QED
    BY <1>0, <1>4, <1>5, <2>1, RxPollTypes
<1> QED
  BY <1>4, <1>6, <1>7 DEF RxInv

LEMMA RxTxDrop == ASSUME RxInv, XdpTxDrop PROVE RxInv'
<1> USE RxSizes
<1>0. /\ HasPacket /\ TakePacket /\ GiveOne(Taken) /\ completed' = (completed \/ Cleans) /\ XdpComplete(Reclaimed)
      /\ UNCHANGED <<xdp_wr, xdp_add, xdpbufs, fx_wr, fl_rd, fx_rd, rx_pc, irq, rejects, tainted>>
  BY DEF XdpTxDrop, rxdev, rxhist
<1>1. Running /\ Taken = "own" /\ rx_pc = "poll"
  BY <1>0, RxHas
<1>2. RxTypeOK /\ RxOwned
  BY RxParts
<1>3. \A i \in XdpSlots : xdpbufs'[i] = "own"
  BY <1>0, <1>1, <1>2 DEF RxOwned
<1>4. /\ RxPlaces' /\ RxFilled' /\ RxOwned' /\ RxCalled'
      /\ rx_wr' \in 0 .. RxWord - 1 /\ fl_wr' \in RxSlots
      /\ rxbufs' \in [RxSlots -> Entry] /\ rx_dd' \subseteq RxSlots
  BY <1>0, <1>1, <1>3, RxGives
<1>5. rx_rd' \in 0 .. RxWord - 1 /\ polled' \in 0 .. Budget
  BY <1>0, RxTakes
<1>6. /\ xdp_rd' \in 0 .. RxWord - 1 /\ xdp_qcp' = XdpIdx(xdp_rd)' /\ xdp_qcp' \in XdpSlots
      /\ XdpSent' = XdpSent - Reclaimed /\ (xdp_wr - xdp_rd') % RxWord = XdpUsed - Reclaimed
  BY <1>0, XdpDoneFits, XdpCompletes
<1>7. XdpPlaces'
  <2>1. Running'
    BY <1>0, <1>1 DEF Running
  <2>2. XdpTold' = XdpTold
    BY <1>0 DEF XdpTold, XdpIdx
  <2>3. XdpUsed' = XdpUsed - Reclaimed
    BY <1>0, <1>6 DEF XdpUsed
  <2>4. /\ XdpSent + XdpTold + xdp_add = XdpUsed /\ XdpUsed \in 0 .. XdpCnt - 1 /\ XdpSent \in Nat
        /\ XdpTold \in Nat /\ xdp_add \in Nat /\ Reclaimed \in 0 .. XdpSent
    BY XdpParts, XdpDoneFits
  <2>5. (XdpSent - Reclaimed) + XdpTold + xdp_add = XdpUsed - Reclaimed /\ XdpUsed - Reclaimed <= XdpCnt - 1
    BY <2>4
  <2> QED
    BY <1>0, <1>6, <2>1, <2>2, <2>3, <2>5 DEF XdpPlaces
<1>8. RxTypeOK'
  <2>1. /\ xdp_wr' \in 0 .. RxWord - 1
        /\ xdp_add' \in 0 .. XdpCnt /\ xdpbufs' \in [XdpSlots -> Entry] /\ fx_wr' \in XdpSlots
        /\ completed' \in BOOLEAN /\ irq' \in BOOLEAN /\ rx_pc' \in {"idle", "poll"} /\ rejects' \in 0 .. MaxRejects
    BY <1>0, <1>1, <1>2 DEF RxTypeOK
  <2> QED
    BY <1>0, <1>4, <1>5, <1>6, <2>1, RxPollTypes
<1> QED
  BY <1>4, <1>7, <1>8 DEF RxInv


LEMMA RxTx == ASSUME RxInv, XdpTx PROVE RxInv'
<1> USE RxSizes
<1>0. /\ HasPacket /\ TakePacket /\ ~XdpFull(Reclaimed) /\ completed' = (completed \/ Cleans)
      /\ XdpComplete(Reclaimed) /\ GiveOne(xdpbufs[XdpIdx(xdp_wr)])
      /\ xdpbufs' = [xdpbufs EXCEPT ![XdpIdx(xdp_wr)] = Taken]
      /\ xdp_wr' = RxPlus(xdp_wr, 1) /\ xdp_add' = xdp_add + 1
      /\ UNCHANGED <<fx_wr, fl_rd, fx_rd, rx_pc, irq, rejects, tainted>>
  BY DEF XdpTx, rxdev, rxhist
<1>1. Running /\ Taken = "own" /\ rx_pc = "poll"
  BY <1>0, RxHas
<1>2. RxTypeOK /\ RxOwned
  BY RxParts
<1>3. XdpIdx(xdp_wr) \in XdpSlots /\ xdpbufs[XdpIdx(xdp_wr)] = "own"
  <2>1. XdpIdx(xdp_wr) \in XdpSlots
    BY XdpParts, XdpEntry
  <2> QED
    BY <1>1, <1>2, <2>1 DEF RxOwned
<1>4. xdpbufs' \in [XdpSlots -> Entry] /\ \A i \in XdpSlots : xdpbufs'[i] = "own"
  <2>1. xdpbufs \in [XdpSlots -> Entry] /\ \A i \in XdpSlots : xdpbufs[i] = "own"
    BY <1>1, <1>2, SMTT(30) DEF RxOwned, RxTypeOK
  <2> QED
    BY <1>0, <1>1, <1>3, <2>1 DEF Entry
<1>5. /\ RxPlaces' /\ RxFilled' /\ RxOwned' /\ RxCalled'
      /\ rx_wr' \in 0 .. RxWord - 1 /\ fl_wr' \in RxSlots
      /\ rxbufs' \in [RxSlots -> Entry] /\ rx_dd' \subseteq RxSlots
  BY <1>0, <1>3, <1>4, RxGives
<1>6. rx_rd' \in 0 .. RxWord - 1 /\ polled' \in 0 .. Budget
  BY <1>0, RxTakes
<1>7. /\ xdp_rd' \in 0 .. RxWord - 1 /\ xdp_qcp' = XdpIdx(xdp_rd)' /\ xdp_qcp' \in XdpSlots
      /\ XdpSent' = XdpSent - Reclaimed /\ (xdp_wr - xdp_rd') % RxWord = XdpUsed - Reclaimed
  BY <1>0, XdpDoneFits, XdpCompletes
<1>8. /\ XdpSent + XdpTold + xdp_add = XdpUsed /\ XdpUsed \in 0 .. XdpCnt - 1 /\ XdpSent \in Nat
      /\ XdpTold \in Nat /\ xdp_add \in Nat /\ Reclaimed \in 0 .. XdpSent
  BY XdpParts, XdpDoneFits
<1>9. XdpUsed - Reclaimed + 1 <= XdpCnt - 1 /\ XdpUsed - Reclaimed + 1 \in Nat
  <2>1. ~(XdpUsed - Reclaimed >= XdpCnt - 1)
    BY <1>0 DEF XdpFull
  <2> QED
    BY <1>8, <2>1
<1>10. xdp_wr' \in 0 .. RxWord - 1 /\ XdpUsed' = XdpUsed - Reclaimed + 1
  <2>1. xdp_wr \in 0 .. RxWord - 1 /\ RxWord \in Nat \ {0} /\ 1 \in Nat /\ xdp_wr + 1 \in Int
    BY <1>2, RxNumbers DEF RxTypeOK
  <2>2. PICK r \in 0 .. RxWord - 1 : r = xdp_rd'
    BY <1>7
  <2>3. ((xdp_wr - r) % RxWord) = XdpUsed - Reclaimed
    BY <1>7, <2>2
  <2>4. ((xdp_wr - r) % RxWord) + 1 < RxWord
    BY <1>9, <2>3
  <2>5. (((xdp_wr + 1) % RxWord) - r) % RxWord = ((xdp_wr - r) % RxWord) + 1
    BY <2>1, <2>4, FirstMoves
  <2>6. xdp_wr' = (xdp_wr + 1) % RxWord
    BY <1>0 DEF RxPlus
  <2>7. XdpUsed' = XdpUsed - Reclaimed + 1
    BY <2>2, <2>3, <2>5, <2>6 DEF XdpUsed
  <2> QED
    BY <2>1, <2>6, <2>7, ModRange
<1>11. XdpPlaces'
  <2>1. Running'
    BY <1>0, <1>1 DEF Running
  <2>2. XdpTold' = XdpTold
    BY <1>0 DEF XdpTold, XdpIdx
  <2>3. (XdpSent - Reclaimed) + XdpTold + (xdp_add + 1) = XdpUsed - Reclaimed + 1
    BY <1>8
  <2> QED
    BY <1>0, <1>7, <1>9, <1>10, <2>1, <2>2, <2>3 DEF XdpPlaces
<1>12. RxTypeOK'
  <2>1. xdp_add' \in 0 .. XdpCnt
    BY <1>0, <1>8, <1>9
  <2>2. /\ fx_wr' \in XdpSlots /\ irq' \in BOOLEAN /\ rx_pc' \in {"idle", "poll"} /\ rejects' \in 0 .. MaxRejects
    BY <1>0, <1>1, <1>2 DEF RxTypeOK
  <2>3. completed' \in BOOLEAN
    BY <1>0, <1>2 DEF RxTypeOK
  <2> QED
    BY <1>0, <1>4, <1>5, <1>6, <1>7, <1>10, <2>1, <2>2, <2>3, RxPollTypes
<1> QED
  BY <1>5, <1>11, <1>12 DEF RxInv

LEMMA RxRejects == ASSUME RxInv, XdpTxReject PROVE RxInv'
<1> USE RxSizes
<1>0. /\ HasPacket /\ TakePacket /\ rejects < MaxRejects /\ rejects' = rejects + 1
      /\ UNCHANGED <<rx_wr, rxbufs, rx_dd, fl_wr, xdp_wr, xdp_rd, xdp_qcp, xdp_add, xdpbufs, fx_wr, fl_rd, fx_rd,
                     rx_pc, completed, irq, tainted>>
  BY DEF XdpTxReject, xdpring, rxdev
<1>1. Running /\ rx_pc = "poll" /\ RxUsed >= 1 /\ RxGot >= 1
  BY <1>0, RxHas
<1>2. /\ RxTypeOK /\ RxPlaces /\ RxFilled /\ RxOwned /\ RxUsed \in 0 .. RxCnt - 1 /\ RxGot \in 0 .. RxCnt - 1
      /\ RxTold \in 0 .. RxCnt - 1 /\ RxPart \in 0 .. FlBatch - 1 /\ RxGot + RxTold + RxPart = RxUsed
  BY RxParts
<1>3. /\ rx_rd' \in 0 .. RxWord - 1 /\ polled' \in 0 .. Budget /\ RxGot' = RxGot - 1
      /\ \A k \in 0 .. RxCnt - 2 : RxAt'[k] = RxAt[k + 1]
  BY <1>0, RxTakes
<1>4. RxUsed' = RxUsed - 1
  <2>1. rx_wr \in 0 .. RxWord - 1 /\ rx_rd \in 0 .. RxWord - 1 /\ RxWord \in Nat \ {0} /\ 1 \in Nat
    BY <1>2, RxNumbers DEF RxTypeOK
  <2>2. 1 <= (rx_wr - rx_rd) % RxWord
    BY <1>1 DEF RxUsed
  <2>3. (rx_wr - ((rx_rd + 1) % RxWord)) % RxWord = ((rx_wr - rx_rd) % RxWord) - 1
    BY <2>1, <2>2, SecondMoves
  <2> QED
    BY <1>0, <2>3 DEF RxUsed, TakePacket, RxPlus
<1>5. RxTold' = RxTold /\ RxPart' = RxPart /\ Running' /\ RxFill' = RxFill
  BY <1>0, <1>1 DEF RxTold, RxPart, RxIdx, Running, RxFill
<1>6. rejects \in 0 .. MaxRejects /\ rejects' \in 0 .. MaxRejects
  BY <1>0, <1>2 DEF RxTypeOK
<1>7. RxPlaces'
  <2>1. RxUsed = RxFill - rejects /\ ~tainted /\ RxUsed <= RxFill
    BY <1>1, <1>2 DEF RxPlaces
  <2>2. (RxGot - 1) + RxTold + RxPart = RxUsed - 1 /\ RxUsed - 1 <= RxFill
    BY <1>2, <2>1 DEF RxFill
  <2>3. RxUsed - 1 = RxFill - (rejects + 1)
    BY <1>6, <2>1 DEF RxFill
  <2> QED
    BY <1>0, <1>3, <1>4, <1>5, <2>1, <2>2, <2>3 DEF RxPlaces
<1>8. \A k \in 0 .. RxUsed - 2 : RxAt'[k] = RxAt[k + 1] /\ k + 1 \in 0 .. RxUsed - 1
  BY <1>2, <1>3
<1>9. RxUsed' - 1 = RxUsed - 2
  BY <1>2, <1>4
<1>10. RxFilled'
  <2> SUFFICES ASSUME NEW k \in 0 .. RxUsed - 2 PROVE RxAt[k + 1] \in rx_dd <=> k < RxGot - 1
    BY <1>0, <1>3, <1>8, <1>9 DEF RxFilled
  <2>1. RxAt[k + 1] \in rx_dd <=> k + 1 < RxGot
    BY <1>2, <1>8 DEF RxFilled
  <2> QED
    BY <1>2, <2>1
<1>11. RxOwned'
  <2>1. \A k \in 0 .. RxUsed - 2 : rxbufs[RxAt'[k]] = "own"
    BY <1>1, <1>2, <1>8 DEF RxOwned
  <2>2. \A i \in XdpSlots : xdpbufs[i] = "own"
    BY <1>1, <1>2 DEF RxOwned
  <2> QED
    BY <1>0, <1>1, <1>9, <2>1, <2>2 DEF RxOwned
<1>12. XdpPlaces'
  BY <1>0, <1>5, XdpFrame
<1>13. RxCalled'
  BY <1>0, <1>1, SMTT(30) DEF RxCalled
<1>14. RxTypeOK'
  <2>1. /\ rx_wr' \in 0 .. RxWord - 1 /\ fl_wr' \in RxSlots /\ rxbufs' \in [RxSlots -> Entry] /\ rx_dd' \subseteq RxSlots
        /\ xdp_wr' \in 0 .. RxWord - 1 /\ xdp_rd' \in 0 .. RxWord - 1 /\ xdp_qcp' \in XdpSlots
        /\ xdp_add' \in 0 .. XdpCnt /\ xdpbufs' \in [XdpSlots -> Entry] /\ fx_wr' \in XdpSlots
        /\ completed' \in BOOLEAN /\ irq' \in BOOLEAN /\ rx_pc' \in {"idle", "poll"}
    BY <1>0, <1>1, <1>2 DEF RxTypeOK
  <2> QED
    BY <1>0, <1>3, <1>6, <2>1, RxPollTypes
<1> QED
  BY <1>7, <1>10, <1>11, <1>12, <1>13, <1>14 DEF RxInv


LEMMA RxEnds == ASSUME RxInv, PollEnd PROVE RxInv'
<1> USE RxSizes
<1> DEFINE n == IF CleansAtEnd THEN XdpDone ELSE 0
<1>0. /\ rx_pc = "poll" /\ (polled = Budget \/ RxIdx(rx_rd) \notin rx_dd) /\ XdpComplete(n)
      /\ fx_wr' = XdpIdx(fx_wr + xdp_add) /\ xdp_add' = 0 /\ rx_pc' = "idle" /\ polled' = 0 /\ completed' = FALSE
      /\ UNCHANGED <<rx_wr, rx_rd, rxbufs, rx_dd, fl_wr, xdp_wr, xdpbufs, fl_rd, fx_rd, rejects, tainted>>
  BY DEF PollEnd, rxring, rxdev, rxhist
<1>1. irq' \in BOOLEAN /\ (polled = Budget => irq')
  <2>1. irq' = (irq \/ polled = Budget \/ (CleansAtEnd /\ XdpTodo > MaxComplete))
    BY Zenon DEF PollEnd
  <2> QED
    BY <2>1, Zenon
<1>2. n \in 0 .. XdpSent
  BY XdpDoneFits
<1> HIDE DEF n
<1>3. /\ xdp_rd' \in 0 .. RxWord - 1 /\ xdp_qcp' = XdpIdx(xdp_rd)' /\ xdp_qcp' \in XdpSlots
      /\ XdpSent' = XdpSent - n /\ (xdp_wr - xdp_rd') % RxWord = XdpUsed - n
  BY <1>0, <1>2, XdpCompletes
<1>4. Running /\ Running' /\ rx_pc' = "idle"
  BY <1>0 DEF Running
<1>5. /\ RxTypeOK /\ RxPlaces /\ RxFilled /\ RxOwned /\ RxUsed >= 1 /\ RxUsed \in 0 .. RxCnt - 1
      /\ RxGot \in 0 .. RxCnt - 1 /\ rx_rd \in Int
  BY <1>4, RxParts
<1>6. RxUsed' = RxUsed /\ RxGot' = RxGot /\ RxTold' = RxTold /\ RxPart' = RxPart /\ RxAt' = RxAt /\ RxFilled'
  BY <1>0, RxFrame
<1>7. RxPlaces'
  BY <1>0, <1>4, <1>5, <1>6 DEF RxPlaces, RxFill
<1>8. RxOwned'
  BY <1>0, <1>4, <1>5, <1>6 DEF RxOwned
<1>9. RxCalled'
  <2>1. 0 \in 0 .. RxUsed - 1 /\ 0 \in 0 .. RxCnt - 1 /\ rx_rd + 0 = rx_rd
    BY <1>5
  <2>2. RxAt[0] = RxIdx(rx_rd)
    BY <2>1 DEF RxAt
  <2>3. RxIdx(rx_rd) \in rx_dd <=> 0 < RxGot
    BY <1>5, <2>1, <2>2 DEF RxFilled
  <2>4. polled = Budget \/ RxGot = 0
    BY <1>0, <1>5, <2>3
  <2> QED
    BY <1>1, <1>6, <2>4 DEF RxCalled
<1>10. /\ XdpSent + XdpTold + xdp_add = XdpUsed /\ XdpUsed \in 0 .. XdpCnt - 1 /\ XdpSent \in Nat
       /\ XdpTold \in Nat /\ xdp_add \in Nat /\ fx_wr \in Int /\ fx_rd \in Int
  BY XdpParts
<1>11. XdpTold' = XdpTold + xdp_add /\ fx_wr' \in XdpSlots
  <2>1. XdpTold + xdp_add \in 0 .. XdpCnt - 1 /\ xdp_add \in Int /\ fx_wr + xdp_add \in Int
    BY <1>10
  <2>2. XdpIdx(fx_wr - fx_rd) + xdp_add \in 0 .. XdpCnt - 1
    BY <2>1 DEF XdpTold
  <2>3. XdpIdx(XdpIdx(fx_wr + xdp_add) - fx_rd) = XdpIdx(fx_wr - fx_rd) + xdp_add
    BY <1>10, <2>1, <2>2, XdpFirst, SMTT(30)
  <2>4. XdpIdx(fx_wr + xdp_add) \in XdpSlots
    BY <2>1, XdpEntry
  <2>5. XdpTold' = XdpTold + xdp_add
    BY <1>0, <2>3 DEF XdpTold, XdpIdx
  <2> QED
    BY <1>0, <2>4, <2>5
<1>12. XdpPlaces'
  <2>1. XdpUsed' = XdpUsed - n
    BY <1>0, <1>3 DEF XdpUsed
  <2>2. (XdpSent - n) + (XdpTold + xdp_add) + 0 = XdpUsed - n /\ XdpUsed - n <= XdpCnt - 1
    BY <1>2, <1>10, SMTT(30)
  <2> QED
    BY <1>0, <1>3, <1>4, <1>11, <2>1, <2>2 DEF XdpPlaces
<1>13. RxTypeOK'
  <2>1. /\ rx_wr' \in 0 .. RxWord - 1 /\ rx_rd' \in 0 .. RxWord - 1 /\ fl_wr' \in RxSlots
        /\ rxbufs' \in [RxSlots -> Entry] /\ rx_dd' \subseteq RxSlots
        /\ xdp_wr' \in 0 .. RxWord - 1 /\ xdpbufs' \in [XdpSlots -> Entry] /\ rejects' \in 0 .. MaxRejects
    BY <1>0, <1>5 DEF RxTypeOK
  <2>2. polled' \in 0 .. Budget /\ xdp_add' \in 0 .. XdpCnt
    BY <1>0
  <2>3. completed' \in BOOLEAN
    BY <1>0, Zenon
  <2> QED
    BY <1>0, <1>1, <1>3, <1>4, <1>11, <2>1, <2>2, <2>3, RxPollTypes, SMTT(30)
<1> QED
  BY <1>6, <1>7, <1>8, <1>9, <1>12, <1>13 DEF RxInv

LEMMA RxInvNext == RxInv /\ [RxNext]_rxvars => RxInv'
<1> SUFFICES ASSUME RxInv, [RxNext]_rxvars PROVE RxInv'
  OBVIOUS
<1>1. CASE BufsAlloc
  BY <1>1, RxAllocs
<1>2. CASE BufsFree
  BY <1>2, RxFrees
<1>3. CASE FillFreelist
  BY <1>3, RxFills
<1>4. CASE RxReset
  BY <1>4, RxResets
<1>5. CASE FwReceive
  BY <1>5, RxReceives
<1>6. CASE FwSend
  BY <1>6, RxFwSends
<1>7. CASE RxPoll
  BY <1>7, RxPolls
<1>8. CASE Receive
  BY <1>8, RxReceive
<1>9. CASE XdpTx
  BY <1>9, RxTx
<1>10. CASE XdpTxDrop
  BY <1>10, RxTxDrop
<1>11. CASE XdpTxReject
  BY <1>11, RxRejects
<1>12. CASE PollEnd
  BY <1>12, RxEnds
<1>13. CASE UNCHANGED rxvars
  <2>1. /\ UNCHANGED <<rx_wr, rx_rd, rxbufs, rx_dd, fl_wr, fl_rd, xdp_wr, xdp_rd, xdp_qcp, xdp_add, xdpbufs, fx_wr, fx_rd>>
        /\ UNCHANGED <<rx_pc, polled, completed, irq, rejects, tainted>>
    BY <1>13 DEF rxvars, rxring, xdpring, rxdev, rxpoll, rxhist
  <2>2. RxUsed' = RxUsed /\ RxGot' = RxGot /\ RxTold' = RxTold /\ RxPart' = RxPart /\ RxAt' = RxAt /\ RxFilled'
    BY <2>1, RxFrame
  <2>3. Running' <=> Running
    BY <2>1 DEF Running
  <2>4. XdpPlaces'
    BY <2>1, <2>3, XdpFrame
  <2>5. RxTypeOK /\ RxPlaces /\ RxOwned /\ RxCalled
    BY RxParts
  <2>6. RxTypeOK'
    BY <2>1, <2>5 DEF RxTypeOK
  <2>7. RxPlaces' /\ RxCalled'
    BY <2>1, <2>2, <2>3, <2>5 DEF RxPlaces, RxCalled, RxFill
  <2>8. RxOwned'
    BY <2>1, <2>2, <2>3, <2>5 DEF RxOwned
  <2> QED
    BY <2>2, <2>4, <2>6, <2>7, <2>8 DEF RxInv
<1> QED
  BY <1>1, <1>2, <1>3, <1>4, <1>5, <1>6, <1>7, <1>8, <1>9, <1>10, <1>11, <1>12, <1>13 DEF RxNext, PollStep

\* RxInv is stated by places counted from the read pointer; RxSound by sets of
\* entries.
LEMMA RxInvSound == RxInv => RxSound
<1> USE RxSizes
<1> SUFFICES ASSUME RxInv PROVE RxSound
  OBVIOUS
<1>1. /\ RxTypeOK /\ RxPlaces /\ RxFilled /\ RxOwned /\ RxCalled /\ rx_rd \in Int
      /\ RxUsed \in 0 .. RxCnt - 1 /\ RxGot \in 0 .. RxCnt - 1 /\ RxTold \in 0 .. RxCnt - 1
      /\ RxPart \in 0 .. FlBatch - 1 /\ RxGot + RxTold + RxPart = RxUsed /\ fl_rd = RxIdx(rx_rd + RxGot)
      /\ (Running => RxUsed >= 1)
  BY RxParts
<1>2. \A k \in 0 .. RxCnt - 1 : RxAt[k] = RxIdx(rx_rd + k)
  BY DEF RxAt
<1>3. \A k \in 0 .. RxUsed - 1 : k \in 0 .. RxCnt - 1
  BY <1>1
<1>4. /\ \A i \in RxWindow : \E k \in 0 .. RxUsed - 1 : i = RxAt[k]
      /\ \A k \in 0 .. RxUsed - 1 : RxAt[k] \in RxWindow
  BY <1>2, <1>3 DEF RxWindow
<1>5. RxShortByRejects
  BY <1>1 DEF RxShortByRejects, RxPlaces, Running
<1>6. NoBufferTwice
  BY <1>1, <1>4 DEF NoBufferTwice, RxOwned, Running
<1>7. FwFreelist \subseteq RxWindow \ rx_dd
  <2> SUFFICES ASSUME NEW k \in 0 .. RxTold - 1 PROVE RxIdx(fl_rd + k) \in RxWindow \ rx_dd
    BY DEF FwFreelist, RxTold
  <2>1. k \in Int /\ RxGot \in Int /\ RxGot + k \in 0 .. RxUsed - 1 /\ ~(RxGot + k < RxGot)
    BY <1>1
  <2>2. RxIdx(RxIdx(rx_rd + RxGot) + k) = RxIdx(rx_rd + (RxGot + k))
    <3>1. rx_rd \in Int /\ RxGot \in Int /\ k \in Int
      BY <1>1, <2>1
    <3>2. \A p, j, m \in Int : RxIdx(RxIdx(p + j) + m) = RxIdx(p + (j + m))
      BY RxEntry, Zenon
    <3> QED
      BY <3>1, <3>2, Zenon
  <2>3. RxIdx(fl_rd + k) = RxAt[RxGot + k]
    BY <1>1, <1>2, <1>3, <2>1, <2>2
  <2>4. RxAt[RxGot + k] \notin rx_dd
    BY <1>1, <2>1 DEF RxFilled
  <2> QED
    BY <1>4, <2>1, <2>3, <2>4
<1>8. rx_dd \cap RxWindow = {RxIdx(rx_rd + k) : k \in 0 .. RxIdx(fl_rd - rx_rd) - 1}
  <2>1. \A k \in 0 .. RxGot - 1 : k \in 0 .. RxUsed - 1 /\ k < RxGot
    BY <1>1
  <2>2. \A k \in 0 .. RxUsed - 1 : k < RxGot => k \in 0 .. RxGot - 1
    BY <1>1
  <2>3. {RxIdx(rx_rd + k) : k \in 0 .. RxGot - 1} = {RxAt[k] : k \in 0 .. RxGot - 1}
    BY <1>2, <1>3, <2>1
  <2>4. \A i \in rx_dd \cap RxWindow : \E k \in 0 .. RxGot - 1 : i = RxAt[k]
    BY <1>1, <1>4, <2>2 DEF RxFilled
  <2>5. \A k \in 0 .. RxGot - 1 : RxAt[k] \in rx_dd \cap RxWindow
    BY <1>1, <1>4, <2>1 DEF RxFilled
  <2>6. rx_dd \cap RxWindow = {RxAt[k] : k \in 0 .. RxGot - 1}
    BY <2>4, <2>5
  <2> QED
    BY <2>3, <2>6, Zenon DEF RxGot
<1>9. FwXdp \subseteq XdpWindow
  <2>0. /\ XdpSent + XdpTold + xdp_add = XdpUsed /\ XdpUsed \in 0 .. XdpCnt - 1 /\ XdpSent \in 0 .. XdpCnt - 1
        /\ XdpTold \in 0 .. XdpCnt - 1 /\ xdp_add \in Nat /\ fx_rd \in XdpSlots /\ fx_rd \in Int /\ xdp_rd \in Int
    BY <1>1, XdpParts DEF RxTypeOK
  <2>1. fx_rd = XdpIdx(xdp_rd + XdpSent)
    <3>1. XdpIdx(fx_rd) = XdpIdx(xdp_rd + XdpIdx(fx_rd - xdp_rd))
      BY <2>0, XdpDistance
    <3>2. XdpIdx(fx_rd) = fx_rd
      BY <2>0, XdpEntry
    <3> QED
      BY <3>1, <3>2 DEF XdpSent
  <2> SUFFICES ASSUME NEW k \in 0 .. XdpTold - 1 PROVE XdpIdx(fx_rd + k) \in XdpWindow
    BY DEF FwXdp, XdpTold
  <2>2. k \in Int /\ XdpSent \in Int /\ XdpSent + k \in 0 .. XdpUsed - 1
    BY <2>0
  <2>3. XdpIdx(XdpIdx(xdp_rd + XdpSent) + k) = XdpIdx(xdp_rd + (XdpSent + k))
    <3>1. xdp_rd \in Int /\ XdpSent \in Int /\ k \in Int
      BY <2>0, <2>2
    <3>2. \A p, j, m \in Int : XdpIdx(XdpIdx(p + j) + m) = XdpIdx(p + (j + m))
      BY XdpEntry, Zenon
    <3> QED
      BY <3>1, <3>2, Zenon
  <2> QED
    BY <2>1, <2>2, <2>3, SMTT(30) DEF XdpWindow
<1>10. NoPacketForgotten
  <2> SUFFICES ASSUME rx_pc = "idle", ~irq PROVE RxIdx(rx_rd) \notin rx_dd
    BY DEF NoPacketForgotten
  <2>1. RxGot = 0 /\ Running
    BY <1>1 DEF RxCalled, Running
  <2>2. 0 \in 0 .. RxUsed - 1 /\ 0 \in 0 .. RxCnt - 1 /\ rx_rd + 0 = rx_rd /\ ~(0 < RxGot)
    BY <1>1, <2>1
  <2>3. RxAt[0] = RxIdx(rx_rd)
    BY <1>2, <2>2
  <2> QED
    BY <1>1, <2>2, <2>3 DEF RxFilled
<1> QED
  BY <1>1, <1>5, <1>6, <1>7, <1>8, <1>9, <1>10 DEF RxSound, DeviceInWindow

\* Whatever packets the device receives and whatever nfp_nfd3_rx() does with
\* each of them, the receive ring is short only by the packets
\* nfp_nfd3_tx_xdp_buf() refused, no buffer is on two rings, the device stays
\* inside the entries it was given and no received packet waits for a poll that
\* nobody will schedule.
THEOREM ReceiveRingSound == RxSpec => []RxSound
<1>1. RxInv => RxSound
  BY RxInvSound
<1> QED
  BY <1>1, RxInvInit, RxInvNext, PTL DEF RxSpec

=============================================================================

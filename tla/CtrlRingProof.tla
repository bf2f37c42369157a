---------------------------- MODULE CtrlRingProof ----------------------------
(***************************************************************************)
(* The rings of the control vNIC take the messages to the firmware in the  *)
(* order in which nfp_ctrl_tx() was called, for rings of any size.  The    *)
(* messages the device is still to fetch are counted from its read         *)
(* pointer: they and the queue are in order, and all are later than the    *)
(* one fetched last.                                                       *)
(***************************************************************************)
EXTENDS CtrlRing, RingArith, TLAPS

\* The entries of the ring, from the one the device fetches next
CtRing == [k \in 0 .. CtCnt - 1 |-> ct_bufs[CtIdx(ct_fw + k)]]

\* Entries fetched and not yet completed, and entries still to be fetched
CtDone == CtIdx(ct_fw - ct_rd)
CtTold == CtIdx(ct_wr - ct_fw)

CtPlaces ==
    /\ CtUsed <= CtCnt - 1 /\ CtDone + CtTold = CtUsed
    /\ ct_qcp = CtIdx(ct_rd)

CtSorted ==
    /\ \A k \in 0 .. CtTold - 1 : ct_got < CtRing[k] /\ CtRing[k] < ct_next
    /\ \A j, k \in 0 .. CtTold - 1 : j < k => CtRing[j] < CtRing[k]
    /\ \A i \in 1 .. Len(ct_queue) : ct_got < ct_queue[i] /\ ct_queue[i] < ct_next
    /\ \A k \in 0 .. CtTold - 1, i \in 1 .. Len(ct_queue) : CtRing[k] < ct_queue[i]
    /\ \A i, j \in 1 .. Len(ct_queue) : i < j => ct_queue[i] < ct_queue[j]
    /\ ct_got < ct_next

CtInv == CtTypeOK /\ CtPlaces /\ CtSorted /\ CtQueuedOnlyWhenFull

LEMMA CtNumbers ==
    /\ CtCnt \in Nat \ {0} /\ CtWord \in Nat \ {0} /\ CtWord % CtCnt = 0
    /\ CtCnt > 1 /\ CtWord >= 2 * CtCnt /\ CtMsgs \in Nat /\ CtRx \in Nat
    /\ CtBudget \in 1 .. CtWord - 1
BY CtConstants

\* What the steps need of them
LEMMA CtSizes == CtCnt \in Nat /\ CtCnt > 1 /\ CtWord \in Nat /\ CtWord > CtCnt /\ CtMsgs \in Nat /\ CtRx \in Nat
                 /\ CtBudget \in 1 .. CtWord - 1
BY CtConstants

LEMMA CtEntries ==
    ASSUME NEW a \in Int, NEW p \in Int
    PROVE  /\ CtIdx(a - p) \in 0 .. CtCnt - 1 /\ CtIdx(a) = CtIdx(p + CtIdx(a - p))
           /\ \A k \in 0 .. CtCnt - 1 : CtIdx(a) = CtIdx(p + k) => CtIdx(a - p) = k
           /\ CtIdx(a) \in CtSlots
           /\ \A j, k \in 0 .. CtCnt - 1 : CtIdx(p + j) = CtIdx(p + k) => j = k
           /\ \A j, k \in Int : CtIdx(CtIdx(p + j) + k) = CtIdx(p + (j + k))
<1>1. CtCnt \in Nat \ {0}
  BY CtNumbers
<1>2. /\ (a - p) % CtCnt \in 0 .. CtCnt - 1 /\ a % CtCnt = (p + ((a - p) % CtCnt)) % CtCnt
      /\ \A k \in 0 .. CtCnt - 1 : a % CtCnt = (p + k) % CtCnt => (a - p) % CtCnt = k
  <2>1. \A b, q \in Int :
           /\ (b - q) % CtCnt \in 0 .. CtCnt - 1 /\ b % CtCnt = (q + ((b - q) % CtCnt)) % CtCnt
           /\ \A k \in 0 .. CtCnt - 1 : b % CtCnt = (q + k) % CtCnt => (b - q) % CtCnt = k
    BY <1>1, DistanceIs, Zenon
  <2> QED
    BY <2>1, Zenon
<1>3. a % CtCnt \in 0 .. CtCnt - 1
  BY <1>1, ModRange
<1>4. /\ \A j, k \in 0 .. CtCnt - 1 : (p + j) % CtCnt = (p + k) % CtCnt => j = k
      /\ \A j, k \in Int : (((p + j) % CtCnt) + k) % CtCnt = (p + (j + k)) % CtCnt
  BY <1>1, EntriesOf, ZenonT(30)
<1> QED
  BY <1>2, <1>3, <1>4, Zenon DEF CtIdx, CtSlots

\* What stands at each place of two sequences one after the other
LEMMA Concat ==
    ASSUME NEW S, NEW s \in Seq(S), NEW t \in Seq(S)
    PROVE  /\ Len(s \o t) = Len(s) + Len(t)
           /\ \A i \in 1 .. Len(s) + Len(t) : (s \o t)[i] = IF i <= Len(s) THEN s[i] ELSE t[i - Len(s)]
OBVIOUS

\* The same facts, one at a time
LEMMA CtSame ==
    \A p \in Int : \A j, k \in 0 .. CtCnt - 1 : CtIdx(p + j) = CtIdx(p + k) => j = k
BY CtEntries, Zenon

LEMMA CtFurther ==
    \A p \in Int : \A j, k \in Int : CtIdx(CtIdx(p + j) + k) = CtIdx(p + (j + k))
<1>1. CtCnt \in Nat \ {0}
  BY CtNumbers
<1>2. \A p \in Int : \A j, k \in Int : (((p + j) % CtCnt) + k) % CtCnt = (p + (j + k)) % CtCnt
  BY <1>1, EntriesOf, ZenonT(30)
<1> QED
  BY <1>2 DEF CtIdx

LEMMA CtAway ==
    \A a, p \in Int : \A k \in 0 .. CtCnt - 1 : CtIdx(a) = CtIdx(p + k) => CtIdx(a - p) = k
<1>1. CtCnt \in Nat \ {0}
  BY CtNumbers
<1>2. \A b, q \in Int :
         /\ (b - q) % CtCnt \in 0 .. CtCnt - 1 /\ b % CtCnt = (q + ((b - q) % CtCnt)) % CtCnt
         /\ \A k \in 0 .. CtCnt - 1 : b % CtCnt = (q + k) % CtCnt => (b - q) % CtCnt = k
  BY <1>1, DistanceIs, Zenon
<1> QED
  BY <1>2, SMTT(30) DEF CtIdx

LEMMA CtAtSame == \A a, p \in Int : CtIdx(a) = CtIdx(p) => CtIdx(a - p) = 0
<1> SUFFICES ASSUME NEW a \in Int, NEW p \in Int, CtIdx(a) = CtIdx(p) PROVE CtIdx(a - p) = 0
  OBVIOUS
<1>1. p + 0 = p /\ 0 \in 0 .. CtCnt - 1
  BY CtSizes
<1>2. CtIdx(a) = CtIdx(p + 0)
  BY <1>1
<1> QED
  BY <1>1, <1>2, CtAway, ZenonT(30)

LEMMA CtTwice == \A p \in Int : CtIdx(CtIdx(p)) = CtIdx(p)
<1>1. CtCnt \in Nat \ {0}
  BY CtNumbers
<1>2. ASSUME NEW p \in Int PROVE (p % CtCnt) % CtCnt = p % CtCnt
  <2>1. p % CtCnt \in 0 .. CtCnt - 1
    BY <1>1, ModRange
  <2> QED
    BY <1>1, <2>1, ModUnique
<1> QED
  BY <1>2 DEF CtIdx

\* A pointer of the driver moves on: its entry does.
LEMMA CtInc ==
    ASSUME NEW p \in Int, NEW j \in Int
    PROVE  /\ (p + j) % CtWord \in 0 .. CtWord - 1
           /\ CtIdx((p + j) % CtWord) = CtIdx(p + j)
<1>1. CtCnt \in Nat \ {0} /\ CtWord \in Nat \ {0} /\ CtWord % CtCnt = 0 /\ p + j \in Int
  BY CtNumbers
<1> QED
  BY <1>1, ModRange, ModMod, Zenon DEF CtIdx

LEMMA CtParts ==
    ASSUME CtInv
    PROVE  /\ CtTypeOK /\ CtPlaces /\ CtSorted /\ CtQueuedOnlyWhenFull
           /\ ct_wr \in Int /\ ct_rd \in Int /\ ct_fw \in Int /\ ct_fw \in CtSlots
           /\ CtIdx(ct_fw) = ct_fw
           /\ CtUsed \in 0 .. CtCnt - 1 /\ CtDone \in 0 .. CtCnt - 1 /\ CtTold \in 0 .. CtCnt - 1
           /\ CtDone + CtTold = CtUsed
           /\ CtIdx(ct_wr) = CtIdx(ct_fw + CtTold) /\ ct_fw = CtIdx(ct_rd + CtDone)
           /\ ct_got \in Int /\ ct_next \in Int
           /\ CtRing \in [0 .. CtCnt - 1 -> 0 .. CtMsgs]
<1> USE CtNumbers
<1>0. CtTypeOK /\ CtPlaces /\ CtSorted /\ CtQueuedOnlyWhenFull
  BY DEF CtInv
<1>1. /\ ct_wr \in 0 .. CtWord - 1 /\ ct_rd \in 0 .. CtWord - 1
      /\ ct_wr \in Int /\ ct_rd \in Int /\ ct_fw \in Int /\ ct_fw \in CtSlots
      /\ ct_got \in Int /\ ct_next \in Int
  BY <1>0 DEF CtTypeOK, CtSlots
<1>2. CtIdx(ct_fw) = ct_fw
  BY <1>1, ModUnique DEF CtIdx, CtSlots
<1>3. CtUsed \in 0 .. CtCnt - 1
  <2>1. CtUsed \in 0 .. CtWord - 1
    BY <1>1, Distance DEF CtUsed
  <2> QED
    BY <1>0, <2>1 DEF CtPlaces
<1>4. CtDone \in 0 .. CtCnt - 1 /\ CtIdx(ct_fw) = CtIdx(ct_rd + CtDone)
  BY <1>1, CtEntries, Zenon DEF CtDone
<1>5. CtTold \in 0 .. CtCnt - 1 /\ CtIdx(ct_wr) = CtIdx(ct_fw + CtTold)
  BY <1>1, CtEntries, Zenon DEF CtTold
<1>6. CtRing \in [0 .. CtCnt - 1 -> 0 .. CtMsgs]
  <2>1. \A k \in 0 .. CtCnt - 1 : CtIdx(ct_fw + k) \in CtSlots
    BY <1>1, CtEntries
  <2> QED
    BY <1>0, <2>1 DEF CtRing, CtTypeOK
<1> QED
  BY <1>0, <1>1, <1>2, <1>3, <1>4, <1>5, <1>6, Zenon DEF CtPlaces


\* A message put on the ring is the last one the device is to fetch.
LEMMA CtPuts ==
    ASSUME CtInv, ~CtFull, NEW m \in 0 .. CtMsgs,
           ct_bufs' = [ct_bufs EXCEPT ![CtIdx(ct_wr)] = m],
           ct_wr' = (ct_wr + 1) % CtWord, UNCHANGED <<ct_rd, ct_qcp, ct_fw>>
    PROVE  /\ ct_wr' \in 0 .. CtWord - 1 /\ ct_bufs' \in [CtSlots -> 0 .. CtMsgs]
           /\ CtPlaces' /\ CtUsed' = CtUsed + 1 /\ CtTold' = CtTold + 1
           /\ \A k \in 0 .. CtTold - 1 : CtRing'[k] = CtRing[k]
           /\ CtRing'[CtTold] = m
<1> USE CtSizes
<1> HIDE DEF CtInv
<1>0. /\ CtTypeOK /\ CtPlaces /\ ct_wr \in Int /\ ct_fw \in Int /\ ct_rd \in Int
      /\ CtUsed \in 0 .. CtCnt - 1 /\ CtDone \in 0 .. CtCnt - 1 /\ CtTold \in 0 .. CtCnt - 1
      /\ CtDone + CtTold = CtUsed /\ CtIdx(ct_wr) = CtIdx(ct_fw + CtTold)
  BY CtParts
<1>1. CtUsed + 1 <= CtCnt - 1 /\ CtTold + 1 \in 0 .. CtCnt - 1
  BY <1>0 DEF CtFull
<1>2. CtUsed' = CtUsed + 1
  <2>1. ct_wr \in 0 .. CtWord - 1 /\ ct_rd \in 0 .. CtWord - 1
    BY <1>0 DEF CtTypeOK
  <2>2. ((ct_wr - ct_rd) % CtWord) + 1 < CtWord
    BY <1>0, <1>1 DEF CtUsed
  <2>3. 1 \in Nat /\ CtWord \in Nat \ {0}
    BY CtNumbers
  <2>4. (((ct_wr + 1) % CtWord) - ct_rd) % CtWord = ((ct_wr - ct_rd) % CtWord) + 1
    BY <2>1, <2>2, <2>3, FirstMoves
  <2> QED
    BY <2>4 DEF CtUsed
<1>3. ct_wr' \in 0 .. CtWord - 1 /\ CtIdx(ct_wr') = CtIdx(ct_wr + 1)
  BY <1>0, CtInc
<1>4. CtIdx(ct_wr + 1) = CtIdx(ct_fw + (CtTold + 1))
  <2>1. CtTold \in Int /\ 1 \in Int /\ 0 \in Int /\ ct_wr + 0 = ct_wr /\ 0 + 1 = 1
    BY <1>0
  <2>2. CtIdx(CtIdx(ct_fw + CtTold) + 1) = CtIdx(ct_fw + (CtTold + 1))
    BY <1>0, <2>1, CtFurther
  <2>3. CtIdx(CtIdx(ct_wr + 0) + 1) = CtIdx(ct_wr + (0 + 1))
    BY <1>0, <2>1, CtFurther, ZenonT(30)
  <2> QED
    BY <1>0, <2>1, <2>2, <2>3
<1>5. CtTold' = CtTold + 1
  <2>1. CtIdx(ct_wr' - ct_fw) = CtTold + 1
    <3> DEFINE k == CtTold + 1
    <3>1. ct_wr' \in Int /\ CtIdx(ct_wr') = CtIdx(ct_fw + k) /\ k \in 0 .. CtCnt - 1
      BY <1>1, <1>3, <1>4
    <3> HIDE DEF k
    <3>2. CtIdx(ct_wr' - ct_fw) = k
      BY <1>0, <3>1, CtAway, Zenon
    <3> QED
      BY <3>2 DEF k
  <2> QED
    BY <2>1 DEF CtTold, CtIdx
<1>6. CtDone' = CtDone
  BY DEF CtDone, CtIdx
<1>7. CtPlaces'
  <2>1. ct_qcp' = CtIdx(ct_rd)'
    BY <1>0 DEF CtPlaces, CtIdx
  <2> QED
    BY <1>0, <1>1, <1>2, <1>5, <1>6, <2>1 DEF CtPlaces
<1>8. ct_bufs' \in [CtSlots -> 0 .. CtMsgs]
  BY <1>0, Zenon DEF CtTypeOK
<1>9. CtIdx(ct_wr) \in CtSlots /\ \A k \in 0 .. CtCnt - 1 : CtIdx(ct_fw + k) \in CtSlots
  BY <1>0, CtEntries
<1>10. \A k \in 0 .. CtCnt - 1 : CtRing'[k] = ct_bufs'[CtIdx(ct_fw + k)] /\ CtRing[k] = ct_bufs[CtIdx(ct_fw + k)]
  BY DEF CtRing, CtIdx
<1>11. CtRing'[CtTold] = m
  <2>1. ct_bufs'[CtIdx(ct_wr)] = m
    BY <1>0, <1>9 DEF CtTypeOK
  <2> QED
    BY <1>0, <1>10, <2>1
<1>12. ASSUME NEW k \in 0 .. CtTold - 1 PROVE CtRing'[k] = CtRing[k]
  <2>1. k \in 0 .. CtCnt - 1 /\ k # CtTold
    BY <1>0
  <2>2. CtIdx(ct_fw + k) # CtIdx(ct_wr)
    BY <1>0, <2>1, CtSame, Zenon
  <2>3. ct_bufs'[CtIdx(ct_fw + k)] = ct_bufs[CtIdx(ct_fw + k)]
    BY <1>0, <1>9, <2>1, <2>2 DEF CtTypeOK
  <2> QED
    BY <1>10, <2>1, <2>3
<1> QED
  BY <1>2, <1>3, <1>5, <1>7, <1>8, <1>11, <1>12

\* The steps that leave the transmit ring and its queue alone.
LEMMA CtFrame ==
    ASSUME CtInv, UNCHANGED <<ct_wr, ct_rd, ct_qcp, ct_bufs, ct_fw>>
    PROVE  CtPlaces' /\ CtUsed' = CtUsed /\ CtTold' = CtTold /\ CtRing' = CtRing /\ CtFull' = CtFull
<1>1. CtUsed' = CtUsed /\ CtTold' = CtTold /\ CtDone' = CtDone /\ CtRing' = CtRing
  BY DEF CtUsed, CtTold, CtDone, CtRing, CtIdx
<1>2. CtPlaces'
  BY <1>1, CtParts DEF CtPlaces, CtIdx
<1> QED
  BY <1>1, <1>2 DEF CtFull

LEMMA CtQuiet ==
    ASSUME CtInv, UNCHANGED <<ctring, ctdev, ct_next>>, CtTypeOK',
           ct_pc = "drain" /\ ct_pc' # "drain" => CtDrained
    PROVE  CtInv'
<1>0. UNCHANGED <<ct_wr, ct_rd, ct_qcp, ct_bufs, ct_queue, ct_fw, ct_got, ct_next>>
  BY DEF ctring, ctdev
<1>1. CtPlaces' /\ CtTold' = CtTold /\ CtRing' = CtRing /\ CtFull' = CtFull
  BY <1>0, CtFrame
<1>2. CtSorted'
  BY <1>0, <1>1, CtParts DEF CtSorted
<1>3. CtQueuedOnlyWhenFull'
  BY <1>0, <1>1, CtParts DEF CtQueuedOnlyWhenFull, CtDrained
<1> QED
  BY <1>1, <1>2, <1>3 DEF CtInv

LEMMA CtQuietSteps ==
    ASSUME CtInv, CtUnlock \/ CtReceive \/ CtReceiveNone \/ CtFwMessage
    PROVE  CtInv'
<1> USE CtSizes
<1>0. CtTypeOK
  BY CtParts
<1>1. UNCHANGED <<ctring, ctdev, ct_next>>
  BY DEF CtUnlock, CtReceive, CtReceiveNone, CtFwMessage
<1>3. ct_irq' \in BOOLEAN
  BY <1>0, Zenon DEF CtUnlock, CtReceive, CtReceiveNone, CtFwMessage, CtEnd, CtTypeOK
<1>4. ct_pc' \in {"idle", "drain", "rx"} /\ ct_left' \in 0 .. CtBudget /\ ct_rx' \in 0 .. CtRx
  <2>0. ct_rx \in 0 .. CtRx /\ ct_left \in 0 .. CtBudget /\ ct_pc \in {"idle", "drain", "rx"}
    BY <1>0 DEF CtTypeOK
  <2>1. CASE CtUnlock
    BY <2>0, <2>1 DEF CtUnlock
  <2>2. CASE CtReceive
    BY <2>0, <2>2 DEF CtReceive, CtEnd
  <2>3. CASE CtReceiveNone
    BY <2>0, <2>3 DEF CtReceiveNone, CtEnd
  <2>4. CASE CtFwMessage
    BY <2>0, <2>4 DEF CtFwMessage
  <2> QED
    BY <2>1, <2>2, <2>3, <2>4
<1>5. CtTypeOK'
  BY <1>0, <1>1, <1>3, <1>4 DEF CtTypeOK, ctring, ctdev
<1>2. ct_pc = "drain" /\ ct_pc' # "drain" => CtDrained
  BY DEF CtUnlock, CtReceive, CtReceiveNone, CtFwMessage
<1> QED
  BY <1>1, <1>2, <1>5, CtQuiet

LEMMA CtSends == ASSUME CtInv, CtSend PROVE CtInv'
<1> USE CtSizes
<1>0. /\ ct_pc # "drain" /\ ct_next <= CtMsgs /\ ct_next' = ct_next + 1
      /\ UNCHANGED <<ct_rd, ct_qcp, ct_fw, ct_got, ct_rx, ct_pc, ct_left, ct_irq>>
  BY DEF CtSend, ctdev, ctpoll
<1>s. /\ CtTypeOK /\ CtSorted /\ CtTold \in 0 .. CtCnt - 1 /\ ct_got \in Int
      /\ CtRing \in [0 .. CtCnt - 1 -> 0 .. CtMsgs]
  BY CtParts, SMTT(30)
<1>q. ct_queue \in Seq(1 .. CtMsgs) /\ ct_next \in 1 .. CtMsgs
  BY <1>0, <1>s DEF CtTypeOK
<1>l. Len(ct_queue) \in Nat /\ \A i \in 1 .. Len(ct_queue) : ct_queue[i] \in 1 .. CtMsgs
  BY <1>q
<1>t. /\ CtTypeOK /\ CtSorted /\ ct_next \in 1 .. CtMsgs /\ ct_queue \in Seq(1 .. CtMsgs)
      /\ CtTold \in 0 .. CtCnt - 1 /\ ct_got \in Int
      /\ CtRing \in [0 .. CtCnt - 1 -> 0 .. CtMsgs] /\ Len(ct_queue) \in Nat
      /\ \A i \in 1 .. Len(ct_queue) : ct_queue[i] \in 1 .. CtMsgs
  BY <1>s, <1>q, <1>l
<1>1. CASE CtFull
  <2>0. ct_queue' = Append(ct_queue, ct_next) /\ UNCHANGED <<ct_bufs, ct_wr>>
    BY <1>1 DEF CtSend
  <2>1. CtPlaces' /\ CtTold' = CtTold /\ CtRing' = CtRing /\ CtFull' = CtFull
    BY <1>0, <2>0, CtFrame
  <2>2. /\ ct_queue' \in Seq(1 .. CtMsgs) /\ Len(ct_queue') = Len(ct_queue) + 1
        /\ \A i \in 1 .. Len(ct_queue) : ct_queue'[i] = ct_queue[i]
        /\ ct_queue'[Len(ct_queue) + 1] = ct_next
    BY <1>t, <2>0
  <2>3. CtTypeOK'
    BY <1>0, <1>t, <2>0, <2>2 DEF CtTypeOK
  <2>4. CtSorted'
    <3>1. \A k \in 0 .. CtTold - 1 : ct_got < CtRing[k] /\ CtRing[k] < ct_next + 1
      BY <1>t DEF CtSorted
    <3>2. \A j, k \in 0 .. CtTold - 1 : j < k => CtRing[j] < CtRing[k]
      BY <1>t DEF CtSorted
    <3>3. \A i \in 1 .. Len(ct_queue) + 1 :
             /\ ct_got < ct_queue'[i] /\ ct_queue'[i] < ct_next + 1
             /\ \A k \in 0 .. CtTold - 1 : CtRing[k] < ct_queue'[i]
      <4> SUFFICES ASSUME NEW i \in 1 .. Len(ct_queue) + 1
                   PROVE  /\ ct_got < ct_queue'[i] /\ ct_queue'[i] < ct_next + 1
                          /\ \A k \in 0 .. CtTold - 1 : CtRing[k] < ct_queue'[i]
        OBVIOUS
      <4>1. CASE i \in 1 .. Len(ct_queue)
        <5>1. ct_queue'[i] = ct_queue[i] /\ ct_queue[i] \in 1 .. CtMsgs
          BY <1>t, <2>2, <4>1, SMTT(30)
        <5>2. /\ ct_got < ct_queue[i] /\ ct_queue[i] < ct_next
              /\ \A k \in 0 .. CtTold - 1 : CtRing[k] < ct_queue[i]
          BY <1>t, <4>1, Zenon DEF CtSorted
        <5>3. ct_queue[i] < ct_next + 1
          BY <1>q, <5>1, <5>2
        <5> QED
          BY <5>1, <5>2, <5>3, Zenon
      <4>2. CASE i = Len(ct_queue) + 1
        BY <1>t, <2>2, <4>2 DEF CtSorted
      <4>3. i \in 1 .. Len(ct_queue) \/ i = Len(ct_queue) + 1
        BY <1>l
      <4> QED
        BY <4>1, <4>2, <4>3, Zenon
    <3>4. \A i, j \in 1 .. Len(ct_queue) + 1 : i < j => ct_queue'[i] < ct_queue'[j]
      <4> SUFFICES ASSUME NEW i \in 1 .. Len(ct_queue) + 1, NEW j \in 1 .. Len(ct_queue) + 1, i < j
                   PROVE  ct_queue'[i] < ct_queue'[j]
        OBVIOUS
      <4>0. i \in 1 .. Len(ct_queue) /\ (j \in 1 .. Len(ct_queue) \/ j = Len(ct_queue) + 1)
        BY <1>l
      <4>1. i \in 1 .. Len(ct_queue) /\ ct_queue'[i] = ct_queue[i]
        BY <2>2, <4>0, Zenon
      <4>2. CASE j \in 1 .. Len(ct_queue)
        BY <1>t, <2>2, <4>1, <4>2, Zenon DEF CtSorted
      <4>3. CASE j = Len(ct_queue) + 1
        BY <1>t, <2>2, <4>1, <4>3, SMTT(30) DEF CtSorted
      <4> QED
        BY <4>0, <4>2, <4>3, Zenon
    <3>5. ct_got < ct_next + 1
      BY <1>t DEF CtSorted
    <3> QED
      BY <1>0, <2>1, <2>2, <3>1, <3>2, <3>3, <3>4, <3>5 DEF CtSorted
  <2>5. CtQueuedOnlyWhenFull'
    BY <1>1, <2>1 DEF CtQueuedOnlyWhenFull
  <2> QED
    BY <2>1, <2>3, <2>4, <2>5 DEF CtInv
<1>2. CASE ~CtFull
  <2>0. ct_queue' = ct_queue /\ ct_queue = <<>> /\ Len(ct_queue) = 0 /\ CtPut(ct_next)
    BY <1>0, <1>2, CtParts DEF CtSend, CtQueuedOnlyWhenFull
  <2>1. CASE UNCHANGED <<ct_bufs, ct_wr>>
    <3>1. CtPlaces' /\ CtTold' = CtTold /\ CtRing' = CtRing /\ CtFull' = CtFull
      BY <1>0, <2>1, CtFrame
    <3>2. CtTypeOK'
      BY <1>0, <1>t, <2>0, <2>1 DEF CtTypeOK
    <3>3. CtSorted'
      BY <1>0, <1>t, <2>0, <3>1 DEF CtSorted
    <3>4. CtQueuedOnlyWhenFull'
      BY <2>0 DEF CtQueuedOnlyWhenFull
    <3> QED
      BY <3>1, <3>2, <3>3, <3>4 DEF CtInv
  <2>2. CASE /\ ct_bufs' = [ct_bufs EXCEPT ![CtIdx(ct_wr)] = ct_next]
             /\ ct_wr' = (ct_wr + 1) % CtWord
    <3>1. /\ ct_wr' \in 0 .. CtWord - 1 /\ ct_bufs' \in [CtSlots -> 0 .. CtMsgs]
          /\ CtPlaces' /\ CtTold' = CtTold + 1
          /\ \A k \in 0 .. CtTold - 1 : CtRing'[k] = CtRing[k]
          /\ CtRing'[CtTold] = ct_next
      <4>1. ct_next \in 0 .. CtMsgs
        BY <1>t
      <4> QED
        BY <1>0, <1>2, <2>2, <4>1, CtPuts, Zenon
    <3>2. CtTypeOK'
      BY <1>0, <1>t, <2>0, <3>1 DEF CtTypeOK
    <3>3. CtSorted'
      <4>0. /\ \A k \in 0 .. CtTold - 1 : CtRing[k] \in Int /\ ct_got < CtRing[k] /\ CtRing[k] < ct_next
            /\ \A j, k \in 0 .. CtTold - 1 : j < k => CtRing[j] < CtRing[k]
            /\ ct_got < ct_next
        BY <1>s DEF CtSorted
      <4>1. \A k \in 0 .. CtTold : ct_got < CtRing'[k] /\ CtRing'[k] < ct_next + 1
        <5>1. ASSUME NEW k \in 0 .. CtTold PROVE k \in 0 .. CtTold - 1 \/ k = CtTold
          BY <1>s
        <5>2. ct_got < CtRing'[CtTold] /\ CtRing'[CtTold] < ct_next + 1
          BY <1>q, <3>1, <4>0
        <5>3. ASSUME NEW k \in 0 .. CtTold - 1 PROVE ct_got < CtRing'[k] /\ CtRing'[k] < ct_next + 1
          BY <1>q, <3>1, <4>0
        <5> QED
          BY <5>1, <5>2, <5>3, Zenon
      <4>2. \A j, k \in 0 .. CtTold : j < k => CtRing'[j] < CtRing'[k]
        <5>1. ASSUME NEW j \in 0 .. CtTold, NEW k \in 0 .. CtTold, j < k
              PROVE  j \in 0 .. CtTold - 1 /\ (k \in 0 .. CtTold - 1 \/ k = CtTold)
          BY <1>s, <5>1
        <5> QED
          BY <3>1, <4>0, <5>1
      <4>3. ct_got < ct_next + 1
        BY <1>t DEF CtSorted
      <4>4. CtTold' - 1 = CtTold
        BY <1>t, <3>1
      <4> QED
        BY <1>0, <2>0, <4>1, <4>2, <4>3, <4>4 DEF CtSorted
    <3>4. CtQueuedOnlyWhenFull'
      BY <2>0 DEF CtQueuedOnlyWhenFull
    <3> QED
      BY <3>1, <3>2, <3>3, <3>4 DEF CtInv
  <2> QED
    BY <2>0, <2>1, <2>2 DEF CtPut
<1> QED
  BY <1>1, <1>2


\* The completion takes the entries the device has fetched off the ring.
LEMMA CtCompletes == ASSUME CtInv, CtComplete PROVE CtInv'
<1> USE CtSizes
<1>0. /\ ct_qcp' = ct_fw /\ ct_rd' = (ct_rd + CtTodo) % CtWord /\ ct_pc' = "drain" /\ ct_irq' = FALSE
      /\ ct_bufs' = [i \in CtSlots |-> IF i \in CtCompleted THEN NoMsg ELSE ct_bufs[i]]
      /\ UNCHANGED <<ct_wr, ct_queue, ct_fw, ct_got, ct_next, ct_rx, ct_left>>
  BY DEF CtComplete, ctdev
<1>1. /\ CtTypeOK /\ CtSorted /\ ct_rd \in Int /\ ct_fw \in Int /\ ct_fw \in CtSlots /\ CtIdx(ct_fw) = ct_fw
      /\ CtDone \in 0 .. CtCnt - 1 /\ CtTold \in 0 .. CtCnt - 1 /\ CtDone + CtTold = CtUsed
      /\ CtUsed \in 0 .. CtCnt - 1 /\ ct_fw = CtIdx(ct_rd + CtDone) /\ ct_qcp = CtIdx(ct_rd)
  BY CtParts DEF CtPlaces
<1>2. CtTodo = CtDone
  <2>1. CtDone \in Int /\ 0 \in Int /\ ct_rd + 0 = ct_rd /\ 0 + CtDone = CtDone
    BY <1>1
  <2>2. CtIdx(CtIdx(ct_rd + 0) + CtDone) = CtIdx(ct_rd + (0 + CtDone))
    BY <1>1, <2>1, CtFurther
  <2>3. CtIdx(ct_fw) = CtIdx(ct_qcp + CtDone) /\ ct_qcp \in Int
    BY <1>1, <2>1, <2>2 DEF CtTypeOK, CtSlots
  <2> QED
    BY <1>1, <2>3, CtAway DEF CtTodo
<1>3. ct_rd' \in 0 .. CtWord - 1 /\ CtIdx(ct_rd') = ct_fw
  BY <1>0, <1>1, <1>2, CtInc
<1>4. CtUsed' = CtTold
  <2>1. /\ ct_wr \in 0 .. CtWord - 1 /\ ct_rd \in 0 .. CtWord - 1 /\ CtWord \in Nat \ {0}
        /\ CtDone \in Nat /\ CtDone <= (ct_wr - ct_rd) % CtWord
    BY <1>1, CtNumbers DEF CtTypeOK, CtUsed
  <2>2. (ct_wr - ((ct_rd + CtDone) % CtWord)) % CtWord = ((ct_wr - ct_rd) % CtWord) - CtDone
    BY <2>1, SecondMoves
  <2>3. CtUsed' = CtUsed - CtDone
    BY <1>0, <1>2, <2>2 DEF CtUsed
  <2> QED
    BY <1>1, <2>3
<1>5. CtTold' = CtTold
  BY <1>0 DEF CtTold, CtIdx
<1>6. CtDone' = 0
  <2>1. ct_rd' \in Int
    BY <1>3
  <2>2. CtIdx(ct_fw - ct_rd') = 0
    BY <1>1, <1>3, <2>1, CtAtSame
  <2> QED
    BY <1>0, <2>2 DEF CtDone, CtIdx
<1>7. CtPlaces'
  <2>1. ct_qcp' = CtIdx(ct_rd)'
    BY <1>0, <1>3 DEF CtIdx
  <2> QED
    BY <1>1, <1>4, <1>5, <1>6, <2>1 DEF CtPlaces
<1>8. ASSUME NEW k \in 0 .. CtTold - 1 PROVE CtRing'[k] = CtRing[k]
  <2>1. k \in 0 .. CtCnt - 1 /\ CtDone + k \in 0 .. CtCnt - 1 /\ k \in Int /\ CtDone \in Int
    BY <1>1
  <2>2. CtIdx(ct_fw + k) = CtIdx(ct_rd + (CtDone + k))
    BY <1>1, <2>1, CtFurther
  <2>3. CtIdx(ct_fw + k) \notin CtCompleted
    <3>1. SUFFICES ASSUME NEW j \in 0 .. CtDone - 1, CtIdx(ct_fw + k) = CtIdx(ct_rd + j) PROVE FALSE
      BY <1>2 DEF CtCompleted
    <3>2. j \in 0 .. CtCnt - 1 /\ CtDone + k # j
      BY <1>1, <2>1
    <3> QED
      BY <1>1, <2>1, <2>2, <3>1, <3>2, CtSame
  <2>4. CtIdx(ct_fw + k) \in CtSlots
    BY <1>1, <2>1, CtEntries
  <2>5. CtRing'[k] = ct_bufs'[CtIdx(ct_fw + k)] /\ CtRing[k] = ct_bufs[CtIdx(ct_fw + k)]
    BY <1>0, <2>1 DEF CtRing, CtIdx
  <2> QED
    BY <1>0, <2>3, <2>4, <2>5
<1>9. CtTypeOK'
  <2>1. ct_bufs' \in [CtSlots -> 0 .. CtMsgs]
    BY <1>0, <1>1 DEF CtTypeOK, NoMsg
  <2> QED
    BY <1>0, <1>1, <1>3, <2>1, Zenon DEF CtTypeOK
<1>10. CtSorted'
  BY <1>0, <1>1, <1>5, <1>8 DEF CtSorted
<1>11. CtQueuedOnlyWhenFull'
  BY <1>0 DEF CtQueuedOnlyWhenFull
<1> QED
  BY <1>7, <1>9, <1>10, <1>11 DEF CtInv

\* The tasklet sends the head of the queue.
LEMMA CtDrains == ASSUME CtInv, CtDrainOne PROVE CtInv'
<1> USE CtSizes
<1>0. /\ ct_pc = "drain" /\ ~CtFull /\ ct_queue # <<>> /\ ct_queue' = Tail(ct_queue)
      /\ CtPut(Head(ct_queue))
      /\ UNCHANGED <<ct_rd, ct_qcp, ct_fw, ct_got, ct_next, ct_rx, ct_pc, ct_left, ct_irq>>
  BY DEF CtDrainOne, CtDrained, ctdev, ctpoll
<1>1. /\ CtTypeOK /\ CtSorted /\ CtTold \in 0 .. CtCnt - 1 /\ ct_got \in Int
      /\ CtRing \in [0 .. CtCnt - 1 -> 0 .. CtMsgs]
  BY CtParts
<1>2. ct_queue \in Seq(1 .. CtMsgs) /\ ct_next \in Int
  BY <1>1 DEF CtTypeOK
<1>3. /\ Len(ct_queue) \in Nat /\ Len(ct_queue) >= 1 /\ Head(ct_queue) = ct_queue[1]
      /\ \A i \in 1 .. Len(ct_queue) : ct_queue[i] \in 1 .. CtMsgs
  BY <1>0, <1>2
<1>4. /\ ct_queue' \in Seq(1 .. CtMsgs) /\ Len(ct_queue') = Len(ct_queue) - 1
      /\ \A i \in 1 .. Len(ct_queue') : ct_queue'[i] = ct_queue[i + 1]
  BY <1>0, <1>2
<1>5. \A i \in 1 .. Len(ct_queue') : i + 1 \in 1 .. Len(ct_queue) /\ i \in 1 .. Len(ct_queue)
  BY <1>3, <1>4
<1> DEFINE m == ct_queue[1]
<1>6. m \in 1 .. CtMsgs /\ m \in 0 .. CtMsgs /\ Head(ct_queue) = m
  BY <1>3
<1>7. /\ \A k \in 0 .. CtTold - 1 : ct_got < CtRing[k] /\ CtRing[k] < ct_next /\ CtRing[k] < m
      /\ \A j, k \in 0 .. CtTold - 1 : j < k => CtRing[j] < CtRing[k]
      /\ ct_got < m /\ m < ct_next /\ ct_got < ct_next
  BY <1>1, <1>3 DEF CtSorted
<1>8. /\ \A i \in 1 .. Len(ct_queue') : ct_got < ct_queue'[i] /\ ct_queue'[i] < ct_next /\ m < ct_queue'[i]
      /\ \A k \in 0 .. CtTold - 1, i \in 1 .. Len(ct_queue') : CtRing[k] < ct_queue'[i]
      /\ \A i, j \in 1 .. Len(ct_queue') : i < j => ct_queue'[i] < ct_queue'[j]
  <2>1. /\ \A i \in 1 .. Len(ct_queue) : ct_got < ct_queue[i] /\ ct_queue[i] < ct_next
        /\ \A k \in 0 .. CtTold - 1, i \in 1 .. Len(ct_queue) : CtRing[k] < ct_queue[i]
        /\ \A i, j \in 1 .. Len(ct_queue) : i < j => ct_queue[i] < ct_queue[j]
    BY <1>1 DEF CtSorted
  <2>2. \A i \in 1 .. Len(ct_queue') : 1 < i + 1 /\ 1 \in 1 .. Len(ct_queue)
    BY <1>3, <1>4
  <2>3. \A i, j \in 1 .. Len(ct_queue') : i < j => i + 1 < j + 1
    BY <1>3, <1>4
  <2> HIDE DEF m
  <2>4. \A i \in 1 .. Len(ct_queue') : m < ct_queue'[i]
    BY <1>4, <1>5, <2>1, <2>2, SMTT(30) DEF m
  <2> QED
    BY <1>4, <1>5, <2>1, <2>3, <2>4, Zenon
<1> HIDE DEF m
<1>9. CtQueuedOnlyWhenFull'
  BY <1>0 DEF CtQueuedOnlyWhenFull
<1>10. CASE UNCHANGED <<ct_bufs, ct_wr>>
  <2>1. CtPlaces' /\ CtTold' = CtTold /\ CtRing' = CtRing
    BY <1>0, <1>10, CtFrame
  <2>2. CtTypeOK'
    BY <1>0, <1>1, <1>4, <1>10 DEF CtTypeOK
  <2>3. CtSorted'
    BY <1>0, <1>7, <1>8, <2>1 DEF CtSorted
  <2> QED
    BY <1>9, <2>1, <2>2, <2>3 DEF CtInv
<1>11. CASE ct_bufs' = [ct_bufs EXCEPT ![CtIdx(ct_wr)] = m] /\ ct_wr' = (ct_wr + 1) % CtWord
  <2>1. /\ ct_wr' \in 0 .. CtWord - 1 /\ ct_bufs' \in [CtSlots -> 0 .. CtMsgs]
        /\ CtPlaces' /\ CtTold' = CtTold + 1
        /\ \A k \in 0 .. CtTold - 1 : CtRing'[k] = CtRing[k]
        /\ CtRing'[CtTold] = m
    BY <1>0, <1>6, <1>11, CtPuts, Zenon
  <2>2. CtTypeOK'
    BY <1>0, <1>1, <1>4, <2>1 DEF CtTypeOK
  <2>3. \A k \in 0 .. CtTold : k \in 0 .. CtTold - 1 \/ k = CtTold
    BY <1>1
  <2>4. \A j, k \in 0 .. CtTold : j < k => j \in 0 .. CtTold - 1
    BY <1>1
  <2>5. \A k \in 0 .. CtTold : ct_got < CtRing'[k] /\ CtRing'[k] < ct_next
    BY <1>7, <2>1, <2>3
  <2>6. \A j, k \in 0 .. CtTold : j < k => CtRing'[j] < CtRing'[k]
    BY <1>7, <2>1, <2>3, <2>4
  <2>7. \A k \in 0 .. CtTold, i \in 1 .. Len(ct_queue') : CtRing'[k] < ct_queue'[i]
    BY <1>8, <2>1, <2>3
  <2>8. CtTold' - 1 = CtTold
    BY <1>1, <2>1
  <2>9. CtSorted'
    BY <1>0, <1>7, <1>8, <2>5, <2>6, <2>7, <2>8 DEF CtSorted
  <2> QED
    BY <1>9, <2>1, <2>2, <2>9 DEF CtInv
<1> QED
  BY <1>0, <1>6, <1>10, <1>11 DEF CtPut

\* The device fetches the entry after the last it fetched.
LEMMA CtFetches == ASSUME CtInv, CtFwFetch PROVE CtInv'
<1> USE CtSizes
<1>0. /\ ct_fw # CtIdx(ct_wr) /\ ct_got' = ct_bufs[ct_fw] /\ ct_fw' = CtIdx(ct_fw + 1) /\ ct_irq' = TRUE
      /\ UNCHANGED <<ct_wr, ct_rd, ct_qcp, ct_bufs, ct_queue, ct_next, ct_rx, ct_pc, ct_left>>
  BY DEF CtFwFetch, ctring
<1>1. /\ CtTypeOK /\ CtSorted /\ ct_rd \in Int /\ ct_fw \in Int /\ ct_wr \in Int /\ CtIdx(ct_fw) = ct_fw
      /\ CtDone \in 0 .. CtCnt - 1 /\ CtTold \in 0 .. CtCnt - 1 /\ CtDone + CtTold = CtUsed
      /\ CtUsed \in 0 .. CtCnt - 1 /\ ct_fw = CtIdx(ct_rd + CtDone)
      /\ CtIdx(ct_wr) = CtIdx(ct_fw + CtTold) /\ ct_qcp = CtIdx(ct_rd) /\ CtQueuedOnlyWhenFull
      /\ CtRing \in [0 .. CtCnt - 1 -> 0 .. CtMsgs]
  BY CtParts, SMTT(30) DEF CtPlaces
<1>2. CtTold >= 1 /\ CtTold - 1 \in 0 .. CtCnt - 1 /\ CtDone + 1 \in 0 .. CtCnt - 1
  <2>1. CtTold # 0
    <3>1. SUFFICES ASSUME CtTold = 0 PROVE FALSE
      OBVIOUS
    <3>2. ct_fw + CtTold = ct_fw
      BY <1>1, <3>1
    <3> QED
      BY <1>0, <1>1, <3>2
  <2> QED
    BY <1>1, <2>1
<1>3. ct_fw' \in CtSlots /\ ct_fw' \in Int
  <2>1. CtIdx(ct_fw + 1) \in CtSlots
    BY <1>1, CtEntries
  <2> QED
    BY <1>0, <2>1 DEF CtSlots
<1>4. \A k \in Int : CtIdx(ct_fw' + k) = CtIdx(ct_fw + (1 + k))
  <2>1. 1 \in Int
    OBVIOUS
  <2>2. \A k \in Int : CtIdx(CtIdx(ct_fw + 1) + k) = CtIdx(ct_fw + (1 + k))
    BY <1>1, <2>1, CtFurther, Zenon
  <2> QED
    BY <1>0, <2>2
<1>5. CtTold' = CtTold - 1
  <2> DEFINE k == CtTold - 1
  <2>1. k \in Int /\ k \in 0 .. CtCnt - 1 /\ 1 + k = CtTold
    BY <1>1, <1>2
  <2> HIDE DEF k
  <2>2. CtIdx(ct_wr) = CtIdx(ct_fw' + k)
    BY <1>1, <1>4, <2>1
  <2>3. CtIdx(ct_wr - ct_fw') = k
    <3>1. ct_wr \in Int /\ ct_fw' \in Int /\ k \in 0 .. CtCnt - 1
      BY <1>1, <1>3, <2>1
    <3> QED
      BY <2>2, <3>1, CtAway, Zenon
  <2> QED
    BY <1>0, <2>3 DEF CtTold, CtIdx, k
<1>6. CtDone' = CtDone + 1
  <2> DEFINE k == CtDone + 1
  <2>1. k \in 0 .. CtCnt - 1 /\ CtDone \in Int /\ 1 \in Int /\ ct_fw + 1 \in Int
    BY <1>1, <1>2
  <2>2. CtIdx(CtIdx(ct_rd + CtDone) + 1) = CtIdx(ct_rd + k)
    BY <1>1, <2>1, CtFurther
  <2>3. CtIdx(ct_fw') = CtIdx(ct_rd + k)
    <3>1. CtIdx(ct_fw') = CtIdx(ct_fw + 1)
      BY <1>0, <2>1, CtTwice
    <3> QED
      BY <1>1, <2>2, <3>1
  <2> HIDE DEF k
  <2>4. CtIdx(ct_fw' - ct_rd) = k
    <3>1. ct_rd \in Int /\ ct_fw' \in Int /\ k \in 0 .. CtCnt - 1
      BY <1>1, <1>3, <2>1
    <3> QED
      BY <2>3, <3>1, CtAway, Zenon
  <2> QED
    BY <1>0, <2>4 DEF CtDone, CtIdx, k
<1>7. CtUsed' = CtUsed /\ CtFull' = CtFull
  BY <1>0 DEF CtUsed, CtFull
<1>8. CtPlaces'
  <2>1. ct_qcp' = CtIdx(ct_rd)'
    BY <1>0, <1>1 DEF CtIdx
  <2> QED
    BY <1>1, <1>5, <1>6, <1>7, <2>1 DEF CtPlaces
<1>9. ct_got' = CtRing[0]
  <2>1. 0 \in 0 .. CtCnt - 1 /\ ct_fw + 0 = ct_fw
    BY <1>1
  <2>2. CtRing[0] = ct_bufs[CtIdx(ct_fw + 0)]
    BY <2>1 DEF CtRing
  <2> QED
    BY <1>0, <1>1, <2>1, <2>2, SMTT(30)
<1>10. ASSUME NEW k \in 0 .. CtTold - 2 PROVE CtRing'[k] = CtRing[k + 1]
  <2>1. k \in 0 .. CtCnt - 1 /\ k + 1 \in 0 .. CtCnt - 1 /\ k \in Int /\ 1 + k = k + 1
    BY <1>1
  <2>2. CtRing'[k] = ct_bufs[CtIdx(ct_fw' + k)] /\ CtRing[k + 1] = ct_bufs[CtIdx(ct_fw + (k + 1))]
    BY <1>0, <2>1 DEF CtRing, CtIdx
  <2> QED
    BY <1>4, <2>1, <2>2
<1>11. CtTypeOK'
  <2>1. ct_got' \in 0 .. CtMsgs
    BY <1>1, <1>9
  <2> QED
    BY <1>0, <1>1, <1>3, <2>1 DEF CtTypeOK
<1>12. CtSorted'
  <2>0. /\ \A k \in 0 .. CtTold - 1 : CtRing[k] < ct_next
        /\ \A j, k \in 0 .. CtTold - 1 : j < k => CtRing[j] < CtRing[k]
        /\ \A i \in 1 .. Len(ct_queue) : ct_queue[i] < ct_next
        /\ \A k \in 0 .. CtTold - 1, i \in 1 .. Len(ct_queue) : CtRing[k] < ct_queue[i]
        /\ \A i, j \in 1 .. Len(ct_queue) : i < j => ct_queue[i] < ct_queue[j]
    BY <1>1, SMTT(30) DEF CtSorted
  <2>1. \A k \in 0 .. CtTold - 2 : k + 1 \in 0 .. CtTold - 1 /\ 0 < k + 1 /\ 0 \in 0 .. CtTold - 1
    BY <1>1, <1>2
  <2>2. \A j, k \in 0 .. CtTold - 2 : j < k => j + 1 < k + 1
    BY <1>1
  <2>3. \A k \in 0 .. CtTold - 2 : ct_got' < CtRing'[k] /\ CtRing'[k] < ct_next
    BY <1>9, <1>10, <2>0, <2>1
  <2>4. \A j, k \in 0 .. CtTold - 2 : j < k => CtRing'[j] < CtRing'[k]
    BY <1>10, <2>0, <2>1, <2>2
  <2>5. \A k \in 0 .. CtTold - 2, i \in 1 .. Len(ct_queue) : CtRing'[k] < ct_queue[i]
    BY <1>10, <2>0, <2>1
  <2>6. 0 \in 0 .. CtTold - 1 /\ CtTold' - 1 = CtTold - 2
    BY <1>1, <1>2, <1>5
  <2>7. \A i \in 1 .. Len(ct_queue) : ct_got' < ct_queue[i]
    BY <1>9, <2>0, <2>6
  <2>8. ct_got' < ct_next
    BY <1>9, <2>0, <2>6
  <2> QED
    BY <1>0, <2>0, <2>3, <2>4, <2>5, <2>6, <2>7, <2>8 DEF CtSorted
<1>13. CtQueuedOnlyWhenFull'
  BY <1>0, <1>1, <1>7 DEF CtQueuedOnlyWhenFull
<1> QED
  BY <1>8, <1>11, <1>12, <1>13 DEF CtInv


LEMMA CtInvInit == CtInit => CtInv
<1> USE CtSizes
<1> SUFFICES ASSUME CtInit PROVE CtInv
  OBVIOUS
<1>1. /\ ct_wr = 0 /\ ct_rd = 0 /\ ct_qcp = 0 /\ ct_bufs = [i \in CtSlots |-> 0] /\ ct_queue = <<>>
      /\ ct_next = 1 /\ ct_fw = 0 /\ ct_got = 0 /\ ct_rx = 0
      /\ ct_pc = "idle" /\ ct_left = CtBudget /\ ct_irq = FALSE
  BY DEF CtInit, NoMsg
<1>2. <<>> \in Seq(1 .. CtMsgs) /\ Len(<<>>) = 0
  OBVIOUS
<1>3. CtTypeOK
  BY <1>1, <1>2 DEF CtTypeOK, CtSlots
<1>4. CtIdx(0) = 0 /\ (0 % CtWord) = 0
  <2>1. CtCnt \in Nat \ {0} /\ CtWord \in Nat \ {0} /\ 0 \in 0 .. CtCnt - 1 /\ 0 \in 0 .. CtWord - 1
    BY CtNumbers
  <2> QED
    BY <2>1, ModUnique DEF CtIdx
<1>5. CtUsed = 0 /\ CtDone = 0 /\ CtTold = 0
  <2>1. 0 - 0 = 0
    OBVIOUS
  <2> QED
    BY <1>1, <1>4, <2>1 DEF CtUsed, CtDone, CtTold
<1>6. CtPlaces
  BY <1>1, <1>4, <1>5 DEF CtPlaces
<1>7. CtSorted
  BY <1>1, <1>2, <1>5 DEF CtSorted
<1>8. CtQueuedOnlyWhenFull
  BY <1>1 DEF CtQueuedOnlyWhenFull
<1> QED
  BY <1>3, <1>6, <1>7, <1>8 DEF CtInv

LEMMA CtInvNext == CtInv /\ [CtNext]_ctvars => CtInv'
<1> SUFFICES ASSUME CtInv, [CtNext]_ctvars PROVE CtInv'
  OBVIOUS
<1>1. CASE CtSend
  BY <1>1, CtSends
<1>2. CASE CtComplete
  BY <1>2, CtCompletes
<1>3. CASE CtDrainOne
  BY <1>3, CtDrains
<1>4. CASE CtUnlock \/ CtReceive \/ CtReceiveNone \/ CtFwMessage
  BY <1>4, CtQuietSteps
<1>5. CASE CtFwFetch
  BY <1>5, CtFetches
<1>6. CASE UNCHANGED ctvars
  <2>1. CtTypeOK'
    BY <1>6, CtParts DEF CtTypeOK, ctvars, ctring, ctdev, ctpoll
  <2>2. UNCHANGED <<ctring, ctdev, ct_next>> /\ ct_pc' = ct_pc
    BY <1>6 DEF ctvars, ctpoll
  <2> QED
    BY <2>1, <2>2, CtQuiet
<1> QED
  BY <1>1, <1>2, <1>3, <1>4, <1>5, <1>6 DEF CtNext, CtPoll

\* What lies ahead of the device is the ring from its read pointer on.
LEMMA CtInvOrdered == CtInv => CtInOrder
<1> USE CtSizes
<1> SUFFICES ASSUME CtInv PROVE CtInOrder
  OBVIOUS
<1>1. /\ CtTypeOK /\ CtSorted /\ CtTold \in 0 .. CtCnt - 1 /\ ct_got \in 0 .. CtMsgs /\ ct_fw \in Int
      /\ CtRing \in [0 .. CtCnt - 1 -> 0 .. CtMsgs] /\ ct_queue \in Seq(1 .. CtMsgs)
  BY CtParts, Zenon DEF CtTypeOK
<1>2. \A k \in 1 .. CtTold : k - 1 \in 0 .. CtTold - 1 /\ k - 1 \in 0 .. CtCnt - 1 /\ ct_fw + k - 1 = ct_fw + (k - 1)
  BY <1>1
<1>3. CtAhead = [k \in 1 .. CtTold |-> CtRing[k - 1]]
  BY <1>2, Zenon DEF CtAhead, CtTold, CtRing
<1>4. CtAhead \in Seq(0 .. CtMsgs) /\ Len(CtAhead) = CtTold /\ \A k \in 1 .. CtTold : CtAhead[k] = CtRing[k - 1]
  BY <1>1, <1>2, <1>3
<1>5. ct_queue \in Seq(0 .. CtMsgs) /\ <<ct_got>> \in Seq(0 .. CtMsgs) /\ Len(<<ct_got>>) = 1 /\ <<ct_got>>[1] = ct_got
      /\ Len(ct_queue) \in Nat
  BY <1>1
<1> DEFINE front == <<ct_got>> \o CtAhead
<1>6. /\ front \in Seq(0 .. CtMsgs) /\ Len(front) = CtTold + 1 /\ front[1] = ct_got
      /\ \A i \in 2 .. CtTold + 1 : front[i] = CtRing[i - 2]
  <2>1. /\ front \in Seq(0 .. CtMsgs) /\ Len(front) = 1 + CtTold
        /\ \A i \in 1 .. 1 + CtTold : front[i] = IF i <= 1 THEN <<ct_got>>[i] ELSE CtAhead[i - 1]
    BY <1>4, <1>5
  <2>2. \A i \in 2 .. CtTold + 1 : i - 1 \in 1 .. CtTold /\ (i - 1) - 1 = i - 2 /\ i \in 1 .. 1 + CtTold /\ ~(i <= 1)
    BY <1>1
  <2>3. 1 \in 1 .. 1 + CtTold
    BY <1>1
  <2> HIDE DEF front
  <2>4. front[1] = ct_got
    BY <1>5, <2>1, <2>3
  <2>5. \A i \in 2 .. CtTold + 1 : front[i] = CtRing[i - 2]
    BY <1>4, <2>1, <2>2, Zenon
  <2> QED
    BY <1>1, <2>1, <2>4, <2>5
<1> DEFINE all == front \o ct_queue
<1>7. /\ Len(all) = CtTold + 1 + Len(ct_queue)
      /\ \A i \in 1 .. CtTold + 1 : all[i] = front[i]
      /\ \A i \in CtTold + 2 .. CtTold + 1 + Len(ct_queue) : all[i] = ct_queue[i - (CtTold + 1)]
  <2> HIDE DEF front
  <2>1. /\ Len(all) = Len(front) + Len(ct_queue)
        /\ \A i \in 1 .. Len(front) + Len(ct_queue) :
              all[i] = IF i <= Len(front) THEN front[i] ELSE ct_queue[i - Len(front)]
    <3>1. front \in Seq(0 .. CtMsgs)
      BY <1>6
    <3> QED
      BY <1>5, <3>1, Concat, Zenon
  <2> HIDE DEF all
  <2>2. Len(front) = CtTold + 1 /\ CtTold \in Nat /\ Len(ct_queue) \in Nat
    BY <1>1, <1>5, <1>6
  <2> QED
    BY <2>1, <2>2
<1>8. CtInFlight = all
  BY DEF CtInFlight
<1> HIDE DEF front, all
<1>9. ASSUME NEW i \in 1 .. Len(all) - 1 PROVE all[i] < all[i + 1]
  <2>1. CASE i + 1 <= CtTold + 1
    <3>1. /\ i \in 1 .. CtTold + 1 /\ i + 1 \in 1 .. CtTold + 1 /\ i + 1 \in 2 .. CtTold + 1
          /\ i - 1 \in 0 .. CtTold - 1 /\ (i + 1) - 2 = i - 1
      BY <1>1, <1>5, <1>7, <2>1
    <3>2. all[i] = front[i] /\ all[i + 1] = CtRing[i - 1]
      BY <1>6, <1>7, <3>1
    <3>3. CASE i = 1
      BY <1>1, <1>6, <3>1, <3>2, <3>3 DEF CtSorted
    <3>4. CASE i # 1
      <4>1. i \in 2 .. CtTold + 1 /\ i - 2 \in 0 .. CtTold - 1 /\ i - 2 < i - 1
        BY <1>1, <1>5, <3>1, <3>4
      <4> QED
        BY <1>1, <1>6, <3>1, <3>2, <4>1 DEF CtSorted
    <3> QED
      BY <3>3, <3>4
  <2>2. CASE i = CtTold + 1
    <3>1. /\ i \in 1 .. CtTold + 1 /\ i + 1 \in CtTold + 2 .. CtTold + 1 + Len(ct_queue)
          /\ (i + 1) - (CtTold + 1) = 1 /\ 1 \in 1 .. Len(ct_queue)
      BY <1>1, <1>5, <1>7, <2>2
    <3>2. all[i] = front[i] /\ all[i + 1] = ct_queue[1]
      BY <1>7, <3>1
    <3>3. CASE CtTold = 0
      BY <1>1, <1>6, <2>2, <3>1, <3>2, <3>3 DEF CtSorted
    <3>4. CASE CtTold # 0
      <4>1. i \in 2 .. CtTold + 1 /\ i - 2 \in 0 .. CtTold - 1
        BY <1>1, <2>2, <3>4
      <4> QED
        BY <1>1, <1>6, <3>1, <3>2, <4>1, SMTT(30) DEF CtSorted
    <3> QED
      BY <3>3, <3>4
  <2>3. CASE i > CtTold + 1
    <3> DEFINE j == i - (CtTold + 1)
    <3>1. /\ i \in CtTold + 2 .. CtTold + 1 + Len(ct_queue) /\ i + 1 \in CtTold + 2 .. CtTold + 1 + Len(ct_queue)
          /\ (i + 1) - (CtTold + 1) = j + 1 /\ j \in 1 .. Len(ct_queue) /\ j + 1 \in 1 .. Len(ct_queue) /\ j < j + 1
      BY <1>1, <1>5, <1>7, <2>3
    <3>2. all[i] = ct_queue[j] /\ all[i + 1] = ct_queue[j + 1]
      BY <1>7, <3>1
    <3> HIDE DEF j
    <3> QED
      BY <1>1, <3>1, <3>2 DEF CtSorted
  <2>4. i + 1 <= CtTold + 1 \/ i = CtTold + 1 \/ i > CtTold + 1
    BY <1>1, <1>5, <1>7
  <2> QED
    BY <2>1, <2>2, <2>3, <2>4
<1> QED
  BY <1>8, <1>9 DEF CtInOrder

\* Messages to the firmware keep the order of the calls of nfp_ctrl_tx(), on
\* the ring and in r_vec->queue together, and outside the tasklet one is queued
\* only behind a full ring, for rings, budgets and sequences of calls of any
\* size.
THEOREM ControlMessagesInOrder == CtSpec => []RingOrdered
<1>1. CtInv => RingOrdered
  BY CtParts, CtInvOrdered DEF RingOrdered
<1> QED
  BY <1>1, CtInvInit, CtInvNext, PTL DEF CtSpec

\* nfp_ctrl_poll() leaves a received message with nobody scheduled to take it
\* only in a step that received one message more than the budget.
THEOREM OnlyOverrunForgets == CtSpec => CtOnlyOverrunForgets
<1> USE CtSizes
<1>1. CtInv /\ [CtNext]_ctvars => [CtNoneForgotten /\ ~CtNoneForgotten' => ct_left = 0]_ctvars
  <2> SUFFICES ASSUME CtInv, CtNext, CtNoneForgotten, ~CtNoneForgotten' PROVE ct_left = 0
    OBVIOUS
  <2>0. CtTypeOK
    BY CtParts
  <2>1. ct_pc' = "idle" /\ ~ct_irq' /\ ct_rx' # 0
    BY DEF CtNoneForgotten
  <2>2. CASE CtSend \/ CtComplete \/ CtDrainOne \/ CtUnlock
    BY <2>1, <2>2 DEF CtSend, CtComplete, CtDrainOne, CtUnlock, ctpoll, CtNoneForgotten
  <2>3. CASE CtReceive
    BY <2>1, <2>3 DEF CtReceive, CtEnd
  <2>4. CASE CtReceiveNone
    BY <2>1, <2>4 DEF CtReceiveNone
  <2>5. CASE CtFwFetch \/ CtFwMessage
    BY <2>1, <2>5 DEF CtFwFetch, CtFwMessage
  <2> QED
    BY <2>2, <2>3, <2>4, <2>5 DEF CtNext, CtPoll
<1> QED
  BY <1>1, CtInvInit, CtInvNext, PTL DEF CtSpec, CtOnlyOverrunForgets

==============================================================================

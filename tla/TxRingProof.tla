---------------------------- MODULE TxRingProof ----------------------------
(***************************************************************************)
(* Proofs about the transmit ring of TxRing, for a ring of any size: what  *)
(* nfp_nfd3_tx(), nfp_nfd3_tx_complete() and the firmware do to it in any  *)
(* order.                                                                  *)
(***************************************************************************)
EXTENDS TxRing, RingArith, TLAPS

-----------------------------------------------------------------------------
(***************************************************************************)
(* The transmit ring.  Entries are counted from rd_p: the ring holds whole *)
(* packets up to Used, then the pieces of the packet being filled in, then *)
(* nothing, save that the last entry may still be being cleaned.  What the *)
(* device has sent, what it has still to send and what it has not been     *)
(* told of make up the entries in use.                                     *)
(***************************************************************************)
Ring == [k \in 0 .. Cnt - 1 |-> txbufs[D_IDX(rd_p + k)]]
Piece(n, j) == [nr_frags |-> n, fidx |-> j - 1]

\* Entries that nfp_nfd3_tx() has found free, and those it has filled in
Resv == IF xpc \in {"prep", "unmap", "publish"} THEN nr + 1 ELSE 0
Filled == IF xpc \in {"unmap", "publish"} THEN f ELSE 0

TxTypes ==
    /\ wr_p \in 0 .. Word - 1 /\ rd_p \in 0 .. Word - 1
    /\ qcp_rd_p \in Slots /\ wr_ptr_add \in Nat
    /\ txbufs \in [Slots -> Pieces]
    /\ fw_wr \in Slots /\ fw_rd \in Slots
    /\ nr \in 0 .. MaxFrags /\ f \in 0 .. MaxFrags + 1
    /\ todo \in Slots /\ qcp \in Slots
    /\ xpc = "unmap" => f <= nr + 1
    /\ xpc = "publish" => f = nr + 1

Room == Used + Resv < Cnt

Shape ==
    /\ \A k \in 0 .. Used - 1 : Ring[k] # NoBuf
    /\ Used > 0 => LastPiece(Ring[Used - 1])
    /\ \A k \in 1 .. Used - 1 : Follows(Ring[k - 1], Ring[k])
    /\ \A j \in 0 .. Filled - 1 : Ring[Used + j] = Piece(nr, j)
    /\ \A k \in Used + Filled .. Cnt - 1 :
          Ring[k] = NoBuf \/ (npc = "clean" /\ k = Cnt - 1)

\* Entries the device has sent, entries it has been told of, and entries of
\* the packet whose call has not come to the doorbell yet
Done == D_IDX(fw_rd - rd_p)
Told == D_IDX(fw_wr - fw_rd)
Pend == IF xpc \in {"stop", "recheck", "sent"} THEN nr + 1 ELSE 0
FwPlaces == Done + Told + wr_ptr_add + Pend = Used

NapiPlaces ==
    /\ npc \in {"idle", "wake"} => qcp_rd_p = D_IDX(rd_p)
    /\ npc = "take" => todo \in 1 .. Done /\ qcp = D_IDX(rd_p + todo)
    /\ npc = "clean" => todo - 1 \in 0 .. Done /\ qcp = D_IDX(rd_p + (todo - 1))
    /\ npc = "done" => qcp = D_IDX(rd_p)

ClosedQuiet ==
    /\ phase # "up" => npc = "idle"
    /\ phase \in {"tx_off", "down"} => xpc = "idle"

TxInv ==
    /\ TxTypes /\ Room /\ Shape
    /\ FwPlaces /\ NapiPlaces /\ ClosedQuiet

\* The assumptions on the constants in the form in which they are used.
LEMMA TxConstants ==
    /\ Cnt \in Nat \ {0} /\ Word \in Nat \ {0} /\ Word >= 2 * Cnt /\ Word % Cnt = 0
    /\ MaxFrags \in Nat \ {0} /\ 4 * MaxFrags < Cnt /\ MaxFrags + 1 < Cnt
BY RingConstants

\* What the steps need of them
LEMMA Sizes == Cnt \in Nat /\ Cnt > 1 /\ Word \in Nat /\ Word > Cnt /\ MaxFrags \in Nat
BY TxConstants

\* Entries counted from a pointer.
LEMMA Entries ==
    ASSUME NEW p \in Int
    PROVE  /\ \A k \in Int : D_IDX(p + k) \in Slots
           /\ \A j, k \in 0 .. Cnt - 1 : D_IDX(p + j) = D_IDX(p + k) => j = k
           /\ \A i \in Slots : D_IDX(i - p) \in 0 .. Cnt - 1 /\ i = D_IDX(p + D_IDX(i - p))
           /\ \A i \in Slots, k \in 0 .. Cnt - 1 : i = D_IDX(p + k) => D_IDX(i - p) = k
           /\ \A j, k \in Int : D_IDX(D_IDX(p + j) + k) = D_IDX(p + (j + k))
<1>1. Cnt \in Nat \ {0}
  BY TxConstants
<1> QED
  BY <1>1, EntriesOf, ZenonT(30) DEF D_IDX, Slots

\* The device's pointers and the driver's, when one of them moves.
LEMMA DevMoves ==
    ASSUME NEW a \in Slots, NEW b \in Slots, NEW n \in Nat
    PROVE  /\ D_IDX(a + n) \in Slots /\ D_IDX(a - b) \in 0 .. Cnt - 1
           /\ D_IDX(a - b) + n < Cnt => D_IDX(D_IDX(a + n) - b) = D_IDX(a - b) + n
           /\ n <= D_IDX(a - b) => D_IDX(a - D_IDX(b + n)) = D_IDX(a - b) - n
<1> USE DEF Slots, D_IDX
<1>1. Cnt \in Nat \ {0}
  BY TxConstants
<1>2. (a + n) % Cnt \in 0 .. Cnt - 1 /\ (a - b) % Cnt \in 0 .. Cnt - 1
  BY <1>1, ModRange
<1>3. ASSUME ((a - b) % Cnt) + n < Cnt
      PROVE  (((a + n) % Cnt) - b) % Cnt = ((a - b) % Cnt) + n
  BY <1>1, <1>3, FirstMoves
<1>4. ASSUME n <= (a - b) % Cnt
      PROVE  (a - ((b + n) % Cnt)) % Cnt = ((a - b) % Cnt) - n
  BY <1>1, <1>4, SecondMoves
<1> QED
  BY <1>2, <1>3, <1>4

LEMMA WrMoves ==
    ASSUME wr_p \in 0 .. Word - 1, rd_p \in 0 .. Word - 1, NEW n \in Nat, Used + n < Word
    PROVE  Inc(wr_p, n) \in 0 .. Word - 1 /\ (Inc(wr_p, n) - rd_p) % Word = Used + n
<1>1. Word \in Nat \ {0}
  BY TxConstants
<1>2. (wr_p + n) % Word \in 0 .. Word - 1
  <2>1. wr_p + n \in Int
    BY <1>1
  <2> QED
    BY <1>1, <2>1, ModRange, Zenon
<1> QED
  BY <1>1, <1>2, FirstMoves DEF Inc, Used

LEMMA RdMoves ==
    ASSUME wr_p \in 0 .. Word - 1, rd_p \in 0 .. Word - 1, NEW n \in Nat, n <= Used
    PROVE  Inc(rd_p, n) \in 0 .. Word - 1 /\ (wr_p - Inc(rd_p, n)) % Word = Used - n
<1>1. Word \in Nat \ {0}
  BY TxConstants
<1>2. (rd_p + n) % Word \in 0 .. Word - 1
  <2>1. rd_p + n \in Int
    BY <1>1
  <2> QED
    BY <1>1, <2>1, ModRange, Zenon
<1> QED
  BY <1>1, <1>2, SecondMoves DEF Inc, Used

\* The pointers of the driver and of the device, in entries from rd_p.
LEMMA TxPlaces ==
    ASSUME TxTypes
    PROVE  /\ Used \in 0 .. Word - 1
           /\ \A k \in Int : D_IDX(rd_p + k) \in Slots
           /\ Ring \in [0 .. Cnt - 1 -> Pieces]
           /\ \A j, k \in 0 .. Cnt - 1 : D_IDX(rd_p + j) = D_IDX(rd_p + k) => j = k
           /\ \A i \in Slots : \E k \in 0 .. Cnt - 1 : i = D_IDX(rd_p + k)
           /\ \A j \in Int : D_IDX(wr_p + j) = D_IDX(rd_p + (Used + j))
           /\ Cleaned = D_IDX(rd_p + (Cnt - 1))
           /\ Done \in 0 .. Cnt - 1 /\ Told \in 0 .. Cnt - 1
           /\ \A j \in Int : D_IDX(fw_rd + j) = D_IDX(rd_p + (Done + j))
<1> USE TxConstants
<1> rd_p \in Int /\ wr_p \in 0 .. Word - 1 /\ rd_p \in 0 .. Word - 1 /\ fw_rd \in Slots /\ fw_wr \in Slots
  BY DEF TxTypes
<1>1. Used \in 0 .. Word - 1
  BY Distance DEF Used
<1>2. \A k \in Int : D_IDX(rd_p + k) \in Slots
  BY Entries, Zenon
<1>3. Ring \in [0 .. Cnt - 1 -> Pieces]
  BY <1>2 DEF Ring, TxTypes
<1>4. \A j, k \in 0 .. Cnt - 1 : D_IDX(rd_p + j) = D_IDX(rd_p + k) => j = k
  BY Entries, Zenon
<1>5. ASSUME NEW i \in Slots PROVE \E k \in 0 .. Cnt - 1 : i = D_IDX(rd_p + k)
  <2>1. D_IDX(i - rd_p) \in 0 .. Cnt - 1 /\ i = D_IDX(rd_p + D_IDX(i - rd_p))
    BY Entries
  <2> QED
    BY <2>1
<1>6. ASSUME NEW j \in Int PROVE D_IDX(wr_p + j) = D_IDX(rd_p + (Used + j))
  <2>1. (wr_p + j) % Cnt = (rd_p + ((wr_p - rd_p) % Word) + j) % Cnt
    <3>1. Cnt \in Nat \ {0} /\ Word \in Nat \ {0} /\ Word % Cnt = 0
      OBVIOUS
    <3> QED
      BY <3>1, FirstAtDistance, ZenonT(30)
  <2>2. rd_p + Used + j = rd_p + (Used + j)
    BY <1>1
  <2> QED
    BY <2>1, <2>2 DEF Used, D_IDX
<1>7. Cleaned = D_IDX(rd_p + (Cnt - 1))
  <2>1. rd_p - 1 \in Int /\ 1 \in Int /\ (rd_p - 1) + Cnt * 1 = rd_p + (Cnt - 1)
    OBVIOUS
  <2>2. ((rd_p - 1) + Cnt * 1) % Cnt = (rd_p - 1) % Cnt
    BY <2>1, ModShift, Zenon
  <2> QED
    BY <2>1, <2>2 DEF Cleaned, D_IDX
<1>8. Done \in 0 .. Cnt - 1 /\ fw_rd = D_IDX(rd_p + Done)
  BY Entries DEF Done
<1>9. Told \in 0 .. Cnt - 1
  BY ModRange DEF Told, D_IDX, Slots
<1>10. ASSUME NEW j \in Int PROVE D_IDX(fw_rd + j) = D_IDX(rd_p + (Done + j))
  <2>1. Done \in Int
    BY <1>8
  <2>2. \A i, k \in Int : D_IDX(D_IDX(rd_p + i) + k) = D_IDX(rd_p + (i + k))
    BY Entries, Zenon
  <2> QED
    BY <1>8, <2>1, <2>2
<1> QED
  BY <1>1, <1>2, <1>3, <1>4, <1>5, <1>6, <1>7, <1>8, <1>9, <1>10

-----------------------------------------------------------------------------
(* The invariant says what nfp_nfd3_tx() and the completion rely on. *)

LEMMA TxInvSound == TxInv => NoOverwrite /\ WholePackets
<1> SUFFICES ASSUME TxInv PROVE NoOverwrite /\ WholePackets
  OBVIOUS
<1> USE TxConstants
<1> TxTypes /\ Room /\ Shape /\ FwPlaces /\ nr \in Nat /\ wr_ptr_add \in Nat
  BY DEF TxInv, TxTypes
<1>p. /\ Used \in 0 .. Word - 1 /\ Done \in 0 .. Cnt - 1 /\ Told \in 0 .. Cnt - 1
      /\ \A j, k \in 0 .. Cnt - 1 : D_IDX(rd_p + j) = D_IDX(rd_p + k) => j = k
      /\ \A j \in Int : D_IDX(wr_p + j) = D_IDX(rd_p + (Used + j))
      /\ \A j \in Int : D_IDX(fw_rd + j) = D_IDX(rd_p + (Done + j))
      /\ Cleaned = D_IDX(rd_p + (Cnt - 1))
  BY TxPlaces
<1>w. Window = {D_IDX(rd_p + k) : k \in 0 .. Used - 1}
  BY DEF Window
<1>1. ASSUME xpc = "prep", NEW i \in Target(nr + 1)
      PROVE  txbufs[i] = NoBuf /\ i # Cleaned
  <2>1. PICK j \in 0 .. nr : i = D_IDX(wr_p + j)
    BY DEF Target
  <2>2. Used + nr + 1 < Cnt /\ Filled = 0
    BY <1>1, <1>p DEF Room, Resv, Filled
  <2>3. Used + j \in Used + Filled .. Cnt - 1 /\ Used + j # Cnt - 1 /\ Used + j \in 0 .. Cnt - 1
    BY <1>p, <2>2
  <2>4. i = D_IDX(rd_p + (Used + j))
    BY <1>p, <2>1
  <2>5. Ring[Used + j] = NoBuf
    BY <2>3 DEF Shape
  <2> QED
    BY <1>p, <2>3, <2>4, <2>5 DEF Ring
<1>2. FwWindow \subseteq Window
  <2> SUFFICES ASSUME NEW i \in FwWindow PROVE i \in Window
    OBVIOUS
  <2>1. PICK k \in 0 .. Told - 1 : i = D_IDX(fw_rd + k)
    BY DEF FwWindow, Told
  <2>2. i = D_IDX(rd_p + (Done + k))
    BY <1>p, <2>1
  <2>3. Pend \in Nat
    BY DEF Pend
  <2>4. Done + k \in 0 .. Used - 1
    BY <1>p, <2>3 DEF FwPlaces
  <2> QED
    BY <1>w, <2>2, <2>4
<1>3. NoOverwrite
  BY <1>1, <1>2 DEF NoOverwrite
<1>r. Used < Cnt
  BY <1>p DEF Room, Resv
<1>4. \A i \in Window : txbufs[i] # NoBuf
  <2> SUFFICES ASSUME NEW k \in 0 .. Used - 1 PROVE txbufs[D_IDX(rd_p + k)] # NoBuf
    BY <1>w
  <2>1. k \in 0 .. Cnt - 1 /\ Ring[k] # NoBuf
    BY <1>p, <1>r DEF Shape
  <2> QED
    BY <2>1 DEF Ring
<1>5. Used > 0 => LastPiece(txbufs[D_IDX(wr_p - 1)])
  <2>1. D_IDX(wr_p + (-1)) = D_IDX(rd_p + (Used + (-1)))
    BY <1>p
  <2>2. wr_p + (-1) = wr_p - 1 /\ Used + (-1) = Used - 1
    BY <1>p DEF TxTypes
  <2>3. Used > 0 => Used - 1 \in 0 .. Cnt - 1
    BY <1>p, <1>r
  <2> QED
    BY <2>1, <2>2, <2>3 DEF Shape, Ring
<1>6. \A k \in 1 .. Used - 1 : Follows(txbufs[D_IDX(rd_p + k - 1)], txbufs[D_IDX(rd_p + k)])
  <2> SUFFICES ASSUME NEW k \in 1 .. Used - 1
               PROVE  Follows(txbufs[D_IDX(rd_p + k - 1)], txbufs[D_IDX(rd_p + k)])
    OBVIOUS
  <2>1. rd_p + k - 1 = rd_p + (k - 1)
    BY <1>p DEF TxTypes
  <2>2. Follows(Ring[k - 1], Ring[k])
    BY DEF Shape
  <2>3. k \in 0 .. Cnt - 1 /\ k - 1 \in 0 .. Cnt - 1
    BY <1>p, <1>r
  <2> QED
    BY <2>1, <2>2, <2>3 DEF Ring
<1>7. WholePackets
  BY <1>4, <1>5, <1>6 DEF WholePackets
<1> QED
  BY <1>3, <1>7

-----------------------------------------------------------------------------
(* What steps leave alone. *)

LEMMA TxFrame ==
    ASSUME UNCHANGED <<wr_p, rd_p, txbufs>>
    PROVE  /\ Used' = Used /\ Window' = Window /\ LastPieces(Window)' = LastPieces(Window)
           /\ Cleaned' = Cleaned
           /\ Ring' = Ring
BY DEF Used, Window, LastPieces, Cleaned, Ring, D_IDX

LEMMA ShapeFrame ==
    ASSUME TxTypes, Shape, UNCHANGED <<wr_p, rd_p, txbufs>>, Filled' = Filled, Filled > 0 => nr' = nr,
           npc = "clean" => npc' = "clean"
    PROVE  Shape'
<1>1. Used' = Used /\ Ring' = Ring /\ Filled' = Filled
  BY TxFrame
<1>2. /\ \A k \in 0 .. Used' - 1 : Ring'[k] # NoBuf
      /\ Used' > 0 => LastPiece(Ring'[Used' - 1])
      /\ \A k \in 1 .. Used' - 1 : Follows(Ring'[k - 1], Ring'[k])
  BY <1>1 DEF Shape
<1>3. \A j \in 0 .. Filled' - 1 : Ring'[Used' + j] = Piece(nr', j)
  <2>1. CASE Filled > 0
    BY <1>1, <2>1 DEF Shape
  <2>2. CASE ~(Filled > 0)
    <3>1. Filled \in Int
      BY DEF Filled, TxTypes
    <3> QED
      BY <1>1, <2>2, <3>1
  <2> QED
    BY <2>1, <2>2
<1>4. \A k \in Used' + Filled' .. Cnt - 1 :
         Ring'[k] = NoBuf \/ (npc' = "clean" /\ k = Cnt - 1)
  BY <1>1 DEF Shape
<1> QED
  BY <1>2, <1>3, <1>4 DEF Shape

LEMMA FwFrame ==
    ASSUME FwPlaces, UNCHANGED <<wr_p, rd_p, fw_rd, fw_wr, wr_ptr_add>>, Pend' = Pend
    PROVE  FwPlaces'
BY DEF FwPlaces, Done, Told, Used, D_IDX

LEMMA NapiFrame ==
    ASSUME NapiPlaces, UNCHANGED <<rd_p, fw_rd, qcp_rd_p, npc, todo, qcp>>
    PROVE  NapiPlaces'
BY DEF NapiPlaces, Done, D_IDX

\* A doorbell for everything the device has not been told of.
LEMMA DoorbellPlaces ==
    ASSUME TxTypes, FwPlaces, Used < Cnt, Flush(wr_ptr_add + Pend), Pend' = 0,
           UNCHANGED <<wr_p, rd_p, fw_rd>>
    PROVE  FwPlaces' /\ fw_wr' \in Slots /\ wr_ptr_add' \in Nat
<1> USE TxConstants
<1> DEFINE n == wr_ptr_add + Pend
<1>1. n \in Nat
  BY DEF TxTypes, Pend
<1>2. Done \in 0 .. Cnt - 1 /\ Told \in 0 .. Cnt - 1 /\ Used \in Nat
  BY TxPlaces
<1>3. Told + n < Cnt /\ Done + Told + n = Used
  BY <1>1, <1>2 DEF FwPlaces, TxTypes, Pend
<1>4. fw_wr' = D_IDX(fw_wr + n) /\ wr_ptr_add' = 0
  BY DEF Flush, D_IDX
<1> HIDE DEF n
<1>5. fw_wr \in Slots /\ fw_rd \in Slots
  BY DEF TxTypes
<1>6. D_IDX(fw_wr + n) \in Slots /\ D_IDX(D_IDX(fw_wr + n) - fw_rd) = D_IDX(fw_wr - fw_rd) + n
  BY <1>1, <1>3, <1>5, DevMoves DEF Told
<1>7. Told' = Told + n
  BY <1>4, <1>6 DEF Told, D_IDX
<1>8. Done' = Done /\ Used' = Used
  BY DEF Done, Used, D_IDX
<1>9. fw_wr' \in Slots
  BY <1>4, <1>6
<1> QED
  BY <1>1, <1>2, <1>3, <1>4, <1>7, <1>8, <1>9 DEF FwPlaces

-----------------------------------------------------------------------------
(* The steps that leave the entries and the driver's pointers alone. *)

LEMMA TxParts ==
    ASSUME TxInv
    PROVE  /\ TxTypes /\ Room /\ Shape
           /\ FwPlaces /\ NapiPlaces /\ ClosedQuiet
           /\ Used \in 0 .. Cnt - 1 /\ Used + Resv < Cnt /\ nr \in Nat /\ f \in Nat
           /\ wr_ptr_add \in Nat /\ Pend \in Nat
           /\ Done \in 0 .. Cnt - 1 /\ Told \in 0 .. Cnt - 1
<1>1. TxTypes /\ Room
  BY DEF TxInv
<1>2. nr \in Nat /\ f \in Nat /\ wr_ptr_add \in Nat
  BY <1>1, TxConstants DEF TxTypes
<1>3. Used \in Nat /\ Done \in 0 .. Cnt - 1 /\ Told \in 0 .. Cnt - 1
  BY <1>1, TxPlaces, TxConstants
<1>4. Used \in 0 .. Cnt - 1 /\ Used + Resv < Cnt
  BY <1>1, <1>2, <1>3, TxConstants DEF Room, Resv
<1>5. Pend \in Nat
  BY <1>2 DEF Pend
<1> QED
  BY <1>1, <1>2, <1>3, <1>4, <1>5 DEF TxInv

LEMMA TxXmit == ASSUME TxInv, NEW n \in 0 .. MaxFrags, NEW m \in BOOLEAN, Xmit(n, m) PROVE TxInv'
<1> USE Sizes
<1>1. TxTypes'
  BY TxParts DEF TxTypes, Xmit, ring, queue, dev, napi
<1>2. Room'
  <2>1. Used' = Used
    BY TxFrame DEF Xmit, ring
  <2>2. ~TxFull(n + 1) => Used + (n + 1) < Cnt
    <3>1. Cnt - (n + 1) \in 0 .. Word - 1
      BY TxConstants
    <3>2. (Cnt - (n + 1)) % Word = Cnt - (n + 1)
      BY <3>1, ModUnique
    <3> QED
      BY <3>2, TxParts DEF TxFull
  <2>3. Resv' = IF TxFull(n + 1) THEN 0 ELSE n + 1
    BY DEF Resv, Xmit
  <2> QED
    BY <2>1, <2>2, <2>3, TxParts DEF Room
<1>3. Shape'
  BY TxParts, ShapeFrame DEF Xmit, ring, napi, Filled
<1>5. FwPlaces'
  BY TxParts, FwFrame DEF Xmit, ring, dev, Pend
<1>6. NapiPlaces'
  BY TxParts, NapiFrame DEF Xmit, ring, dev, napi
<1>7. ClosedQuiet'
  BY TxParts DEF ClosedQuiet, Xmit, napi
<1> QED
  BY <1>1, <1>2, <1>3, <1>5, <1>6, <1>7 DEF TxInv

\* The three returns that ring the doorbell and leave the entries alone.
LEMMA TxReturns ==
    ASSUME TxInv, xpc \in {"busy", "prep", "sent"}, Flush(wr_ptr_add + Pend), xpc' = "idle",
           nr' = 0, f' = 0,
           UNCHANGED <<wr_p, rd_p, qcp_rd_p, txbufs, fw_rd, phase, napi>>
    PROVE  TxInv'
<1> USE Sizes
<1>5. FwPlaces' /\ fw_wr' \in Slots /\ wr_ptr_add' \in Nat
  BY TxParts, DoorbellPlaces DEF Pend
<1>1. TxTypes'
  BY TxParts, <1>5 DEF TxTypes, napi
<1>2. Room'
  BY TxParts, TxFrame DEF Room, Resv
<1>3. Shape'
  BY TxParts, ShapeFrame DEF napi, Filled
<1>6. NapiPlaces'
  BY TxParts, NapiFrame DEF napi
<1>7. ClosedQuiet'
  BY TxParts DEF ClosedQuiet, napi
<1> QED
  BY <1>1, <1>2, <1>3, <1>5, <1>6, <1>7 DEF TxInv

LEMMA TxXmitBusy == ASSUME TxInv, XmitBusy PROVE TxInv'
<1>1. xpc = "busy" /\ Flush(wr_ptr_add + Pend)
  BY TxParts DEF XmitBusy, Pend
<1> QED
  BY <1>1, TxReturns DEF XmitBusy, XReturn

LEMMA TxPrepareFails == ASSUME TxInv, PrepareFails PROVE TxInv'
<1>1. xpc = "prep" /\ Flush(wr_ptr_add + Pend)
  BY TxParts DEF PrepareFails, Pend
<1> QED
  BY <1>1, TxReturns DEF PrepareFails, XReturn

LEMMA TxSentQueue == ASSUME TxInv, SentQueue PROVE TxInv'
<1> USE Sizes
<1>0. xpc = "sent" /\ Pend = nr + 1 /\ xpc' = "idle" /\ nr' = 0 /\ f' = 0
  BY DEF SentQueue, Pend, XReturn
<1>1. CASE Doorbell
  <2>1. Flush(wr_ptr_add + Pend)
    BY <1>0, <1>1, TxParts DEF SentQueue, Flush
  <2> QED
    BY <1>0, <2>1, TxReturns DEF SentQueue, XReturn
<1>2. CASE ~Doorbell
  <2>0. wr_ptr_add' = wr_ptr_add + nr + 1 /\ fw_wr' = fw_wr
    BY <1>2 DEF SentQueue
  <2>1. TxTypes'
    BY <1>0, <2>0, TxParts DEF TxTypes, SentQueue, napi
  <2>2. Room'
    BY <1>0, TxParts, TxFrame DEF Room, Resv, SentQueue
  <2>3. Shape'
    BY <1>0, TxParts, ShapeFrame DEF SentQueue, napi, Filled
  <2>5. FwPlaces'
    <3>1. Done' = Done /\ Told' = Told /\ Used' = Used
      BY <2>0 DEF Done, Told, Used, D_IDX, SentQueue
    <3>2. Pend' = 0
      BY <1>0 DEF Pend
    <3> QED
      BY <1>0, <2>0, <3>1, <3>2, TxParts DEF FwPlaces
  <2>6. NapiPlaces'
    BY TxParts, NapiFrame DEF SentQueue, napi
  <2>7. ClosedQuiet'
    BY <1>0, TxParts DEF ClosedQuiet, SentQueue, napi
  <2> QED
    BY <2>1, <2>2, <2>3, <2>5, <2>6, <2>7 DEF TxInv
<1> QED
  BY <1>1, <1>2


\* The steps that only move the call or the poll along.
LEMMA TxMovesOn ==
    ASSUME TxInv, UNCHANGED <<wr_p, rd_p, wr_ptr_add, txbufs, dev, nr, f>>,
           Resv' = Resv, Filled' = Filled, Pend' = Pend,
           npc # "clean", npc' # "clean", TxTypes', NapiPlaces', ClosedQuiet'
    PROVE  TxInv'
<1>2. Room'
  BY TxParts, TxFrame DEF Room
<1>3. Shape'
  BY TxParts, ShapeFrame
<1>5. FwPlaces'
  BY TxParts, FwFrame DEF dev
<1> QED
  BY <1>2, <1>3, <1>5 DEF TxInv

LEMMA TxStopQueue == ASSUME TxInv, StopQueue \/ Recheck PROVE TxInv'
<1>0. /\ UNCHANGED <<ring, dev, phase, nr, f, napi>>
      /\ xpc \in {"stop", "recheck"} /\ xpc' \in {"recheck", "sent"}
  BY DEF StopQueue, Recheck
<1>1. Resv' = Resv /\ Filled' = Filled /\ Pend' = Pend
  BY <1>0 DEF Resv, Filled, Pend
<1>2. TxTypes'
  BY <1>0, TxParts DEF TxTypes, ring, dev, napi
<1>3. NapiPlaces'
  BY <1>0, TxParts, NapiFrame DEF ring, dev, napi
<1>4. ClosedQuiet'
  BY <1>0, TxParts DEF ClosedQuiet, napi
<1>5. Room'
  BY <1>0, <1>1, TxParts, TxFrame DEF Room, ring
<1>6. Shape'
  BY <1>0, <1>1, TxParts, ShapeFrame DEF ring, napi
<1>8. FwPlaces'
  BY <1>0, <1>1, TxParts, FwFrame DEF ring, dev
<1> QED
  BY <1>2, <1>3, <1>4, <1>5, <1>6, <1>8 DEF TxInv

LEMMA TxOpenClose == ASSUME TxInv, CloseNapi \/ CloseTx \/ Open PROVE TxInv'
<1>0. /\ UNCHANGED <<ring, dev, xmit, napi>>
      /\ phase' # "up" => npc = "idle"
      /\ phase' \in {"tx_off", "down"} => xpc = "idle"
  BY TxParts DEF CloseNapi, CloseTx, Open, ClosedQuiet
<1>1. Resv' = Resv /\ Filled' = Filled /\ Pend' = Pend
  BY <1>0 DEF Resv, Filled, Pend, xmit
<1>2. TxTypes'
  BY <1>0, TxParts DEF TxTypes, ring, dev, napi, xmit
<1>3. NapiPlaces'
  BY <1>0, TxParts, NapiFrame DEF ring, dev, napi
<1>4. ClosedQuiet'
  BY <1>0 DEF ClosedQuiet, napi, xmit
<1>5. Room'
  BY <1>0, <1>1, TxParts, TxFrame DEF Room, ring
<1>6. Shape'
  BY <1>0, <1>1, TxParts, ShapeFrame DEF ring, napi, xmit
<1>8. FwPlaces'
  BY <1>0, <1>1, TxParts, FwFrame DEF ring, dev
<1> QED
  BY <1>2, <1>3, <1>4, <1>5, <1>6, <1>8 DEF TxInv

\* The poll finds out how much the device has sent since the last one.
LEMMA TxPoll == ASSUME TxInv, Poll PROVE TxInv'
<1> USE Sizes
<1>0. /\ UNCHANGED <<ring, dev, phase, xmit>> /\ npc = "idle" /\ npc' = "take"
      /\ phase = "up" /\ qcp' = fw_rd /\ todo' = D_IDX(fw_rd - qcp_rd_p)
      /\ fw_rd # qcp_rd_p
  BY DEF Poll
<1>1. Resv' = Resv /\ Filled' = Filled /\ Pend' = Pend
  BY <1>0 DEF Resv, Filled, Pend, xmit
<1>2. /\ rd_p \in Int /\ fw_rd \in Slots /\ qcp_rd_p = D_IDX(rd_p)
  BY <1>0, TxParts DEF TxTypes, NapiPlaces
<1>3. D_IDX(rd_p) = D_IDX(rd_p + 0) /\ D_IDX(rd_p) \in Slots
  BY <1>2, ModRange DEF D_IDX, Slots
<1>4. /\ Done \in 0 .. Cnt - 1 /\ fw_rd = D_IDX(rd_p + Done)
  BY <1>2, Entries DEF Done
<1>5. fw_rd = D_IDX(qcp_rd_p + Done)
  <2>1. \A j, k \in Int : D_IDX(D_IDX(rd_p + j) + k) = D_IDX(rd_p + (j + k))
    BY <1>2, Entries, Zenon
  <2>2. D_IDX(D_IDX(rd_p + 0) + Done) = D_IDX(rd_p + (0 + Done))
    BY <1>4, <2>1
  <2>3. 0 + Done = Done
    BY <1>4
  <2> QED
    BY <1>2, <1>3, <1>4, <2>2, <2>3
<1>6. D_IDX(fw_rd - qcp_rd_p) = Done
  <2>1. qcp_rd_p \in Int
    BY <1>2, <1>3 DEF Slots
  <2> QED
    BY <1>2, <1>4, <1>5, <2>1, Entries
<1>7. Done # 0
  BY <1>0, <1>2, <1>3, <1>4
<1>8. rd_p' = rd_p /\ Done' = Done
  BY <1>0 DEF Done, D_IDX, dev, ring
<1>9. NapiPlaces'
  <2>1. D_IDX(rd_p + todo)' = D_IDX(rd_p + todo')
    BY <1>8 DEF D_IDX
  <2> QED
    BY <1>0, <1>4, <1>6, <1>7, <1>8, <2>1 DEF NapiPlaces
<1>10. TxTypes'
  BY <1>0, <1>2, <1>4, <1>6, TxParts, Zenon DEF TxTypes, ring, dev, xmit, Slots
<1>11. ClosedQuiet'
  BY <1>0, TxParts DEF ClosedQuiet, xmit
<1> QED
  BY <1>0, <1>1, <1>9, <1>10, <1>11, TxMovesOn DEF ring, xmit

\* A poll that has cleaned all of it remembers where the device was.
LEMMA TxCompleted == ASSUME TxInv, Completed PROVE TxInv'
<1> USE Sizes
<1>0. /\ UNCHANGED <<wr_p, rd_p, wr_ptr_add, txbufs, dev, phase, xmit, todo>>
      /\ npc = "done" /\ npc' \in {"wake", "idle"} /\ qcp_rd_p' = qcp /\ qcp' = 0
  BY DEF Completed
<1>1. Resv' = Resv /\ Filled' = Filled /\ Pend' = Pend
  BY <1>0 DEF Resv, Filled, Pend, xmit
<1>2. qcp = D_IDX(rd_p)
  BY <1>0, TxParts DEF NapiPlaces
<1>3. NapiPlaces'
  BY <1>0, <1>2 DEF NapiPlaces, D_IDX
<1>4. TxTypes'
  BY <1>0, TxParts DEF TxTypes, dev, xmit, Slots
<1>5. ClosedQuiet'
  BY <1>0, TxParts DEF ClosedQuiet, xmit
<1> QED
  BY <1>0, <1>1, <1>3, <1>4, <1>5, TxMovesOn DEF xmit

LEMMA TxWakeQueue == ASSUME TxInv, WakeQueue PROVE TxInv'
<1>0. /\ UNCHANGED <<ring, dev, phase, xmit, todo, qcp>>
      /\ npc = "wake" /\ npc' = "idle"
  BY DEF WakeQueue
<1>1. Resv' = Resv /\ Filled' = Filled /\ Pend' = Pend
  BY <1>0 DEF Resv, Filled, Pend, xmit
<1>3. NapiPlaces'
  BY <1>0, TxParts DEF NapiPlaces, D_IDX, ring
<1>4. TxTypes'
  BY <1>0, TxParts DEF TxTypes, dev, xmit, ring
<1>5. ClosedQuiet'
  BY <1>0, TxParts DEF ClosedQuiet, xmit
<1> QED
  BY <1>0, <1>1, <1>3, <1>4, <1>5, TxMovesOn DEF xmit, ring


\* The device sends one more: an entry moves from those told to those done.
LEMMA TxFwTransmit == ASSUME TxInv, FwTransmit PROVE TxInv'
<1> USE Sizes
<1>0. /\ UNCHANGED <<ring, queue, fw_wr, phase, xmit, napi>>
      /\ fw_rd # fw_wr /\ fw_rd' = D_IDX(fw_rd + 1)
  BY DEF FwTransmit, D_IDX
<1>1. /\ fw_rd \in Slots /\ fw_wr \in Slots /\ rd_p \in Int /\ fw_rd \in Int
  BY TxParts DEF TxTypes, Slots
<1>2. fw_rd' \in Slots
  BY <1>0, <1>1, DevMoves
<1>3. Told >= 1
  <2>1. Told \in 0 .. Cnt - 1 /\ fw_wr = D_IDX(fw_rd + Told)
    BY <1>1, Entries DEF Told
  <2>2. D_IDX(fw_rd + 0) = fw_rd
    BY <1>1, ModUnique DEF D_IDX, Slots
  <2> QED
    BY <1>0, <2>1, <2>2
<1>4. Told' = Told - 1
  <2>1. D_IDX(fw_wr - D_IDX(fw_rd + 1)) = D_IDX(fw_wr - fw_rd) - 1
    BY <1>1, <1>3, DevMoves DEF Told
  <2>2. Told' = D_IDX(fw_wr - D_IDX(fw_rd + 1))
    BY <1>0 DEF Told, D_IDX
  <2> QED
    BY <2>1, <2>2 DEF Told
<1>5. Done + 1 \in 0 .. Cnt - 1
  BY <1>3, TxParts DEF FwPlaces
<1>6. Done' = Done + 1
  <2>1. D_IDX(fw_rd + 1) = D_IDX(rd_p + (Done + 1))
    BY TxPlaces, TxParts
  <2>2. D_IDX(fw_rd' - rd_p) = Done + 1
    BY <1>0, <1>1, <1>2, <1>5, <2>1, Entries
  <2> QED
    BY <1>0, <2>2 DEF Done, D_IDX, ring
<1>7. Pend' = Pend /\ Used' = Used
  BY <1>0 DEF Pend, Used, xmit, ring
<1>8. FwPlaces'
  BY <1>0, <1>4, <1>6, <1>7, TxParts DEF FwPlaces, ring
<1>9. NapiPlaces'
  BY <1>0, <1>6, TxParts DEF NapiPlaces, napi, ring, D_IDX
<1>10. TxTypes'
  BY <1>0, <1>2, TxParts DEF TxTypes, ring, xmit, napi
<1>11. Room'
  BY <1>0, <1>7, TxParts DEF Room, Resv, xmit
<1>12. Shape'
  BY <1>0, TxParts, ShapeFrame DEF ring, xmit, napi, Filled
<1>14. ClosedQuiet'
  BY <1>0, TxParts DEF ClosedQuiet, napi, xmit
<1> QED
  BY <1>8, <1>9, <1>10, <1>11, <1>12, <1>14 DEF TxInv

-----------------------------------------------------------------------------
(* The steps that write entries. *)

\* The entries a packet takes are those after the ones in use.
LEMMA TargetPlaces ==
    ASSUME TxInv, NEW k \in Nat, Used + k < Cnt
    PROVE  /\ \A j \in 0 .. Cnt - 1 : D_IDX(rd_p + j) \in Target(k) <=> j \in Used .. Used + k - 1
           /\ \A j \in 0 .. Cnt - 1 :
                 j \in Used .. Used + k - 1 => PieceAt(D_IDX(rd_p + j)) = (j - Used) - 1
           /\ Window \cap Target(k) = {} /\ Cleaned \notin Target(k)
           /\ Window \subseteq Slots /\ Cleaned \in Slots
<1> USE Sizes
<1>t. TxTypes
  BY TxParts
<1>r. Used \in 0 .. Cnt - 1 /\ wr_p \in Int /\ rd_p \in Int
  BY TxParts DEF TxTypes
<1>1. /\ Used \in 0 .. Cnt - 1 /\ wr_p \in Int /\ rd_p \in Int
      /\ \A j, m \in 0 .. Cnt - 1 : D_IDX(rd_p + j) = D_IDX(rd_p + m) => j = m
      /\ \A j \in Int : D_IDX(wr_p + j) = D_IDX(rd_p + (Used + j))
      /\ Cleaned = D_IDX(rd_p + (Cnt - 1))
  BY <1>t, <1>r, TxPlaces, Zenon
<1>i. \A j \in Int : D_IDX(rd_p + j) \in Slots
  BY <1>1, Entries
<1>2. ASSUME NEW j \in 0 .. Cnt - 1
      PROVE  D_IDX(rd_p + j) \in Target(k) <=> j \in Used .. Used + k - 1
  <2>1. ASSUME D_IDX(rd_p + j) \in Target(k) PROVE j \in Used .. Used + k - 1
    <3>1. PICK i \in 0 .. k - 1 : D_IDX(rd_p + j) = D_IDX(wr_p + i)
      BY <2>1 DEF Target
    <3>2. Used + i \in 0 .. Cnt - 1 /\ D_IDX(rd_p + j) = D_IDX(rd_p + (Used + i))
      BY <1>1, <3>1
    <3> QED
      BY <1>1, <3>2
  <2>2. ASSUME j \in Used .. Used + k - 1 PROVE D_IDX(rd_p + j) \in Target(k)
    <3>1. j - Used \in 0 .. k - 1 /\ Used + (j - Used) = j /\ j - Used \in Int
      BY <1>1, <2>2
    <3>2. D_IDX(wr_p + (j - Used)) = D_IDX(rd_p + (Used + (j - Used)))
      BY <1>1, <3>1, Zenon
    <3> QED
      BY <3>1, <3>2 DEF Target
  <2> QED
    BY <2>1, <2>2
<1>3. ASSUME NEW j \in 0 .. Cnt - 1, j \in Used .. Used + k - 1
      PROVE  PieceAt(D_IDX(rd_p + j)) = (j - Used) - 1
  <2>1. j - Used \in 0 .. Cnt - 1 /\ Used + (j - Used) = j /\ j - Used \in Int
    BY <1>1, <1>3
  <2>4. D_IDX(wr_p + (j - Used)) = D_IDX(rd_p + (Used + (j - Used)))
    BY <1>1, <2>1, Zenon
  <2>2. D_IDX(rd_p + j) = D_IDX(wr_p + (j - Used)) /\ D_IDX(rd_p + j) \in Slots
    BY <1>i, <2>1, <2>4
  <2>3. D_IDX(D_IDX(rd_p + j) - wr_p) = j - Used
    BY <1>1, <2>1, <2>2, Entries
  <2> QED
    BY <2>3 DEF PieceAt
<1>4. ASSUME NEW i \in Window PROVE i \notin Target(k) /\ i \in Slots
  <2>1. PICK j \in 0 .. Used - 1 : i = D_IDX(rd_p + j)
    BY DEF Window
  <2>2. j \in 0 .. Cnt - 1 /\ j \in Int /\ j \notin Used .. Used + k - 1
    BY <1>1
  <2> QED
    BY <1>i, <1>2, <2>1, <2>2, Zenon
<1>5. Cleaned \notin Target(k) /\ Cleaned \in Slots
  <2>1. Cnt - 1 \in 0 .. Cnt - 1 /\ Cnt - 1 \in Int /\ Cnt - 1 \notin Used .. Used + k - 1
    BY <1>1
  <2> QED
    BY <1>1, <1>i, <1>2, <2>1, Zenon
<1> QED
  BY <1>2, <1>3, <1>4, <1>5

LEMMA LastsWithin == ASSUME TxInv PROVE LastPieces(Window) \subseteq Slots
BY TxParts, TxPlaces, TxConstants DEF LastPieces, Window

\* What the steps do to the last pieces on the ring, of which there is one to
\* a packet: nothing, add one, or take the first away if it is one.
SameLasts == LastPieces(Window)' = LastPieces(Window) /\ InClean' = InClean
OneMoreLast ==
    /\ InClean' = InClean
    /\ \E i : i \notin LastPieces(Window) /\ LastPieces(Window)' = LastPieces(Window) \cup {i}
FirstTaken ==
    /\ InClean = 0
    /\ \E i : /\ LastPieces(Window)' = LastPieces(Window) \ {i}
            /\ InClean' = IF i \in LastPieces(Window) THEN 1 ELSE 0

\* Writing entries outside the window leaves the packets of the ring alone.
LEMMA CountKept ==
    ASSUME UNCHANGED <<wr_p, rd_p, npc>>, \A i \in Window \cup {Cleaned} : txbufs'[i] = txbufs[i]
    PROVE  SameLasts
<1>1. Window' = Window /\ Cleaned' = Cleaned
  BY DEF Window, Cleaned, Used, D_IDX
<1> QED
  BY <1>1 DEF SameLasts, LastPieces, InClean, LastPiece


\* What a call has filled in fits the room it found.
LEMMA FilledFits == ASSUME TxInv PROVE Filled \in Nat /\ Filled <= Resv
BY TxParts DEF TxTypes, Filled, Resv

LEMMA TxMap ==
    ASSUME TxInv, NEW n \in 0 .. MaxFrags, NEW k \in 0 .. n + 1, Map(n, k)
    PROVE  TxInv' /\ SameLasts
<1> USE Sizes
<1>0. /\ xpc = "prep" /\ n \in {nr, 0} /\ nr' = n /\ f' = k
      /\ xpc' = (IF k = n + 1 THEN "publish" ELSE "unmap")
      /\ UNCHANGED <<wr_p, rd_p, qcp_rd_p, wr_ptr_add, dev, phase, napi>>
      /\ txbufs' = [i \in Slots |-> IF i \in Target(k) THEN [nr_frags |-> n, fidx |-> PieceAt(i)]
                                                       ELSE txbufs[i]]
  BY DEF Map
<1>1. Resv = nr + 1 /\ Resv' = n + 1 /\ Filled = 0 /\ Filled' = k /\ Resv' <= Resv
  BY <1>0, TxParts DEF Resv, Filled
<1>2. /\ Used \in 0 .. Cnt - 1 /\ Used + k < Cnt /\ Used' = Used /\ k \in Nat
      /\ Used + Resv < Cnt
  <2>1. Used \in 0 .. Cnt - 1 /\ Used + Resv < Cnt
    BY TxParts
  <2>2. Used' = Used
    BY <1>0 DEF Used
  <2> QED
    BY <1>1, <2>1, <2>2
<1>p. Shape /\ TxTypes
  BY TxParts
<1>3. /\ \A j \in 0 .. Cnt - 1 : D_IDX(rd_p + j) \in Target(k) <=> j \in Used .. Used + k - 1
      /\ \A j \in 0 .. Cnt - 1 :
            j \in Used .. Used + k - 1 => PieceAt(D_IDX(rd_p + j)) = (j - Used) - 1
      /\ Window \cap Target(k) = {} /\ Cleaned \notin Target(k)
      /\ Window \subseteq Slots /\ Cleaned \in Slots
  BY <1>2, TargetPlaces
<1>4. \A j \in 0 .. Cnt - 1 : D_IDX(rd_p + j) \in Slots
  BY TxParts, Entries DEF TxTypes
<1>5. \A j \in 0 .. Cnt - 1 : Ring'[j] = txbufs'[D_IDX(rd_p + j)] /\ Ring[j] = txbufs[D_IDX(rd_p + j)]
  BY <1>0, Zenon DEF Ring, D_IDX
<1>6. \A j \in 0 .. Cnt - 1 :
         Ring'[j] = IF j \in Used .. Used + k - 1 THEN Piece(n, j - Used) ELSE Ring[j]
  <2> SUFFICES ASSUME NEW j \in 0 .. Cnt - 1
               PROVE  Ring'[j] = IF j \in Used .. Used + k - 1 THEN Piece(n, j - Used) ELSE Ring[j]
    OBVIOUS
  <2> DEFINE i == D_IDX(rd_p + j)
  <2>1. i \in Slots /\ Ring'[j] = txbufs'[i] /\ Ring[j] = txbufs[i]
    BY <1>4, <1>5
  <2>2. i \in Target(k) <=> j \in Used .. Used + k - 1
    BY <1>3
  <2>3. j \in Used .. Used + k - 1 => PieceAt(i) = (j - Used) - 1
    BY <1>3
  <2>4. txbufs'[i] = IF i \in Target(k) THEN [nr_frags |-> n, fidx |-> PieceAt(i)] ELSE txbufs[i]
    BY <1>0, <2>1
  <2> HIDE DEF i
  <2> QED
    BY <2>1, <2>2, <2>3, <2>4 DEF Piece
<1>7. Shape'
  <2>1. /\ \A j \in 0 .. Used - 1 : Ring'[j] = Ring[j]
        /\ \A j \in Used + k .. Cnt - 1 : Ring'[j] = Ring[j]
    BY <1>2, <1>6
  <2>2. \A j \in 0 .. Filled' - 1 : Ring'[Used + j] = Piece(nr', j)
    <3> SUFFICES ASSUME NEW j \in 0 .. k - 1 PROVE Ring'[Used + j] = Piece(n, j)
      BY <1>0, <1>1
    <3>1. Used + j \in 0 .. Cnt - 1 /\ Used + j \in Used .. Used + k - 1 /\ (Used + j) - Used = j
      BY <1>2, SMTT(30)
    <3> QED
      BY <1>6, <3>1
  <2>3. \A j \in Used + k .. Cnt - 1 : Ring'[j] = NoBuf \/ (npc' = "clean" /\ j = Cnt - 1)
    <3>1. npc' = npc
      BY <1>0 DEF napi
    <3> QED
      BY <1>1, <1>2, <1>p, <2>1, <3>1, SMTT(30) DEF Shape
  <2>4. /\ \A j \in 0 .. Used - 1 : Ring'[j] # NoBuf
        /\ Used > 0 => LastPiece(Ring'[Used - 1])
        /\ \A j \in 1 .. Used - 1 : Follows(Ring'[j - 1], Ring'[j])
    BY <1>2, <1>p, <2>1 DEF Shape
  <2> QED
    BY <1>1, <1>2, <2>2, <2>3, <2>4 DEF Shape
<1>8. TxTypes'
  <2>1. \A i \in Slots : i \in Target(k) => PieceAt(i) \in -2 .. MaxFrags - 1
    <3> SUFFICES ASSUME NEW i \in Slots, i \in Target(k) PROVE PieceAt(i) \in -2 .. MaxFrags - 1
      OBVIOUS
    <3>1. PICK j \in 0 .. Cnt - 1 : i = D_IDX(rd_p + j)
      BY TxParts, TxPlaces
    <3>2. j \in Used .. Used + k - 1 /\ PieceAt(i) = (j - Used) - 1
      BY <1>3, <3>1
    <3> QED
      BY <1>2, <3>2
  <2>2. txbufs' \in [Slots -> Pieces]
    BY <1>0, <2>1, TxParts DEF TxTypes, Pieces
  <2> QED
    BY <1>0, <1>1, <1>p, <2>2 DEF TxTypes, dev, napi
<1>9. Room'
  BY <1>1, <1>2 DEF Room
<1>10. SameLasts
  BY <1>0, <1>3, CountKept, Zenon DEF napi
<1>11. FwPlaces'
  BY <1>0, TxParts, FwFrame, Zenon DEF dev, Pend
<1>12. NapiPlaces'
  BY <1>0, TxParts, NapiFrame, Zenon DEF napi, dev
<1>13. ClosedQuiet'
  BY <1>0, TxParts DEF ClosedQuiet, napi
<1> QED
  BY <1>7, <1>8, <1>9, <1>10, <1>11, <1>12, <1>13, Zenon DEF TxInv


\* err_unmap: the entries filled in are empty again.
LEMMA TxUnmap == ASSUME TxInv, Unmap PROVE TxInv' /\ SameLasts
<1> USE Sizes
<1>0. /\ xpc = "unmap" /\ nr' = 0 /\ f' = 0 /\ xpc' = "idle"
      /\ Flush(wr_ptr_add)
      /\ UNCHANGED <<wr_p, rd_p, qcp_rd_p, fw_rd, phase, napi>>
      /\ txbufs' = [i \in Slots |-> IF i \in Target(f) THEN NoBuf ELSE txbufs[i]]
  BY DEF Unmap, XReturn
<1>1. Resv = nr + 1 /\ Resv' = 0 /\ Filled = f /\ Filled' = 0 /\ f <= nr + 1
  BY <1>0, TxParts DEF Resv, Filled, TxTypes
<1>2. Used \in 0 .. Cnt - 1 /\ Used + f < Cnt /\ Used' = Used /\ f \in Nat
  BY <1>0, <1>1, TxParts DEF Used
<1>p. Shape /\ TxTypes
  BY TxParts
<1>3. /\ \A j \in 0 .. Cnt - 1 : D_IDX(rd_p + j) \in Target(f) <=> j \in Used .. Used + f - 1
      /\ Window \cap Target(f) = {} /\ Cleaned \notin Target(f)
      /\ Window \subseteq Slots /\ Cleaned \in Slots
  BY <1>2, TargetPlaces
<1>4. \A j \in 0 .. Cnt - 1 : D_IDX(rd_p + j) \in Slots
  BY TxParts, Entries DEF TxTypes
<1>5. \A j \in 0 .. Cnt - 1 : Ring'[j] = txbufs'[D_IDX(rd_p + j)] /\ Ring[j] = txbufs[D_IDX(rd_p + j)]
  BY <1>0, Zenon DEF Ring, D_IDX
<1>6. \A j \in 0 .. Cnt - 1 :
         Ring'[j] = IF j \in Used .. Used + f - 1 THEN NoBuf ELSE Ring[j]
  BY <1>0, <1>3, <1>4, <1>5, Zenon
<1>7. Shape'
  <2>1. \A j \in 0 .. Used - 1 : Ring'[j] = Ring[j]
    BY <1>2, <1>6
  <2>3. \A j \in Used .. Cnt - 1 : Ring'[j] = NoBuf \/ (npc' = "clean" /\ j = Cnt - 1)
    <3> SUFFICES ASSUME NEW j \in Used .. Cnt - 1
                 PROVE  Ring'[j] = NoBuf \/ (npc' = "clean" /\ j = Cnt - 1)
      OBVIOUS
    <3>1. CASE j \in Used .. Used + f - 1
      BY <1>2, <1>6, <3>1
    <3>2. CASE j \in Used + f .. Cnt - 1
      <4>1. npc' = npc /\ j \in 0 .. Cnt - 1 /\ j \notin Used .. Used + f - 1
        BY <1>0, <1>2, <3>2 DEF napi
      <4> QED
        BY <1>1, <1>6, <1>p, <3>2, <4>1 DEF Shape
    <3> QED
      BY <1>2, <3>1, <3>2
  <2>4. /\ \A j \in 0 .. Used - 1 : Ring'[j] # NoBuf
        /\ Used > 0 => LastPiece(Ring'[Used - 1])
        /\ \A j \in 1 .. Used - 1 : Follows(Ring'[j - 1], Ring'[j])
    BY <1>2, <1>p, <2>1 DEF Shape
  <2> QED
    BY <1>1, <1>2, <2>3, <2>4 DEF Shape
<1>8. FwPlaces' /\ fw_wr' \in Slots /\ wr_ptr_add' \in Nat
  <2>1. Flush(wr_ptr_add + Pend) /\ Pend' = 0
    BY <1>0, TxParts DEF Pend
  <2> QED
    BY <1>0, <1>2, <2>1, TxParts, DoorbellPlaces
<1>9. TxTypes'
  <2>1. NoBuf \in Pieces
    BY DEF NoBuf, Pieces
  <2>2. txbufs' \in [Slots -> Pieces]
    BY <1>0, <2>1, TxParts DEF TxTypes
  <2> QED
    BY <1>0, <1>8, <1>p, <2>2 DEF TxTypes, napi
<1>10. Room'
  BY <1>1, <1>2 DEF Room
<1>11. SameLasts
  BY <1>0, <1>3, CountKept DEF napi
<1>12. NapiPlaces'
  BY <1>0, TxParts, NapiFrame DEF napi
<1>13. ClosedQuiet'
  BY <1>0, TxParts DEF ClosedQuiet, napi
<1> QED
  BY <1>7, <1>8, <1>9, <1>10, <1>11, <1>12, <1>13 DEF TxInv


\* wr_p moves over the entries of one whole packet.
LEMMA TxPublish == ASSUME TxInv, Publish PROVE TxInv' /\ OneMoreLast
<1> USE Sizes
<1>0. /\ xpc = "publish" /\ xpc' \in {"stop", "sent"} /\ wr_p' = Inc(wr_p, nr + 1) /\ f' = 0
      /\ UNCHANGED <<rd_p, qcp_rd_p, wr_ptr_add, txbufs, dev, phase, nr, napi>>
  BY DEF Publish
<1>1. Resv = nr + 1 /\ Resv' = 0 /\ Filled = nr + 1 /\ Filled' = 0 /\ Pend = 0 /\ Pend' = nr + 1
  BY <1>0, TxParts DEF Resv, Filled, Pend, TxTypes
<1>2. Used \in 0 .. Cnt - 1 /\ nr \in Nat /\ Used + (nr + 1) < Cnt
  BY <1>1, TxParts
<1>3. Used' = Used + (nr + 1) /\ wr_p' \in 0 .. Word - 1
  <2>1. Used + (nr + 1) < Word
    BY <1>2
  <2>2. wr_p \in 0 .. Word - 1 /\ rd_p \in 0 .. Word - 1 /\ nr + 1 \in Nat
    BY <1>2, TxParts DEF TxTypes
  <2>3. /\ Inc(wr_p, nr + 1) \in 0 .. Word - 1
        /\ (Inc(wr_p, nr + 1) - rd_p) % Word = Used + (nr + 1)
    BY <2>1, <2>2, WrMoves, Zenon
  <2> QED
    BY <1>0, <2>3 DEF Used
<1>4. Ring' = Ring
  BY <1>0 DEF Ring, D_IDX
<1>5. \A j \in 0 .. nr : Ring[Used + j] = Piece(nr, j)
  BY <1>1, <1>2, TxParts DEF Shape
<1>6. ASSUME NEW k \in Used .. Used + nr PROVE Ring[k] = Piece(nr, k - Used)
  <2>1. k - Used \in 0 .. nr /\ Used + (k - Used) = k
    BY <1>2
  <2> QED
    BY <1>5, <2>1
<1>7. Shape'
  <2>1. \A k \in 0 .. Used' - 1 : Ring'[k] # NoBuf
    <3> SUFFICES ASSUME NEW k \in 0 .. Used + nr PROVE Ring[k] # NoBuf
      BY <1>2, <1>3, <1>4
    <3>1. CASE k < Used
      BY <1>2, <3>1, TxParts DEF Shape
    <3>2. CASE k >= Used
      <4>1. Ring[k] = Piece(nr, k - Used) /\ k - Used \in Nat
        BY <1>2, <1>6, <3>2
      <4> QED
        BY <4>1 DEF Piece, NoBuf
    <3> QED
      BY <1>2, <3>1, <3>2
  <2>2. LastPiece(Ring'[Used' - 1])
    <3>1. Used' - 1 = Used + nr /\ Used + nr \in Used .. Used + nr
      BY <1>2, <1>3
    <3>2. Ring[Used + nr] = Piece(nr, nr)
      BY <1>2, <1>5
    <3> QED
      <4>1. Ring'[Used' - 1] = Piece(nr, nr)
        BY <1>2, <1>4, <3>1, <3>2
      <4> QED
        BY <1>2, <4>1 DEF LastPiece, Piece, NoBuf
  <2>3. \A k \in 1 .. Used' - 1 : Follows(Ring'[k - 1], Ring'[k])
    <3> SUFFICES ASSUME NEW k \in 1 .. Used + nr PROVE Follows(Ring[k - 1], Ring[k])
      BY <1>2, <1>3, <1>4
    <3>1. CASE k < Used
      BY <1>2, <3>1, TxParts DEF Shape
    <3>2. CASE k = Used
      <4>1. LastPiece(Ring[k - 1])
        BY <1>2, <3>2, TxParts DEF Shape
      <4>2. Ring[k] = Piece(nr, 0)
        BY <1>2, <1>6, <3>2
      <4> QED
        BY <4>1, <4>2 DEF Follows, HeadPiece, Piece, NoBuf
    <3>3. CASE k > Used
      <4>1. Ring[k] = Piece(nr, k - Used) /\ Ring[k - 1] = Piece(nr, (k - 1) - Used)
        BY <1>2, <1>6, <3>3
      <4>2. k - Used \in 1 .. nr /\ (k - 1) - Used = (k - Used) - 1
        BY <1>2, <3>3
      <4> QED
        BY <1>2, <4>1, <4>2 DEF Follows, LastPiece, Piece, NoBuf
    <3> QED
      BY <1>2, <3>1, <3>2, <3>3
  <2>4. \A k \in Used' + Filled' .. Cnt - 1 :
           Ring'[k] = NoBuf \/ (npc' = "clean" /\ k = Cnt - 1)
    BY <1>0, <1>1, <1>2, <1>3, <1>4, TxParts, SMTT(30) DEF Shape, napi
  <2>5. \A j \in 0 .. Filled' - 1 : Ring'[Used' + j] = Piece(nr', j)
    BY <1>1
  <2> QED
    BY <2>1, <2>2, <2>3, <2>4, <2>5 DEF Shape
<1>8. OneMoreLast
  <2> DEFINE new == D_IDX(rd_p + (Used + nr))
  <2>1. /\ \A j, m \in 0 .. Cnt - 1 : D_IDX(rd_p + j) = D_IDX(rd_p + m) => j = m
        /\ rd_p \in Int
    <3>1. TxTypes /\ rd_p \in Int
      BY TxParts DEF TxTypes
    <3> QED
      BY <3>1, TxPlaces, Zenon
  <2>2. Window = {D_IDX(rd_p + k) : k \in 0 .. Used - 1}
    BY DEF Window
  <2>3. Window' = {D_IDX(rd_p + k) : k \in 0 .. Used + nr}
    <3>1. Window' = {D_IDX(rd_p + k) : k \in 0 .. Used' - 1}
      BY <1>0 DEF Window, D_IDX
    <3>2. Used' - 1 = Used + nr
      BY <1>2, <1>3
    <3> QED
      BY <3>1, <3>2
  <2>4. \A k \in 0 .. Cnt - 1 : txbufs[D_IDX(rd_p + k)] = Ring[k]
    BY DEF Ring
  <2>5. ASSUME NEW k \in Used .. Used + nr
        PROVE  LastPiece(txbufs[D_IDX(rd_p + k)]) <=> k = Used + nr
    <3>1. txbufs[D_IDX(rd_p + k)] = Piece(nr, k - Used)
      BY <1>2, <1>6, <2>4
    <3> QED
      BY <1>2, <3>1 DEF LastPiece, Piece, NoBuf
  <2>6. LastPieces(Window)' = LastPieces(Window) \cup {new}
    <3>1. LastPieces(Window)' = {i \in Window' : LastPiece(txbufs[i])}
      BY <1>0 DEF LastPieces
    <3>2. ASSUME NEW i \in Window', LastPiece(txbufs[i]) PROVE i \in LastPieces(Window) \cup {new}
      <4>1. PICK k \in 0 .. Used + nr : i = D_IDX(rd_p + k)
        BY <2>3
      <4>2. CASE k < Used
        <5>1. i \in Window
          BY <1>2, <2>2, <4>1, <4>2
        <5> QED
          BY <3>2, <5>1 DEF LastPieces
      <4>3. CASE k >= Used
        <5>1. k \in Used .. Used + nr
          BY <1>2, <4>3
        <5> QED
          BY <2>5, <3>2, <4>1, <5>1
      <4> QED
        BY <1>2, <4>2, <4>3
    <3>3. ASSUME NEW i \in LastPieces(Window) PROVE i \in Window' /\ LastPiece(txbufs[i])
      <4>1. PICK k \in 0 .. Used - 1 : i = D_IDX(rd_p + k)
        BY <2>2 DEF LastPieces
      <4>2. k \in 0 .. Used + nr
        BY <1>2
      <4> QED
        BY <2>3, <4>1, <4>2 DEF LastPieces
    <3>4. new \in Window' /\ LastPiece(txbufs[new])
      <4>1. Used + nr \in 0 .. Used + nr /\ Used + nr \in Used .. Used + nr
        BY <1>2
      <4> QED
        BY <2>3, <2>5, <4>1
    <3> QED
      BY <3>1, <3>2, <3>3, <3>4
  <2>7. new \notin LastPieces(Window)
    <3> SUFFICES ASSUME new \in Window PROVE FALSE
      BY DEF LastPieces
    <3>1. PICK k \in 0 .. Used - 1 : new = D_IDX(rd_p + k)
      BY <2>2
    <3>2. k \in 0 .. Cnt - 1 /\ Used + nr \in 0 .. Cnt - 1 /\ k # Used + nr
      BY <1>2
    <3> QED
      BY <2>1, <3>1, <3>2, Zenon
  <2>8. InClean' = InClean
    BY <1>0 DEF InClean, Cleaned, D_IDX, napi
  <2> HIDE DEF new
  <2> QED
    BY <2>6, <2>7, <2>8 DEF OneMoreLast
<1>9. FwPlaces'
  <2>1. Done' = Done /\ Told' = Told
    BY <1>0 DEF Done, Told, D_IDX, dev
  <2> QED
    BY <1>0, <1>1, <1>2, <1>3, <2>1, TxParts DEF FwPlaces
<1>10. TxTypes'
  BY <1>0, <1>3, TxParts, SMTT(30) DEF TxTypes, dev, napi
<1>11. Room'
  BY <1>1, <1>2, <1>3 DEF Room
<1>12. NapiPlaces'
  BY <1>0, TxParts, NapiFrame DEF napi, dev
<1>13. ClosedQuiet'
  BY <1>0, TxParts DEF ClosedQuiet, napi
<1> QED
  BY <1>7, <1>8, <1>9, <1>10, <1>11, <1>12, <1>13 DEF TxInv


\* One more entry is passed by a pointer.
LEMMA IncEntry ==
    ASSUME NEW p \in 0 .. Word - 1, NEW j \in Int, NEW k \in Int
    PROVE  D_IDX(Inc(p, j) + k) = D_IDX(p + (j + k))
<1>1. Cnt \in Nat \ {0} /\ Word \in Nat \ {0} /\ Word % Cnt = 0 /\ p \in Int
  BY TxConstants
<1>2. \A q, i, m \in Int : (((q + i) % Word) + m) % Cnt = (q + (i + m)) % Cnt
  BY <1>1, IncOf, Zenon
<1>3. (((p + j) % Word) + k) % Cnt = (p + (j + k)) % Cnt
  BY <1>1, <1>2, Zenon
<1> QED
  BY <1>3 DEF D_IDX, Inc

\* rd_p++: every entry is one nearer, and the one passed is the last.
LEMMA TxTake == ASSUME TxInv, Take PROVE TxInv' /\ FirstTaken
<1> USE Sizes
<1>0. /\ npc = "take" /\ npc' = "clean" /\ rd_p' = Inc(rd_p, 1)
      /\ UNCHANGED <<wr_p, qcp_rd_p, wr_ptr_add, txbufs, dev, phase, xmit, todo, qcp>>
  BY DEF Take
<1>1. /\ wr_p \in 0 .. Word - 1 /\ rd_p \in 0 .. Word - 1 /\ rd_p \in Int /\ fw_rd \in Slots
      /\ todo \in 1 .. Done /\ qcp = D_IDX(rd_p + todo)
  BY <1>0, TxParts DEF TxTypes, NapiPlaces
<1>2. Used \in 1 .. Cnt - 1 /\ Done \in 1 .. Used
  BY <1>1, TxParts DEF FwPlaces
<1>3. rd_p' \in 0 .. Word - 1 /\ Used' = Used - 1
  <2>1. 1 <= Used /\ 1 \in Nat
    BY <1>2
  <2>2. Inc(rd_p, 1) \in 0 .. Word - 1 /\ (wr_p - Inc(rd_p, 1)) % Word = Used - 1
    BY <1>1, <2>1, RdMoves, Zenon
  <2> QED
    BY <1>0, <2>2 DEF Used
<1>4. \A k \in Int : D_IDX(rd_p' + k) = D_IDX(rd_p + (1 + k))
  <2>1. 1 \in Int
    OBVIOUS
  <2> QED
    BY <1>0, <1>1, <2>1, IncEntry, Zenon
<1>5. \A k \in 0 .. Cnt - 1 : Ring'[k] = txbufs[D_IDX(rd_p' + k)] /\ Ring[k] = txbufs[D_IDX(rd_p + k)]
  BY <1>0 DEF Ring, D_IDX
<1>6. ASSUME NEW k \in 0 .. Cnt - 2 PROVE Ring'[k] = Ring[k + 1]
  <2>1. k \in 0 .. Cnt - 1 /\ k + 1 \in 0 .. Cnt - 1 /\ 1 + k = k + 1 /\ k \in Int
    OBVIOUS
  <2> QED
    BY <1>4, <1>5, <2>1
<1>7. Filled' = Filled /\ Filled \in Nat /\ Used + Filled < Cnt /\ nr' = nr
  BY <1>0, <1>2, TxParts, FilledFits DEF Filled, xmit, Resv
<1>p. Shape
  BY TxParts
<1>8. Shape'
  <2>1. \A k \in 0 .. Used - 2 : Ring'[k] = Ring[k + 1]
    BY <1>2, <1>6
  <2>2. \A k \in 0 .. Used' - 1 : Ring'[k] # NoBuf
    BY <1>2, <1>3, <1>p, <2>1 DEF Shape
  <2>3. Used' > 0 => LastPiece(Ring'[Used' - 1])
    <3> SUFFICES ASSUME Used > 1 PROVE LastPiece(Ring'[Used - 2])
      BY <1>2, <1>3
    <3>1. Ring'[Used - 2] = Ring[Used - 1]
      BY <1>2, <2>1
    <3> QED
      <4>1. LastPiece(Ring[Used - 1])
        BY <1>2, <1>p DEF Shape
      <4> QED
        BY <3>1, <4>1
  <2>4. \A k \in 1 .. Used' - 1 : Follows(Ring'[k - 1], Ring'[k])
    <3> SUFFICES ASSUME NEW k \in 1 .. Used - 2 PROVE Follows(Ring'[k - 1], Ring'[k])
      BY <1>2, <1>3
    <3>1. Ring'[k] = Ring[k + 1] /\ Ring'[k - 1] = Ring[k]
      BY <1>2, <2>1
    <3>2. k + 1 \in 1 .. Used - 1 /\ (k + 1) - 1 = k
      BY <1>2
    <3>3. Follows(Ring[(k + 1) - 1], Ring[k + 1])
      BY <3>2, TxParts DEF Shape
    <3> QED
      BY <3>1, <3>2, <3>3
  <2>5. \A j \in 0 .. Filled' - 1 : Ring'[Used' + j] = Piece(nr', j)
    <3> SUFFICES ASSUME NEW j \in 0 .. Filled - 1 PROVE Ring'[(Used - 1) + j] = Piece(nr, j)
      BY <1>3, <1>7
    <3>1. (Used - 1) + j \in 0 .. Cnt - 2 /\ ((Used - 1) + j) + 1 = Used + j
      BY <1>2, <1>7
    <3>2. Ring'[(Used - 1) + j] = Ring[Used + j]
      BY <1>6, <3>1
    <3> QED
      BY <3>2, TxParts DEF Shape
  <2>6. \A k \in Used' + Filled' .. Cnt - 1 :
           Ring'[k] = NoBuf \/ (npc' = "clean" /\ k = Cnt - 1)
    <3> SUFFICES ASSUME NEW k \in (Used - 1) + Filled .. Cnt - 2 PROVE Ring'[k] = NoBuf
      BY <1>0, <1>2, <1>3, <1>7
    <3>1. k \in 0 .. Cnt - 2 /\ k + 1 \in Used + Filled .. Cnt - 1
      BY <1>2, <1>7
    <3>2. Ring[k + 1] = NoBuf
      BY <1>0, <3>1, TxParts DEF Shape
    <3> QED
      BY <1>6, <3>1, <3>2
  <2> QED
    BY <2>2, <2>3, <2>4, <2>5, <2>6 DEF Shape
<1>9. Done' = Done - 1
  <2>1. fw_rd = D_IDX(rd_p + Done)
    BY <1>1, Entries DEF Done
  <2>2. Done - 1 \in 0 .. Cnt - 1 /\ Done - 1 \in Int /\ 1 + (Done - 1) = Done
    BY <1>2
  <2>3. fw_rd = D_IDX(rd_p' + (Done - 1))
    BY <1>4, <2>1, <2>2
  <2>4. rd_p' \in Int
    BY <1>3
  <2>5. D_IDX(fw_rd - rd_p') = Done - 1
    BY <1>1, <2>2, <2>3, <2>4, Entries
  <2> QED
    BY <1>0, <2>5 DEF Done, D_IDX, dev
<1>10. FwPlaces'
  <2>1. Told' = Told /\ Pend' = Pend
    BY <1>0 DEF Told, Pend, D_IDX, dev, xmit
  <2> QED
    BY <1>0, <1>2, <1>3, <1>9, <2>1, TxParts DEF FwPlaces
<1>11. NapiPlaces'
  <2>1. todo - 1 \in Int /\ 1 + (todo - 1) = todo
    BY <1>1, <1>2
  <2>2. qcp = D_IDX(rd_p' + (todo - 1))
    BY <1>1, <1>4, <2>1
  <2>3. todo - 1 \in 0 .. Done'
    BY <1>1, <1>2, <1>9, SMTT(30)
  <2> QED
    BY <1>0, <2>2, <2>3 DEF NapiPlaces, D_IDX
<1>12. TxTypes'
  BY <1>0, <1>3, TxParts DEF TxTypes, dev, xmit
<1>13. Room'
  <2>1. Resv' = Resv /\ Resv \in Nat
    BY <1>0, TxParts DEF Resv, xmit
  <2> QED
    BY <1>2, <1>3, <2>1, TxParts DEF Room
<1>14. ClosedQuiet'
  BY <1>0, TxParts DEF ClosedQuiet, xmit
<1>15. FirstTaken
  <2> DEFINE gone == D_IDX(rd_p + 0)
  <2>1. \A j, m \in 0 .. Cnt - 1 : D_IDX(rd_p + j) = D_IDX(rd_p + m) => j = m
    BY <1>1, Entries, Zenon
  <2>2. Window = {D_IDX(rd_p + k) : k \in 0 .. Used - 1}
    BY DEF Window
  <2>3. Window' = {D_IDX(rd_p' + k) : k \in 0 .. Used - 2}
    <3>1. Window' = {D_IDX(rd_p' + k) : k \in 0 .. Used' - 1}
      BY <1>0 DEF Window, D_IDX
    <3>2. Used' - 1 = Used - 2
      BY <1>2, <1>3
    <3> QED
      BY <3>1, <3>2
  <2>4. ASSUME NEW i \in Window' PROVE i \in Window /\ i # gone
    <3>1. PICK k \in 0 .. Used - 2 : i = D_IDX(rd_p' + k)
      BY <2>3
    <3>2. k \in Int /\ 1 + k \in 0 .. Used - 1 /\ 1 + k \in 0 .. Cnt - 1 /\ 0 \in 0 .. Cnt - 1 /\ 1 + k # 0
      BY <1>2
    <3>3. i = D_IDX(rd_p + (1 + k))
      BY <1>4, <3>1, <3>2
    <3> QED
      BY <2>1, <2>2, <3>2, <3>3
  <2>5. ASSUME NEW i \in Window, i # gone PROVE i \in Window'
    <3>1. PICK k \in 0 .. Used - 1 : i = D_IDX(rd_p + k)
      BY <2>2
    <3>2. k # 0
      BY <2>5, <3>1
    <3>3. k - 1 \in 0 .. Used - 2 /\ k - 1 \in Int /\ 1 + (k - 1) = k
      BY <1>2, <3>2
    <3>4. D_IDX(rd_p' + (k - 1)) = D_IDX(rd_p + k)
      BY <1>4, <3>3
    <3> QED
      BY <2>3, <3>1, <3>3, <3>4
  <2>6. gone \in Window
    BY <1>2, <2>2
  <2>7. Cleaned' = gone
    <3>1. -1 \in Int /\ 1 + (-1) = 0 /\ rd_p' - 1 = rd_p' + (-1)
      BY <1>3
    <3>2. Cleaned' = D_IDX(rd_p' - 1)
      BY DEF Cleaned, D_IDX
    <3> QED
      BY <1>4, <3>1, <3>2
  <2> HIDE DEF gone
  <2>8. LastPieces(Window)' = LastPieces(Window) \ {gone}
    BY <1>0, <2>4, <2>5 DEF LastPieces
  <2>9. InClean = 0 /\ InClean' = IF gone \in LastPieces(Window) THEN 1 ELSE 0
    BY <1>0, <2>6, <2>7 DEF InClean, LastPieces
  <2> QED
    BY <2>8, <2>9 DEF FirstTaken
<1> QED
  BY <1>8, <1>10, <1>11, <1>12, <1>13, <1>14, <1>15 DEF TxInv


\* The entry passed, the last one, is emptied.
LEMMA TxClean == ASSUME TxInv, Clean PROVE TxInv' /\ LastPieces(Window)' = LastPieces(Window)
<1> USE Sizes
<1>0. /\ npc = "clean" /\ todo' = todo - 1 /\ npc' = (IF todo = 1 THEN "done" ELSE "take")
      /\ txbufs' = [txbufs EXCEPT ![Cleaned] = NoBuf]
      /\ UNCHANGED <<wr_p, rd_p, qcp_rd_p, wr_ptr_add, dev, phase, xmit, qcp>>
  BY DEF Clean
<1>t. /\ TxTypes /\ rd_p \in Int /\ txbufs \in [Slots -> Pieces]
      /\ todo - 1 \in 0 .. Done /\ qcp = D_IDX(rd_p + (todo - 1)) /\ todo \in Slots
  <2>1. TxTypes /\ NapiPlaces
    BY TxParts
  <2> QED
    BY <1>0, <2>1, SMTT(30) DEF TxTypes, NapiPlaces
<1>1. /\ Used \in 0 .. Cnt - 1 /\ Filled \in Nat /\ Used + Filled < Cnt /\ Used' = Used
      /\ Filled' = Filled /\ nr' = nr
  <2>1. Used \in 0 .. Cnt - 1 /\ Used + Resv < Cnt /\ Filled \in Nat /\ Filled <= Resv /\ Resv \in Nat
    BY TxParts, FilledFits DEF Resv
  <2>2. Used' = Used /\ Filled' = Filled /\ nr' = nr
    BY <1>0 DEF Used, Filled, xmit
  <2> QED
    BY <2>1, <2>2
<1>2. Cleaned = D_IDX(rd_p + (Cnt - 1)) /\ Cleaned \in Slots
  <2>1. Cnt - 1 \in Int
    OBVIOUS
  <2>2. Cleaned = D_IDX(rd_p + (Cnt - 1))
    BY <1>t, TxPlaces
  <2> QED
    BY <1>t, <2>1, <2>2, Entries, Zenon
<1>3. \A j, k \in 0 .. Cnt - 1 : D_IDX(rd_p + j) = D_IDX(rd_p + k) => j = k
  BY <1>t, Entries, Zenon
<1>4. \A j \in 0 .. Cnt - 1 : Ring'[j] = txbufs'[D_IDX(rd_p + j)] /\ Ring[j] = txbufs[D_IDX(rd_p + j)]
  BY <1>0 DEF Ring, D_IDX
<1>5. \A j \in 0 .. Cnt - 1 : D_IDX(rd_p + j) \in Slots
  <2>1. \A j \in Int : D_IDX(rd_p + j) \in Slots
    BY <1>t, Entries
  <2> QED
    BY <2>1
<1>6. ASSUME NEW j \in 0 .. Cnt - 2 PROVE Ring'[j] = Ring[j]
  <2>1. j \in 0 .. Cnt - 1 /\ Cnt - 1 \in 0 .. Cnt - 1 /\ j # Cnt - 1
    OBVIOUS
  <2>2. D_IDX(rd_p + j) # Cleaned
    BY <1>2, <1>3, <2>1
  <2>3. txbufs'[D_IDX(rd_p + j)] = txbufs[D_IDX(rd_p + j)]
    BY <1>0, <1>5, <1>t, <2>1, <2>2
  <2> QED
    BY <1>4, <2>1, <2>3
<1>7. Ring'[Cnt - 1] = NoBuf
  <2>1. txbufs'[Cleaned] = NoBuf
    BY <1>0, <1>2, <1>t
  <2> QED
    BY <1>2, <1>4, <2>1
<1>8. Shape'
  <2>1. /\ \A k \in 0 .. Used - 1 : Ring'[k] = Ring[k]
        /\ \A j \in 0 .. Filled - 1 : Ring'[Used + j] = Ring[Used + j]
    BY <1>1, <1>6, SMTT(30)
  <2>2. /\ \A k \in 0 .. Used - 1 : Ring'[k] # NoBuf
        /\ Used > 0 => LastPiece(Ring'[Used - 1])
        /\ \A k \in 1 .. Used - 1 : Follows(Ring'[k - 1], Ring'[k])
    BY <1>1, <2>1, TxParts, SMTT(30) DEF Shape
  <2>3. \A j \in 0 .. Filled' - 1 : Ring'[Used' + j] = Piece(nr', j)
    BY <1>1, <2>1, TxParts, Zenon DEF Shape
  <2>4. \A k \in Used + Filled .. Cnt - 1 : Ring'[k] = NoBuf
    <3> SUFFICES ASSUME NEW k \in Used + Filled .. Cnt - 1 PROVE Ring'[k] = NoBuf
      OBVIOUS
    <3>1. CASE k = Cnt - 1
      BY <1>7, <3>1
    <3>2. CASE k # Cnt - 1
      <4>1. k \in 0 .. Cnt - 2
        BY <1>1, <3>2
      <4>2. Ring[k] = NoBuf
        BY <3>2, TxParts DEF Shape
      <4> QED
        BY <1>6, <4>1, <4>2
    <3> QED
      BY <3>1, <3>2
  <2> QED
    BY <1>1, <2>2, <2>3, <2>4 DEF Shape
<1>9. LastPieces(Window)' = LastPieces(Window)
  <2>1. Cleaned \notin Window
    <3> SUFFICES ASSUME Cleaned \in Window PROVE FALSE
      OBVIOUS
    <3>1. PICK k \in 0 .. Used - 1 : Cleaned = D_IDX(rd_p + k)
      BY DEF Window
    <3>2. k \in 0 .. Cnt - 1 /\ Cnt - 1 \in 0 .. Cnt - 1 /\ k # Cnt - 1
      BY <1>1
    <3> QED
      BY <1>2, <1>3, <3>1, <3>2
  <2>2. \A i \in Window : txbufs'[i] = txbufs[i]
    <3>1. Window \subseteq Slots
      BY <1>1, <1>5, SMTT(30) DEF Window
    <3> QED
      BY <1>0, <1>t, <2>1, <3>1
  <2>3. Window' = Window
    BY <1>0, SMTT(30) DEF Window, Used, D_IDX
  <2> QED
    BY <2>2, <2>3 DEF LastPieces, LastPiece
<1>10. FwPlaces'
  BY <1>0, TxParts, FwFrame DEF dev, xmit, Pend
<1>11. NapiPlaces'
  <2>1. Done' = Done /\ rd_p' = rd_p
    BY <1>0 DEF Done, D_IDX, dev
  <2>2. CASE todo = 1
    <3>1. rd_p + (todo - 1) = rd_p
      BY <1>t, <2>2
    <3>2. qcp' = D_IDX(rd_p)'
      BY <1>0, <1>t, <2>1, <3>1 DEF D_IDX
    <3> QED
      BY <1>0, <2>2, <3>2 DEF NapiPlaces
  <2>3. CASE todo # 1
    <3>1. todo' \in 1 .. Done'
      BY <1>0, <1>t, <2>1, <2>3, TxParts, SMTT(30) DEF Slots
    <3>2. qcp' = D_IDX(rd_p + todo)'
      BY <1>0, <1>t, <2>1, SMTT(30) DEF D_IDX
    <3> QED
      BY <1>0, <2>3, <3>1, <3>2 DEF NapiPlaces
  <2> QED
    BY <2>2, <2>3
<1>12. TxTypes'
  <2>1. NoBuf \in Pieces
    BY DEF NoBuf, Pieces
  <2>2. txbufs' \in [Slots -> Pieces]
    BY <1>0, <1>t, <2>1, Zenon
  <2>3. todo' \in Slots
    BY <1>0, <1>t, TxParts, SMTT(30) DEF Slots
  <2> QED
    BY <1>0, <2>2, <2>3, TxParts DEF TxTypes, dev, xmit
<1>13. Room'
  BY <1>0, <1>1, TxParts DEF Room, Resv, xmit
<1>14. ClosedQuiet'
  BY <1>0, TxParts DEF ClosedQuiet, xmit
<1> QED
  BY <1>8, <1>9, <1>10, <1>11, <1>12, <1>13, <1>14, SMTT(30) DEF TxInv

\* Nothing in use, nothing held: the ring as Init and the reset leave it.
Fresh ==
    /\ wr_p = 0 /\ rd_p = 0 /\ qcp_rd_p = 0 /\ wr_ptr_add = 0 /\ fw_wr = 0 /\ fw_rd = 0
    /\ txbufs = [i \in Slots |-> NoBuf] /\ xpc = "idle" /\ npc = "idle"
    /\ nr \in 0 .. MaxFrags /\ f \in 0 .. MaxFrags + 1 /\ todo \in Slots /\ qcp \in Slots

LEMMA TxFresh == Fresh => TxInv
<1> SUFFICES ASSUME Fresh PROVE TxInv
  OBVIOUS
<1> USE Sizes DEF Fresh
<1>1. 0 \in Slots /\ 0 \in 0 .. Word - 1 /\ 0 % Cnt = 0 /\ 0 % Word = 0 /\ 0 - 0 = 0
  BY DEF Slots
<1>2. Used = 0 /\ Done = 0 /\ Told = 0 /\ Pend = 0 /\ Resv = 0 /\ Filled = 0
  BY <1>1 DEF Used, Done, Told, Pend, Resv, Filled, D_IDX
<1>3. TxTypes
  <2>1. NoBuf \in Pieces
    BY DEF NoBuf, Pieces
  <2> QED
    BY <1>1, <2>1 DEF TxTypes
<1>4. Shape
  <2>1. \A k \in Int : D_IDX(0 + k) \in Slots
    <3>1. 0 \in Int
      OBVIOUS
    <3> QED
      BY <3>1, Entries, Zenon
  <2>2. \A k \in 0 .. Cnt - 1 : Ring[k] = NoBuf
    BY <2>1 DEF Ring
  <2> QED
    BY <1>2, <2>2 DEF Shape
<1>6. FwPlaces /\ Room
  BY <1>2 DEF FwPlaces, Room
<1>7. NapiPlaces
  BY <1>1 DEF NapiPlaces, D_IDX
<1>8. ClosedQuiet
  BY DEF ClosedQuiet
<1> QED
  BY <1>3, <1>4, <1>6, <1>7, <1>8 DEF TxInv

\* nfp_nfd3_tx_ring_reset() empties what is in use, and that is all there is.
LEMMA TxReset == ASSUME TxInv, Reset PROVE TxInv'
<1> USE Sizes
<1>0. /\ phase = "tx_off"
      /\ txbufs' = [i \in Slots |-> IF i \in Window THEN NoBuf ELSE txbufs[i]]
      /\ wr_p' = 0 /\ rd_p' = 0 /\ qcp_rd_p' = 0 /\ wr_ptr_add' = 0 /\ fw_wr' = 0 /\ fw_rd' = 0
      /\ UNCHANGED <<xmit, napi>>
  BY DEF Reset
<1>1. xpc = "idle" /\ npc = "idle" /\ Filled = 0
  BY <1>0, TxParts DEF ClosedQuiet, Filled
<1>3. ASSUME NEW i \in Slots, i \notin Window PROVE txbufs[i] = NoBuf
  <2>1. PICK k \in 0 .. Cnt - 1 : i = D_IDX(rd_p + k)
    BY TxParts, TxPlaces
  <2>2. ~(k \in 0 .. Used - 1)
    BY <1>3, <2>1 DEF Window
  <2>3. k \in Used + Filled .. Cnt - 1
    BY <1>1, <2>2, TxParts
  <2>4. Ring[k] = NoBuf
    BY <1>1, <2>3, TxParts DEF Shape
  <2> QED
    BY <2>1, <2>4 DEF Ring
<1>4. txbufs' = [i \in Slots |-> NoBuf]
  BY <1>0, <1>3
<1>5. Fresh'
  BY <1>0, <1>1, <1>4, TxParts DEF Fresh, xmit, napi, TxTypes
<1>6. Fresh' => TxInv'
  BY TxFresh, PTL
<1> QED
  BY <1>5, <1>6

LEMMA TxInit == Init => TxInv
<1>1. Init => Fresh
  BY TxConstants DEF Init, Fresh, Slots
<1> QED
  BY <1>1, TxFresh

LEMMA TxNext == TxInv /\ [Next]_vars => TxInv'
<1> SUFFICES ASSUME TxInv, [Next]_vars PROVE TxInv'
  OBVIOUS
<1>1. ASSUME NEW n \in 0 .. MaxFrags, NEW m \in BOOLEAN, Xmit(n, m) PROVE TxInv'
  BY <1>1, TxXmit
<1>2. CASE XmitBusy
  BY <1>2, TxXmitBusy
<1>3. CASE PrepareFails
  BY <1>3, TxPrepareFails
<1>4. ASSUME NEW n \in 0 .. MaxFrags, NEW k \in 0 .. n + 1, Map(n, k) PROVE TxInv'
  BY <1>4, TxMap
<1>5. CASE Unmap
  BY <1>5, TxUnmap
<1>6. CASE Publish
  BY <1>6, TxPublish
<1>7. CASE StopQueue \/ Recheck
  BY <1>7, TxStopQueue, SMTT(30)
<1>8. CASE SentQueue
  BY <1>8, TxSentQueue
<1>9. CASE Poll
  BY <1>9, TxPoll
<1>10. CASE Take
  BY <1>10, TxTake
<1>11. CASE Clean
  BY <1>11, TxClean
<1>12. CASE Completed
  BY <1>12, TxCompleted
<1>13. CASE WakeQueue
  BY <1>13, TxWakeQueue
<1>14. CASE FwTransmit
  BY <1>14, TxFwTransmit
<1>15. CASE CloseNapi \/ CloseTx \/ Open
  BY <1>15, TxOpenClose
<1>16. CASE Reset
  BY <1>16, TxReset
<1>17. CASE UNCHANGED vars
  <2>1. UNCHANGED <<ring, dev, phase, xmit, napi>>
    BY <1>17 DEF vars
  <2>2. Resv' = Resv /\ Filled' = Filled /\ Pend' = Pend
    BY <2>1 DEF Resv, Filled, Pend, xmit
  <2>3. TxTypes'
    BY <2>1, TxParts DEF TxTypes, ring, dev, napi, xmit
  <2>4. NapiPlaces'
    BY <2>1, TxParts, NapiFrame DEF ring, dev, napi
  <2>5. ClosedQuiet'
    BY <2>1, TxParts DEF ClosedQuiet, napi, xmit
  <2>6. Room'
    BY <2>1, <2>2, TxParts, TxFrame DEF Room, ring
  <2>7. Shape'
    BY <2>1, <2>2, TxParts, ShapeFrame DEF ring, napi, xmit
  <2>9. FwPlaces'
    BY <2>1, <2>2, TxParts, FwFrame DEF ring, dev
  <2> QED
    BY <2>3, <2>4, <2>5, <2>6, <2>7, <2>9 DEF TxInv
<1> QED
  BY <1>1, <1>2, <1>3, <1>4, <1>5, <1>6, <1>7, <1>8, <1>9, <1>10, <1>11, <1>12, <1>13, <1>14,
     <1>15, <1>16, <1>17, Zenon, ZenonT(30) DEF Next, XmitStep, NapiStep


-----------------------------------------------------------------------------
(***************************************************************************)
(* Nobody is left waiting.  The stack calls the driver only while the      *)
(* queue runs, so that only nfp_nfd3_tx_ring_stop() finds it stopped; the  *)
(* tests for room of the stop and of the completion both see a descriptor  *)
(* still to be completed when they leave the queue stopped.                *)
(***************************************************************************)
RunsWhileCalled == xpc \in {"busy", "prep", "unmap", "publish", "stop"} => ~stopped
WInv == NothingWaitsForNobody /\ RunsWhileCalled

\* A ring without room for a packet of four times the size has packets on it.
LEMMA NotWokenNotEmpty == ASSUME TxInv, ~ShouldWake PROVE Used > 0
<1> USE Sizes
<1>1. Cnt - MaxFrags * 4 \in 0 .. Word - 1 /\ Cnt - MaxFrags * 4 > 0
  BY TxConstants
<1>2. (Cnt - MaxFrags * 4) % Word = Cnt - MaxFrags * 4
  BY <1>1, ModUnique
<1> QED
  BY <1>1, <1>2, TxParts DEF ShouldWake, TxFull

LEMMA WaitNext == TxInv /\ TxInv' /\ WInv /\ [Next]_vars => WInv'
<1> SUFFICES ASSUME TxInv, TxInv', WInv, [Next]_vars PROVE WInv'
  OBVIOUS
<1> USE DEF WInv, NothingWaitsForNobody, NothingStranded, StoppedHasWaker, RunsWhileCalled
<1>1. ASSUME NEW n \in 0 .. MaxFrags, NEW m \in BOOLEAN, Xmit(n, m) PROVE WInv'
  BY <1>1 DEF Xmit, ring, queue, napi
<1>2. CASE XmitBusy
  BY <1>2 DEF XmitBusy, Flush, XReturn
<1>3. CASE PrepareFails
  BY <1>3, SMTT(30) DEF PrepareFails, Flush, XReturn, queue
<1>4. ASSUME NEW n \in 0 .. MaxFrags, NEW k \in 0 .. n + 1, Map(n, k) PROVE WInv'
  BY <1>4 DEF Map, queue
<1>5. CASE Unmap
  BY <1>5 DEF Unmap, Flush, XReturn, queue
<1>6. CASE Publish
  BY <1>6 DEF Publish, queue
<1>7. CASE StopQueue
  BY <1>7 DEF StopQueue
<1>8. CASE Recheck
  <2>1. Used' = Used
    BY <1>8 DEF Recheck, Used, ring
  <2> QED
    BY <1>8, <2>1, NotWokenNotEmpty, Zenon DEF Recheck, ring, napi
<1>9. CASE SentQueue
  <2>1. Used' = Used
    BY <1>9 DEF SentQueue, Used
  <2> QED
    BY <1>9, <2>1, Zenon DEF SentQueue, XReturn, Flush, Doorbell, queue, napi
<1>10. CASE Poll
  BY <1>10 DEF Poll, ring, queue, xmit
<1>11. CASE Take
  BY <1>11 DEF Take, queue, xmit
<1>12. CASE Clean
  BY <1>12 DEF Clean, queue, xmit
<1>13. CASE Completed
  <2>1. Used' = Used
    BY <1>13 DEF Completed, Used
  <2> QED
    BY <1>13, <2>1, NotWokenNotEmpty DEF Completed, queue, xmit
<1>14. CASE WakeQueue
  BY <1>14 DEF WakeQueue, ring, xmit
<1>15. CASE FwTransmit
  <2>1. Used' = Used
    BY <1>15 DEF FwTransmit, Used, ring
  <2> QED
    BY <1>15, <2>1 DEF FwTransmit, ring, queue, xmit, napi
<1>16. CASE CloseNapi \/ CloseTx \/ Open
  <2>1. CASE CloseNapi
    BY <2>1 DEF CloseNapi, ring, queue, xmit
  <2>2. CASE CloseTx
    BY <2>2 DEF CloseTx, ring, queue, xmit
  <2>3. CASE Open
    BY <2>3 DEF Open, ring, queue, xmit
  <2> QED
    BY <1>16, <2>1, <2>2, <2>3
<1>17. CASE Reset
  BY <1>17 DEF Reset, queue, xmit
<1>18. CASE UNCHANGED vars
  <2>1. Used' = Used
    BY <1>18 DEF vars, Used, ring
  <2> QED
    BY <1>18, <2>1 DEF vars, ring, queue, xmit, napi
<1> QED
  BY <1>1, <1>2, <1>3, <1>4, <1>5, <1>6, <1>7, <1>8, <1>9, <1>10, <1>11, <1>12, <1>13, <1>14,
     <1>15, <1>16, <1>17, <1>18, Zenon, ZenonT(30) DEF Next, XmitStep, NapiStep

LEMMA TxAlways == Spec => []TxInv
BY TxInit, TxNext, PTL DEF Spec

\* Whenever the stack has nothing more to send the device has been told of
\* every descriptor, and a queue nfp_nfd3_tx_ring_stop() stopped has a packet
\* to be completed or a completion that has yet to look at it.
THEOREM TransmitNobodyForgotten == Spec => []NothingWaitsForNobody
<1>1. Init => WInv
  BY DEF Init, WInv, NothingWaitsForNobody, NothingStranded, StoppedHasWaker, RunsWhileCalled
<1>2. WInv => NothingWaitsForNobody
  BY DEF WInv
<1> QED
  BY <1>1, <1>2, WaitNext, TxAlways, PTL DEF Spec

=============================================================================

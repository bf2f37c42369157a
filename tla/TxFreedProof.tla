---------------------------- MODULE TxFreedProof ----------------------------
(***************************************************************************)
(* Every packet given to the transmit ring of TxRing is freed once, for a  *)
(* ring of any size.  The ring holds one last piece to a packet; what each *)
(* step does to the set of them (TxRingProof) is what it does to their     *)
(* number.                                                                 *)
(***************************************************************************)
EXTENDS TxRingProof, FiniteSetTheorems

Lasts == LastPieces(Window)

LEMMA LastsFinite ==
    ASSUME TxInv
    PROVE  IsFiniteSet(Lasts) /\ Cardinality(Lasts) \in Nat
<1>1. IsFiniteSet(Slots)
  BY FS_Interval, TxConstants DEF Slots
<1>2. IsFiniteSet(Lasts)
  BY <1>1, LastsWithin, FS_Subset DEF Lasts
<1> QED
  BY <1>2, FS_CardinalityType

\* What is held besides the packets of the ring
LEMMA HeldTypes == InTx \in {0, 1} /\ InClean \in {0, 1}
BY DEF InTx, InClean

\* The steps that neither accept nor free, and leave the ring's packets alone
LEMMA FreedFrame ==
    ASSUME PacketsFreedOnce, UNCHANGED <<wr_p, rd_p, txbufs, skbs>>, InTx' = InTx,
           (npc' = "clean") = (npc = "clean")
    PROVE  PacketsFreedOnce'
<1>1. LastPieces(Window)' = LastPieces(Window) /\ Cleaned' = Cleaned
  BY TxFrame
<1>2. InClean' = InClean
  BY <1>1 DEF InClean
<1> QED
  BY <1>1, <1>2 DEF PacketsFreedOnce

LEMMA FreedQuiet ==
    ASSUME PacketsFreedOnce,
           \/ \E n \in 0 .. MaxFrags, m \in BOOLEAN : Xmit(n, m)
           \/ XmitBusy \/ PrepareFails \/ StopQueue \/ Recheck \/ SentQueue
           \/ Poll \/ Completed \/ WakeQueue \/ FwTransmit
           \/ CloseNapi \/ CloseTx \/ Open \/ UNCHANGED vars
    PROVE  PacketsFreedOnce'
<1> USE FreedFrame DEF InTx, ring, napi, xmit
<1>1. ASSUME NEW n \in 0 .. MaxFrags, NEW m \in BOOLEAN, Xmit(n, m) PROVE PacketsFreedOnce'
  BY <1>1 DEF Xmit
<1>2. CASE XmitBusy
  BY <1>2 DEF XmitBusy, XReturn
<1>3. CASE PrepareFails
  BY <1>3 DEF PrepareFails, XReturn
<1>4. CASE StopQueue \/ Recheck
  BY <1>4 DEF StopQueue, Recheck
<1>5. CASE SentQueue
  BY <1>5 DEF SentQueue, XReturn
<1>6. CASE Poll
  BY <1>6 DEF Poll
<1>7. CASE Completed \/ WakeQueue
  BY <1>7 DEF Completed, WakeQueue
<1>8. CASE FwTransmit
  BY <1>8 DEF FwTransmit
<1>9. CASE CloseNapi \/ CloseTx \/ Open
  BY <1>9 DEF CloseNapi, CloseTx, Open
<1>10. CASE UNCHANGED vars
  BY <1>10 DEF vars
<1> QED
  BY <1>1, <1>2, <1>3, <1>4, <1>5, <1>6, <1>7, <1>8, <1>9, <1>10, Zenon

-----------------------------------------------------------------------------
(* The steps that accept a packet, pass it on, or free it. *)

\* A packet accepted is held by the call that maps it, and so no longer when
\* the call gives it up.
LEMMA FreedMap ==
    ASSUME TxInv, PacketsFreedOnce, NEW n \in 0 .. MaxFrags, NEW k \in 0 .. n + 1, Map(n, k)
    PROVE  PacketsFreedOnce'
<1>1. Lasts' = Lasts /\ InClean' = InClean
  BY TxMap DEF SameLasts, Lasts
<1>2. skbs' = skbs + 1 /\ InTx = 0 /\ InTx' = 1
  BY DEF Map, InTx
<1> QED
  BY <1>1, <1>2, LastsFinite, HeldTypes DEF PacketsFreedOnce, Lasts

LEMMA FreedUnmap == ASSUME TxInv, PacketsFreedOnce, Unmap PROVE PacketsFreedOnce'
<1>1. Lasts' = Lasts /\ InClean' = InClean
  BY TxUnmap DEF SameLasts, Lasts
<1>2. skbs' = skbs - 1 /\ InTx = 1 /\ InTx' = 0
  BY DEF Unmap, XReturn, InTx
<1> QED
  BY <1>1, <1>2, LastsFinite, HeldTypes DEF PacketsFreedOnce, Lasts

\* From the call to the ring
LEMMA FreedPublish == ASSUME TxInv, PacketsFreedOnce, Publish PROVE PacketsFreedOnce'
<1>1. InClean' = InClean /\ \E i : i \notin Lasts /\ Lasts' = Lasts \cup {i}
  BY TxPublish DEF OneMoreLast, Lasts
<1>2. PICK i : i \notin Lasts /\ Lasts' = Lasts \cup {i}
  BY <1>1
<1>3. Cardinality(Lasts \cup {i}) = Cardinality(Lasts) + 1
  BY <1>2, LastsFinite, FS_AddElement
<1>4. Cardinality(Lasts)' = Cardinality(Lasts) + 1
  BY <1>2, <1>3
<1>5. skbs' = skbs /\ InTx = 1 /\ InTx' = 0
  BY DEF Publish, InTx
<1> QED
  BY <1>1, <1>4, <1>5, LastsFinite, HeldTypes DEF PacketsFreedOnce, Lasts

\* From the ring to the completion, when its last piece is reached
LEMMA FreedTake == ASSUME TxInv, PacketsFreedOnce, Take PROVE PacketsFreedOnce'
<1>1. /\ InClean = 0
      /\ \E i : Lasts' = Lasts \ {i} /\ InClean' = IF i \in Lasts THEN 1 ELSE 0
  BY TxTake DEF FirstTaken, Lasts
<1>2. PICK i : Lasts' = Lasts \ {i} /\ InClean' = IF i \in Lasts THEN 1 ELSE 0
  BY <1>1
<1>3. Cardinality(Lasts \ {i}) = IF i \in Lasts THEN Cardinality(Lasts) - 1 ELSE Cardinality(Lasts)
  BY LastsFinite, FS_RemoveElement
<1>4. Cardinality(Lasts)' = IF i \in Lasts THEN Cardinality(Lasts) - 1 ELSE Cardinality(Lasts)
  BY <1>2, <1>3
<1>5. skbs' = skbs /\ InTx' = InTx
  BY DEF Take, InTx, xmit
<1> QED
  BY <1>1, <1>2, <1>4, <1>5, LastsFinite, HeldTypes DEF PacketsFreedOnce, Lasts

\* The completion of the last piece frees the packet.
LEMMA FreedClean == ASSUME TxInv, PacketsFreedOnce, Clean PROVE PacketsFreedOnce'
<1>1. Lasts' = Lasts
  BY TxClean DEF Lasts
<1>2. InTx' = InTx /\ InClean' = 0 /\ skbs' = skbs - InClean
  <2>1. skbs \in Int
    BY LastsFinite, HeldTypes DEF PacketsFreedOnce, Lasts
  <2> QED
    BY <2>1 DEF Clean, InTx, InClean, xmit
<1> QED
  BY <1>1, <1>2, LastsFinite, HeldTypes DEF PacketsFreedOnce, Lasts

\* The reset frees what is left, when no call and no completion runs.
LEMMA FreedReset == ASSUME TxInv, PacketsFreedOnce, Reset PROVE PacketsFreedOnce'
<1>1. xpc = "idle" /\ npc = "idle" /\ xpc' = xpc /\ npc' = npc
  BY TxParts DEF Reset, ClosedQuiet, xmit, napi
<1>2. InTx = 0 /\ InClean = 0 /\ InTx' = 0 /\ InClean' = 0
  BY <1>1 DEF InTx, InClean
<1>3. skbs' = 0
  BY <1>2, LastsFinite DEF Reset, PacketsFreedOnce, Lasts
<1>4. Used' = 0
  BY Sizes DEF Reset, Used
<1>5. Lasts' = {}
  BY <1>4 DEF Lasts, LastPieces, Window
<1>6. Cardinality(Lasts)' = 0
  BY <1>5, FS_EmptySet
<1> QED
  BY <1>2, <1>3, <1>6 DEF PacketsFreedOnce, Lasts

-----------------------------------------------------------------------------
LEMMA FreedInit == Init => PacketsFreedOnce
<1> SUFFICES ASSUME Init PROVE PacketsFreedOnce
  OBVIOUS
<1>1. Used = 0 /\ skbs = 0 /\ InTx = 0 /\ InClean = 0
  BY Sizes DEF Init, Used, InTx, InClean
<1>2. Lasts = {}
  BY <1>1 DEF Lasts, LastPieces, Window
<1>3. Cardinality(Lasts) = 0
  BY <1>2, FS_EmptySet
<1> QED
  BY <1>1, <1>3 DEF PacketsFreedOnce, Lasts

LEMMA FreedNext == TxInv /\ PacketsFreedOnce /\ [Next]_vars => PacketsFreedOnce'
<1> SUFFICES ASSUME TxInv, PacketsFreedOnce, [Next]_vars PROVE PacketsFreedOnce'
  OBVIOUS
<1>1. ASSUME NEW n \in 0 .. MaxFrags, NEW k \in 0 .. n + 1, Map(n, k) PROVE PacketsFreedOnce'
  BY <1>1, FreedMap
<1>2. CASE Unmap
  BY <1>2, FreedUnmap
<1>3. CASE Publish
  BY <1>3, FreedPublish
<1>4. CASE Take
  BY <1>4, FreedTake
<1>5. CASE Clean
  BY <1>5, FreedClean
<1>6. CASE Reset
  BY <1>6, FreedReset
<1> QED
  BY <1>1, <1>2, <1>3, <1>4, <1>5, <1>6, FreedQuiet, ZenonT(30) DEF Next, XmitStep, NapiStep

\* nfp_nfd3_tx(), nfp_nfd3_tx_complete() and the firmware may interleave as
\* they like on a ring of any size: no descriptor is overwritten before it is
\* cleaned, the device sees whole packets only, and each packet is freed once.
THEOREM TransmitRingSound == Spec => []TxSound
<1>1. TxInv /\ PacketsFreedOnce => TxSound
  BY TxInvSound DEF TxSound
<1> QED
  BY <1>1, FreedInit, FreedNext, TxAlways, PTL DEF Spec

=============================================================================

------------------------------- MODULE TxRing -------------------------------
(***************************************************************************)
(* One transmit ring of the NFD3 datapath (nfd3/dp.c, nfd3/rings.c).       *)
(*                                                                         *)
(* Three actors share the ring without a lock: the stack, which calls      *)
(* nfp_nfd3_tx() with the lock of the netdev queue held; NAPI, which calls *)
(* nfp_nfd3_tx_complete(); and the firmware, which fetches descriptors up  *)
(* to its write pointer and advances its read pointer.  The stack writes   *)
(* wr_p and NAPI writes rd_p; each reads the other's pointer whenever it   *)
(* likes.  The memory barriers of nfp_nfd3_tx_ring_stop() and of the       *)
(* completion make the interleaving of the accesses to the pointers and to *)
(* the stopped bit sequentially consistent.                                *)
(*                                                                         *)
(* A packet is its number of fragments: its head and each fragment take a  *)
(* descriptor, whose soft part says which piece of which packet it holds.  *)
(***************************************************************************)
EXTENDS Integers, FiniteSets

CONSTANTS
    Cnt,        \* descriptors in the ring, a power of two
    Word,       \* 2^32: the free-running pointers are u32
    MaxFrags    \* MAX_SKB_FRAGS

\* nfp_net_set_ringparam() refuses rings below min_qc_size, 256 or more, and
\* MAX_SKB_FRAGS is 17.
ASSUME RingConstants ==
    /\ Cnt \in Nat \ {0} /\ Word \in Nat /\ Word >= 2 * Cnt /\ Word % Cnt = 0
    /\ MaxFrags \in Nat \ {0} /\ 4 * MaxFrags < Cnt

Slots == 0 .. Cnt - 1

VARIABLES
    wr_p, rd_p, \* the driver's pointers, free-running
    qcp_rd_p,   \* last value of the device's read pointer NAPI handled
    wr_ptr_add, \* descriptors the device has not been told of
    txbufs,     \* soft descriptors: [nr_frags, fidx], or NoBuf
    skbs,       \* packets the driver holds: accepted and not yet freed
    stopped,    \* __QUEUE_STATE_DRV_XOFF of the netdev queue
    busy,       \* history: it was the NETDEV_TX_BUSY path that stopped it
    fw_wr, fw_rd,       \* write and read pointer of the device's queue
    phase,      \* "up", "napi_off", "tx_off", "down": nfp_net_netdev_close()
    xpc, nr, f, more,   \* nfp_nfd3_tx(): step, nr_frags, pieces mapped, xmit_more
    expected,   \* the stack holds the queue's lock and has another packet
    npc, todo, qcp      \* nfp_nfd3_tx_complete(): step, todo, qcp_rd_p

ring == <<wr_p, rd_p, qcp_rd_p, wr_ptr_add, txbufs, skbs>>
queue == <<stopped, busy>>
dev  == <<fw_wr, fw_rd>>
xmit == <<xpc, nr, f, more, expected>>
napi == <<npc, todo, qcp>>
vars == <<ring, queue, dev, phase, xmit, napi>>

NoBuf == [nr_frags |-> 0, fidx |-> -2]

D_IDX(p) == p % Cnt
Inc(p, n) == (p + n) % Word
Used == (wr_p - rd_p) % Word

\* The comparison is on u32, and so is the difference on its right.
TxFullLate(dcnt) == Used > (Cnt - dcnt) % Word
TxFull(dcnt) == Used >= (Cnt - dcnt) % Word

ShouldWake == ~TxFull(MaxFrags * 4)
ShouldStop == TxFull(MaxFrags + 1)

Init ==
    /\ wr_p = 0 /\ rd_p = 0 /\ qcp_rd_p = 0 /\ wr_ptr_add = 0
    /\ txbufs = [i \in Slots |-> NoBuf]
    /\ skbs = 0
    /\ stopped = FALSE /\ busy = FALSE
    /\ fw_wr = 0 /\ fw_rd = 0
    /\ phase = "up"
    /\ xpc = "idle" /\ nr = 0 /\ f = 0 /\ more = FALSE /\ expected = FALSE
    /\ npc = "idle" /\ todo = 0 /\ qcp = 0

-----------------------------------------------------------------------------
(***************************************************************************)
(* nfp_nfd3_tx(), one call at a time.                                      *)
(***************************************************************************)

\* nfp_net_tx_xmit_more_flush(): the device learns of n more descriptors
Flush(n) == fw_wr' = (fw_wr + n) % Cnt /\ wr_ptr_add' = 0

XReturn(another) ==
    /\ xpc' = "idle" /\ nr' = 0 /\ f' = 0 /\ more' = FALSE
    /\ expected' = another

\* The stack calls the driver unless the queue is stopped.
Xmit(n, m) ==
    /\ xpc = "idle" /\ phase \in {"up", "napi_off"} /\ ~stopped
    /\ nr' = n /\ more' = m /\ UNCHANGED f
    /\ xpc' = IF TxFull(n + 1) THEN "busy" ELSE "prep"
    /\ UNCHANGED <<ring, queue, dev, phase, expected, napi>>

\* No room: NETDEV_TX_BUSY, and the stack gives up for now.
XmitBusy ==
    /\ xpc = "busy"
    /\ stopped' = TRUE /\ busy' = TRUE
    /\ Flush(wr_ptr_add)
    /\ XReturn(FALSE)
    /\ UNCHANGED <<wr_p, rd_p, qcp_rd_p, txbufs, skbs, fw_rd, phase, napi>>

\* nfp_net_tls_tx() or nfp_nfd3_prep_tx_meta() fails and the packet is freed.
\* The rest of the stack's packets, if any, still come.
PrepareFailsQuietly ==
    /\ xpc = "prep"
    /\ XReturn(more)
    /\ UNCHANGED <<ring, queue, dev, phase, napi>>
PrepareFails ==
    /\ xpc = "prep"
    /\ Flush(wr_ptr_add)
    /\ XReturn(more)
    /\ UNCHANGED <<wr_p, rd_p, qcp_rd_p, txbufs, skbs, queue, fw_rd, phase,
                   napi>>

\* The descriptors of the next k pieces of a packet
Target(k) == {D_IDX(wr_p + j) : j \in 0 .. k - 1}
PieceAt(i) == D_IDX(i - wr_p) - 1

\* nfp_net_tls_tx() may replace the packet by a linear one, of no fragments.
\* The first k of the n + 1 pieces are mapped and their descriptors filled in;
\* the next one, if there is one, cannot be mapped.
Map(n, k) ==
    /\ xpc = "prep" /\ n \in {nr, 0}
    /\ nr' = n /\ f' = k
    /\ skbs' = skbs + 1
    /\ txbufs' = [i \in Slots |-> IF i \in Target(k)
                                    THEN [nr_frags |-> n, fidx |-> PieceAt(i)]
                                    ELSE txbufs[i]]
    /\ xpc' = IF k = n + 1 THEN "publish" ELSE "unmap"
    /\ UNCHANGED <<wr_p, rd_p, qcp_rd_p, wr_ptr_add, queue, dev, phase, more,
                   expected, napi>>

\* err_unmap: the pieces already mapped are taken back, the packet is freed.
Unmap ==
    /\ xpc = "unmap"
    /\ txbufs' = [i \in Slots |-> IF i \in Target(f) THEN NoBuf ELSE txbufs[i]]
    /\ Flush(wr_ptr_add)
    /\ skbs' = skbs - 1
    /\ XReturn(more)
    /\ UNCHANGED <<wr_p, rd_p, qcp_rd_p, queue, fw_rd, phase, napi>>

\* wr_p += nr_frags + 1, and the check whether the ring is nearly full
Publish ==
    /\ xpc = "publish"
    /\ wr_p' = Inc(wr_p, nr + 1)
    /\ UNCHANGED <<rd_p, qcp_rd_p, wr_ptr_add, txbufs, skbs, queue, dev,
                   phase, nr, more, expected, napi>>
    /\ xpc' = IF ShouldStop' THEN "stop" ELSE "sent"
    /\ f' = 0

\* nfp_nfd3_tx_ring_stop()
StopQueue ==
    /\ xpc = "stop"
    /\ stopped' = TRUE /\ busy' = FALSE
    /\ xpc' = "recheck"
    /\ UNCHANGED <<ring, dev, phase, nr, f, more, expected, napi>>

Recheck ==
    /\ xpc = "recheck"
    /\ stopped' = (stopped /\ ~ShouldWake)
    /\ xpc' = "sent"
    /\ UNCHANGED <<ring, busy, dev, phase, nr, f, more, expected, napi>>

\* __netdev_tx_sent_queue() asks for the doorbell when no packet follows or
\* the queue is stopped; the stack does not continue on a stopped queue.
DoorbellAtEnd == ~more
Doorbell == ~more \/ stopped
SentQueue ==
    /\ xpc = "sent"
    /\ IF Doorbell
         THEN Flush(wr_ptr_add + nr + 1)
         ELSE wr_ptr_add' = wr_ptr_add + nr + 1 /\ UNCHANGED fw_wr
    /\ XReturn(more /\ ~stopped)
    /\ UNCHANGED <<wr_p, rd_p, qcp_rd_p, txbufs, skbs, queue, fw_rd, phase,
                   napi>>

-----------------------------------------------------------------------------
(***************************************************************************)
(* nfp_nfd3_tx_complete(), called from the NAPI poll of the ring's vector. *)
(***************************************************************************)

\* Nothing sent, or nothing new completed: return.
Poll ==
    /\ npc = "idle" /\ phase = "up"
    /\ wr_p # rd_p /\ fw_rd # qcp_rd_p
    /\ qcp' = fw_rd
    /\ todo' = D_IDX(fw_rd - qcp_rd_p)
    /\ npc' = "take"
    /\ UNCHANGED <<ring, queue, dev, phase, xmit>>

\* idx = D_IDX(tx_ring, tx_ring->rd_p++)
Take ==
    /\ npc = "take"
    /\ rd_p' = Inc(rd_p, 1)
    /\ npc' = "clean"
    /\ UNCHANGED <<wr_p, qcp_rd_p, wr_ptr_add, txbufs, skbs, queue, dev,
                   phase, xmit, todo, qcp>>

\* The descriptor that rd_p has just passed
Cleaned == D_IDX(rd_p - 1)

\* The last piece of a packet frees it.
LastPiece(b) == b # NoBuf /\ b.fidx = b.nr_frags - 1
HeadPiece(b) == b # NoBuf /\ b.fidx = -1
Clean ==
    /\ npc = "clean"
    /\ skbs' = IF LastPiece(txbufs[Cleaned]) THEN skbs - 1 ELSE skbs
    /\ txbufs' = [txbufs EXCEPT ![Cleaned] = NoBuf]
    /\ todo' = todo - 1
    /\ npc' = IF todo = 1 THEN "done" ELSE "take"
    /\ UNCHANGED <<wr_p, rd_p, qcp_rd_p, wr_ptr_add, queue, dev, phase, xmit,
                   qcp>>

\* Remember the device's pointer and see whether there is room again.
Completed ==
    /\ npc = "done"
    /\ qcp_rd_p' = qcp
    /\ npc' = IF ShouldWake THEN "wake" ELSE "idle"
    /\ qcp' = 0
    /\ UNCHANGED <<wr_p, rd_p, wr_ptr_add, txbufs, skbs, queue, dev, phase,
                   xmit, todo>>

WakeQueue ==
    /\ npc = "wake"
    /\ stopped' = FALSE /\ busy' = FALSE
    /\ npc' = "idle"
    /\ UNCHANGED <<ring, dev, phase, xmit, todo, qcp>>

-----------------------------------------------------------------------------
(***************************************************************************)
(* The device, and taking the interface down and up.                       *)
(***************************************************************************)

\* The firmware fetches and transmits the next descriptor.
FwTransmit ==
    /\ fw_rd # fw_wr
    /\ fw_rd' = (fw_rd + 1) % Cnt
    /\ UNCHANGED <<ring, queue, fw_wr, phase, xmit, napi>>

\* nfp_net_close_stack(): napi_disable() waits for the poll to end,
CloseNapi ==
    /\ phase = "up" /\ npc = "idle"
    /\ phase' = "napi_off"
    /\ UNCHANGED <<ring, queue, dev, xmit, napi>>

\* and netif_tx_disable() takes the queue's lock.
CloseTx ==
    /\ phase = "napi_off" /\ xpc = "idle" /\ ~expected
    /\ phase' = "tx_off"
    /\ stopped' = TRUE /\ busy' = FALSE
    /\ UNCHANGED <<ring, dev, xmit, napi>>

\* The packets of the descriptors from rd_p to wr_p
Window == {D_IDX(rd_p + k) : k \in 0 .. Used - 1}
LastPieces(S) == {i \in S : LastPiece(txbufs[i])}

\* nfp_net_clear_config_and_disable() stops the device and resets the ring:
\* nfp_nfd3_tx_ring_reset() frees what is left on it.
Reset ==
    /\ phase = "tx_off"
    /\ skbs' = skbs - Cardinality(LastPieces(Window))
    /\ txbufs' = [i \in Slots |-> IF i \in Window THEN NoBuf ELSE txbufs[i]]
    /\ wr_p' = 0 /\ rd_p' = 0 /\ qcp_rd_p' = 0 /\ wr_ptr_add' = 0
    /\ fw_wr' = 0 /\ fw_rd' = 0
    /\ phase' = "down"
    /\ UNCHANGED <<queue, xmit, napi>>

\* nfp_net_open_stack()
Open ==
    /\ phase = "down"
    /\ phase' = "up"
    /\ stopped' = FALSE /\ UNCHANGED busy
    /\ UNCHANGED <<ring, dev, xmit, napi>>

-----------------------------------------------------------------------------
XmitStep ==
    \/ XmitBusy \/ PrepareFails
    \/ \E n \in 0 .. MaxFrags : \E k \in 0 .. n + 1 : Map(n, k)
    \/ Unmap \/ Publish \/ StopQueue \/ Recheck \/ SentQueue

NapiStep == Take \/ Clean \/ Completed \/ WakeQueue

Next ==
    \/ \E n \in 0 .. MaxFrags, m \in BOOLEAN : Xmit(n, m)
    \/ XmitStep
    \/ Poll \/ NapiStep
    \/ FwTransmit
    \/ CloseNapi \/ CloseTx \/ Reset \/ Open

Spec == Init /\ [][Next]_vars

\* The stack sends what it has announced; a call and a poll run to their end;
\* the device transmits what it was told of, and its interrupt makes NAPI poll
\* for what it has transmitted.
Announced ==
    expected /\ \E n \in 0 .. MaxFrags, m \in BOOLEAN : Xmit(n, m)
Fairness ==
    /\ WF_vars(XmitStep \/ Announced)
    /\ WF_vars(Poll \/ NapiStep)
    /\ WF_vars(FwTransmit)

FairSpec == Spec /\ Fairness

-----------------------------------------------------------------------------
Pieces == [nr_frags : 0 .. MaxFrags, fidx : -2 .. MaxFrags - 1]

TypeOK ==
    /\ wr_p \in 0 .. Word - 1 /\ rd_p \in 0 .. Word - 1
    /\ qcp_rd_p \in Slots /\ wr_ptr_add \in 0 .. Cnt
    /\ txbufs \in [Slots -> Pieces] /\ skbs \in 0 .. Cnt
    /\ stopped \in BOOLEAN /\ busy \in BOOLEAN
    /\ fw_wr \in Slots /\ fw_rd \in Slots
    /\ phase \in {"up", "napi_off", "tx_off", "down"}
    /\ xpc \in {"idle", "busy", "prep", "unmap", "publish", "stop", "recheck",
                "sent"}
    /\ nr \in 0 .. MaxFrags /\ f \in 0 .. MaxFrags + 1
    /\ more \in BOOLEAN /\ expected \in BOOLEAN
    /\ npc \in {"idle", "take", "clean", "done", "wake"}
    /\ todo \in Slots /\ qcp \in Slots

\* nfp_nfd3_tx() fills descriptors that hold nothing, and never the one that
\* nfp_nfd3_tx_complete() has already counted as free but still cleans.  What
\* the firmware may fetch belongs to the ring: neither the error path nor a
\* completion has taken it back.
FwWindow == {D_IDX(fw_rd + k) : k \in 0 .. D_IDX(fw_wr - fw_rd) - 1}
NoOverwrite ==
    /\ xpc = "prep" => \A i \in Target(nr + 1) :
                           txbufs[i] = NoBuf /\ (npc = "clean" => i # Cleaned)
    /\ FwWindow \subseteq Window

\* From rd_p to wr_p the ring holds whole packets one after the other, save
\* that the first may have lost its first pieces.  nfp_nfd3_tx_ring_reset()
\* relies on it when it follows the skb of every descriptor.
Follows(b, c) ==
    IF LastPiece(b) THEN HeadPiece(c)
                    ELSE c = [nr_frags |-> b.nr_frags, fidx |-> b.fidx + 1]
WholePackets ==
    /\ \A i \in Window : txbufs[i] # NoBuf
    /\ Used > 0 => LastPiece(txbufs[D_IDX(wr_p - 1)])
    /\ \A k \in 1 .. Used - 1 :
          Follows(txbufs[D_IDX(rd_p + k - 1)], txbufs[D_IDX(rd_p + k)])

\* Every packet accepted is freed once, by the completion of its last piece,
\* by the error path of nfp_nfd3_tx() or by the reset of the ring: the driver
\* holds as many as the ring has last pieces, plus the one being filled in.
InTx == IF xpc \in {"unmap", "publish"} THEN 1 ELSE 0
InClean == IF npc = "clean" /\ LastPiece(txbufs[Cleaned]) THEN 1 ELSE 0
PacketsFreedOnce ==
    skbs = Cardinality(LastPieces(Window)) + InTx + InClean

\* Whenever the stack has nothing more to send, or has been stopped, the
\* device has been told of every descriptor.
NothingStranded == xpc = "idle" /\ ~expected => wr_ptr_add = 0

\* When nfp_nfd3_tx_ring_stop() leaves the queue stopped, some packet is still
\* to be completed, or a completion is under way that has yet to look at the
\* queue.
StoppedHasWaker ==
    stopped /\ ~busy /\ phase = "up" /\ xpc \in {"idle", "sent"}
        => Used > 0 \/ npc # "idle"

\* nfp_nfd3_tx() overwrites no descriptor that is still to be cleaned, the
\* device sees whole packets only, and nfp_nfd3_tx_complete() and the reset
\* free each packet once.
TxSound == NoOverwrite /\ WholePackets /\ PacketsFreedOnce

\* No descriptor is left without a doorbell, and a queue that
\* nfp_nfd3_tx_ring_stop() stopped has somebody left to wake it.
NothingWaitsForNobody == NothingStranded /\ StoppedHasWaker

\* A queue that nfp_nfd3_tx_ring_stop() stopped is started again.
QueueRestarts ==
    (stopped /\ phase = "up") ~> (~stopped \/ phase # "up" \/ busy)

\* A queue the driver stopped, on whatever path, is started again.
EveryStopEnds == (stopped /\ phase = "up") ~> (~stopped \/ phase # "up")

\* Every descriptor filled in is sent, completed and cleaned, or unmapped,
\* while the interface is up.  As the ring is filled and cleaned in order, it
\* is enough to say so of one descriptor.
DescriptorReturns ==
    (txbufs[0] # NoBuf) ~> (txbufs[0] = NoBuf \/ phase # "up")

=============================================================================

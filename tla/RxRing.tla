------------------------------- MODULE RxRing -------------------------------
(***************************************************************************)
(* A receive ring of the NFD3 datapath and the XDP transmit ring of the    *)
(* same vector (nfd3/dp.c, nfd3/rings.c, nfp_net_dp.c), with an XDP        *)
(* program attached.                                                       *)
(*                                                                         *)
(* NAPI hands buffers to the device through the freelist of the receive    *)
(* ring and has to replace every buffer it takes off the ring.  A packet   *)
(* that the XDP program sends back out exchanges its buffer for the one    *)
(* that each entry of the XDP ring keeps, so that nothing is allocated.    *)
(* NAPI is the only thread of the driver that touches the two rings while  *)
(* the device runs.                                                        *)
(*                                                                         *)
(* An entry either owns its buffer, or still names a buffer that has been  *)
(* passed on to another entry or to the stack, or names none.              *)
(***************************************************************************)
EXTENDS Integers, FiniteSets

CONSTANTS
    RxCnt, XdpCnt,  \* entries of the receive and of the XDP ring
    RxWord,         \* 2^32: the driver's pointers are u32
    FlBatch,        \* NFP_NET_FL_BATCH
    Budget,         \* the NAPI budget
    MaxComplete,    \* NFP_NET_XDP_MAX_COMPLETE
    MaxRejects      \* bound: packets XDP makes too long to be sent.  Each costs the
                    \* ring a buffer; a ring without any is not followed further.

ASSUME RxConstants ==
    /\ RxCnt \in Nat /\ XdpCnt \in Nat /\ RxCnt > 1 /\ XdpCnt > 1
    /\ FlBatch \in 1 .. RxCnt - 1 /\ RxCnt % FlBatch = 0
    /\ RxWord \in Nat /\ RxWord % RxCnt = 0 /\ RxWord % XdpCnt = 0
    /\ RxWord >= 2 * RxCnt /\ RxWord >= 2 * XdpCnt
    /\ Budget \in Nat \ {0} /\ MaxComplete \in Nat \ {0}
    /\ MaxRejects \in 0 .. RxCnt - 2

RxSlots  == 0 .. RxCnt - 1
XdpSlots == 0 .. XdpCnt - 1
RxFill   == RxCnt - 1                       \* buffers the receive ring gets
Entry    == {"own", "stale", "none"}

VARIABLES
    rx_wr, rx_rd,   \* wr_p and rd_p of the receive ring
    rxbufs,         \* its soft entries
    rx_dd,          \* the descriptors the device has written back (DD)
    fl_wr, fl_rd,   \* write and read pointer of the device's freelist
    xdp_wr, xdp_rd, xdp_qcp, xdp_add,   \* wr_p, rd_p, qcp_rd_p, wr_ptr_add
    xdpbufs,        \* txbufs of the XDP ring
    fx_wr, fx_rd,   \* the device's pointers of the XDP ring
    rx_pc,          \* "none" (no buffers), "stopped", "idle", "poll"
    polled,         \* pkts_polled
    completed,      \* xdp_tx_cmpl
    irq,            \* NAPI is to be called: interrupt, or the budget was used
    rejects,        \* history: packets refused for their length since the fill
    tainted         \* history: a ring some were missing from has been reset

rxring  == <<rx_wr, rx_rd, rxbufs, rx_dd, fl_wr>>
xdpring == <<xdp_wr, xdp_rd, xdp_qcp, xdp_add, xdpbufs, fx_wr>>
rxdev   == <<fl_rd, fx_rd>>
rxpoll  == <<rx_pc, polled, completed, irq>>
rxhist  == <<rejects, tainted>>
rxvars  == <<rxring, xdpring, rxdev, rxpoll, rxhist>>

RxIdx(p)  == p % RxCnt
XdpIdx(p) == p % XdpCnt
RxPlus(p, n) == (p + n) % RxWord
RxUsed  == (rx_wr - rx_rd) % RxWord
XdpUsed == (xdp_wr - xdp_rd) % RxWord

RxInit ==
    /\ rx_wr = 0 /\ rx_rd = 0 /\ rxbufs = [i \in RxSlots |-> "none"]
    /\ rx_dd = {} /\ fl_wr = 0 /\ fl_rd = 0
    /\ xdp_wr = 0 /\ xdp_rd = 0 /\ xdp_qcp = 0 /\ xdp_add = 0
    /\ xdpbufs = [i \in XdpSlots |-> "none"] /\ fx_wr = 0 /\ fx_rd = 0
    /\ rx_pc = "none" /\ polled = 0 /\ completed = FALSE /\ irq = FALSE
    /\ rejects = 0 /\ tainted = FALSE

-----------------------------------------------------------------------------
(***************************************************************************)
(* Setting the rings up and taking them down.                              *)
(***************************************************************************)

\* nfp_net_rx_ring_bufs_alloc() and nfp_nfd3_tx_ring_bufs_alloc(); when either
\* fails, what was allocated is freed and nothing has changed.
BufsAlloc ==
    /\ rx_pc = "none"
    /\ rxbufs' = [i \in RxSlots |-> IF i < RxFill THEN "own" ELSE "none"]
    /\ xdpbufs' = [i \in XdpSlots |-> "own"]
    /\ rx_pc' = "stopped"
    /\ UNCHANGED <<rx_wr, rx_rd, rx_dd, fl_wr, xdp_wr, xdp_rd, xdp_qcp,
                   xdp_add, fx_wr, rxdev, polled, completed, irq, rxhist>>

\* nfp_net_rx_ring_bufs_free() and nfp_nfd3_tx_ring_bufs_free(), then the rings
BufsFree ==
    /\ rx_pc = "stopped"
    /\ rxbufs' = [i \in RxSlots |-> "none"]
    /\ xdpbufs' = [i \in XdpSlots |-> "none"]
    /\ rx_pc' = "none"
    /\ tainted' = FALSE
    /\ UNCHANGED <<rx_wr, rx_rd, rx_dd, fl_wr, xdp_wr, xdp_rd, xdp_qcp,
                   xdp_add, fx_wr, rxdev, polled, completed, irq, rejects>>

\* nfp_nfd3_rx_ring_fill_freelist() gives entries 0 .. cnt - 2; the device is
\* told of whole batches only.  A ring with the same buffer in two entries is
\* not followed any further.
FillFreelist ==
    /\ rx_pc = "stopped" /\ ~tainted
    /\ rx_wr' = RxFill
    /\ fl_wr' = RxFill - (RxFill % FlBatch)
    /\ rx_pc' = "idle"
    /\ UNCHANGED <<rx_rd, rxbufs, rx_dd, xdpring, rxdev, polled, completed,
                   irq, rxhist>>

\* nfp_net_rx_ring_reset(), which may be called on a ring that was never fed,
\* moves the empty entry to the end.
ResetGeometry ==
    IF rx_wr = 0 /\ rx_rd = 0
      THEN UNCHANGED rxbufs
      ELSE rxbufs' = [rxbufs EXCEPT ![RxIdx(rx_wr)] = rxbufs[RxFill],
                                    ![RxFill] = "none"]

\* nfp_net_clear_config_and_disable(), after a run or after an enable that
\* failed; nfp_nfd3_tx_ring_reset() leaves the XDP ring its buffers.
RxReset ==
    /\ rx_pc \in {"idle", "stopped"}
    /\ ResetGeometry
    /\ rx_wr' = 0 /\ rx_rd' = 0 /\ rx_dd' = {} /\ fl_wr' = 0 /\ fl_rd' = 0
    /\ xdp_wr' = 0 /\ xdp_rd' = 0 /\ xdp_qcp' = 0 /\ xdp_add' = 0
    /\ fx_wr' = 0 /\ fx_rd' = 0
    /\ rx_pc' = "stopped" /\ irq' = FALSE
    /\ rejects' = 0 /\ tainted' = (tainted \/ rejects > 0)
    /\ UNCHANGED <<xdpbufs, polled, completed>>

-----------------------------------------------------------------------------
(***************************************************************************)
(* The device.                                                             *)
(***************************************************************************)

\* It fills the next buffer of the freelist, writes its descriptor back and
\* raises the interrupt.
FwReceive ==
    /\ rx_pc \in {"idle", "poll"} /\ fl_rd # fl_wr
    /\ rx_dd' = rx_dd \cup {fl_rd}
    /\ fl_rd' = RxIdx(fl_rd + 1)
    /\ irq' = TRUE
    /\ UNCHANGED <<rx_wr, rx_rd, rxbufs, fl_wr, xdpring, fx_rd, rx_pc, polled,
                   completed, rxhist>>

\* It sends the next packet of the XDP ring.
FwSend ==
    /\ rx_pc \in {"idle", "poll"} /\ fx_rd # fx_wr
    /\ fx_rd' = XdpIdx(fx_rd + 1)
    /\ UNCHANGED <<rxring, xdpring, fl_rd, rxpoll, rxhist>>

-----------------------------------------------------------------------------
(***************************************************************************)
(* nfp_nfd3_rx(), called from nfp_nfd3_poll().                             *)
(***************************************************************************)

RxPoll ==
    /\ rx_pc = "idle" /\ irq
    /\ rx_pc' = "poll" /\ irq' = FALSE
    /\ UNCHANGED <<rxring, xdpring, rxdev, polled, completed, rxhist>>

HasPacket == rx_pc = "poll" /\ polled < Budget /\ RxIdx(rx_rd) \in rx_dd

\* rd_p++, pkts_polled++; what it takes off the ring
TakePacket == rx_rd' = RxPlus(rx_rd, 1) /\ polled' = polled + 1
Taken == rxbufs[RxIdx(rx_rd)]

\* nfp_nfd3_rx_give_one(), of the buffer just taken or of another in its place
GiveOne(frag) ==
    /\ rxbufs' = [rxbufs EXCEPT ![RxIdx(rx_rd)] = "stale",
                                ![RxIdx(rx_wr)] = frag]
    /\ rx_dd' = rx_dd \ {RxIdx(rx_wr)}
    /\ rx_wr' = RxPlus(rx_wr, 1)
    /\ fl_wr' = IF rx_wr' % FlBatch = 0 THEN RxIdx(fl_wr + FlBatch) ELSE fl_wr

\* A packet for the stack leaves with its buffer and a new one is given.  One
\* dropped by the driver or by XDP, and one for the application's control
\* channel, leaves its buffer behind; so does one for whose buffer there is no
\* replacement, by a reference taken before the skb is freed.
Receive ==
    /\ HasPacket
    /\ TakePacket
    /\ GiveOne(Taken)
    /\ UNCHANGED <<xdpring, rxdev, rx_pc, completed, irq, rxhist>>

\* nfp_nfd3_xdp_complete(): what the device has sent, and how much of it one
\* call takes
XdpTodo == XdpIdx(fx_rd - xdp_qcp)
XdpDone == IF XdpTodo <= MaxComplete THEN XdpTodo ELSE MaxComplete
XdpComplete(n) ==
    /\ xdp_qcp' = XdpIdx(xdp_qcp + n)
    /\ xdp_rd' = RxPlus(xdp_rd, n)

\* nfp_net_tx_full(tx_ring, 1), after n entries were completed
XdpFull(n) == XdpUsed - n >= XdpCnt - 1

\* A full ring is completed once in a poll.
Cleans == XdpFull(0) /\ ~completed
Reclaimed == IF Cleans THEN XdpDone ELSE 0

\* XDP_TX, nfp_nfd3_tx_xdp_buf(): the packet's buffer goes to the XDP ring and
\* the one it finds there to the receive ring.
XdpTxKeeps ==
    /\ HasPacket
    /\ ~XdpFull(Reclaimed)
    /\ TakePacket
    /\ completed' = (completed \/ Cleans)
    /\ XdpComplete(Reclaimed)
    /\ GiveOne(xdpbufs[XdpIdx(xdp_wr)])
    /\ xdpbufs' = [xdpbufs EXCEPT ![XdpIdx(xdp_wr)] = "stale"]
    /\ xdp_wr' = RxPlus(xdp_wr, 1) /\ xdp_add' = xdp_add + 1
    /\ UNCHANGED <<fx_wr, rxdev, rx_pc, irq, rxhist>>
XdpTx ==
    /\ HasPacket
    /\ ~XdpFull(Reclaimed)
    /\ TakePacket
    /\ completed' = (completed \/ Cleans)
    /\ XdpComplete(Reclaimed)
    /\ GiveOne(xdpbufs[XdpIdx(xdp_wr)])
    /\ xdpbufs' = [xdpbufs EXCEPT ![XdpIdx(xdp_wr)] = Taken]
    /\ xdp_wr' = RxPlus(xdp_wr, 1) /\ xdp_add' = xdp_add + 1
    /\ UNCHANGED <<fx_wr, rxdev, rx_pc, irq, rxhist>>

\* XDP_TX with the ring still full: the packet is dropped.
XdpTxDrop ==
    /\ HasPacket
    /\ XdpFull(Reclaimed)
    /\ TakePacket
    /\ completed' = (completed \/ Cleans)
    /\ XdpComplete(Reclaimed)
    /\ GiveOne(Taken)
    /\ UNCHANGED <<xdp_wr, xdp_add, xdpbufs, fx_wr, rxdev, rx_pc, irq, rxhist>>

\* XDP_TX of a packet grown beyond the DMA area: refused, and its buffer given
\* to nobody.
XdpTxReject ==
    /\ HasPacket
    /\ rejects < MaxRejects
    /\ TakePacket
    /\ rejects' = rejects + 1
    /\ UNCHANGED <<rx_wr, rxbufs, rx_dd, fl_wr, xdpring, rxdev, rx_pc,
                   completed, irq, tainted>>

\* The end of the poll: ring the doorbell of the XDP ring or, when there is
\* nothing to send, complete what was sent.  NAPI calls again when the budget
\* was used up or the completion was not done.
CleansAtEnd == xdp_add = 0 /\ xdp_wr # xdp_rd /\ ~completed
PollEnd ==
    /\ rx_pc = "poll"
    /\ polled = Budget \/ RxIdx(rx_rd) \notin rx_dd
    /\ XdpComplete(IF CleansAtEnd THEN XdpDone ELSE 0)
    /\ irq' = \/ irq
              \/ polled = Budget
              \/ CleansAtEnd /\ XdpTodo > MaxComplete
    /\ fx_wr' = XdpIdx(fx_wr + xdp_add) /\ xdp_add' = 0
    /\ rx_pc' = "idle" /\ polled' = 0 /\ completed' = FALSE
    /\ UNCHANGED <<rxring, xdp_wr, xdpbufs, rxdev, rxhist>>

PollStep == Receive \/ XdpTx \/ XdpTxDrop \/ XdpTxReject \/ PollEnd

RxNext ==
    \/ BufsAlloc \/ BufsFree \/ FillFreelist \/ RxReset
    \/ FwReceive \/ FwSend
    \/ RxPoll \/ PollStep

RxSpec == RxInit /\ [][RxNext]_rxvars

-----------------------------------------------------------------------------
RxTypeOK ==
    /\ rx_wr \in 0 .. RxWord - 1 /\ rx_rd \in 0 .. RxWord - 1
    /\ rxbufs \in [RxSlots -> Entry] /\ rx_dd \subseteq RxSlots
    /\ fl_wr \in RxSlots /\ fl_rd \in RxSlots
    /\ xdp_wr \in 0 .. RxWord - 1 /\ xdp_rd \in 0 .. RxWord - 1
    /\ xdp_qcp \in XdpSlots /\ xdp_add \in 0 .. XdpCnt
    /\ xdpbufs \in [XdpSlots -> Entry]
    /\ fx_wr \in XdpSlots /\ fx_rd \in XdpSlots
    /\ rx_pc \in {"none", "stopped", "idle", "poll"} /\ polled \in 0 .. Budget
    /\ completed \in BOOLEAN /\ irq \in BOOLEAN /\ rejects \in 0 .. MaxRejects
    /\ tainted \in BOOLEAN

\* The entries the device may write to, and the XDP entries it may read
RxWindow == {RxIdx(rx_rd + k) : k \in 0 .. RxUsed - 1}
FwFreelist == {RxIdx(fl_rd + k) : k \in 0 .. RxIdx(fl_wr - fl_rd) - 1}
XdpWindow == {XdpIdx(xdp_rd + k) : k \in 0 .. XdpUsed - 1}
FwXdp == {XdpIdx(fx_rd + k) : k \in 0 .. XdpIdx(fx_wr - fx_rd) - 1}

\* The receive ring always holds cnt - 1 buffers while the device runs.
RxKeptFull == rx_pc \in {"idle", "poll"} => RxUsed = RxFill

\* It holds one fewer for every packet nfp_nfd3_tx_xdp_buf() refused for its
\* length, and for no other reason.
RxShortByRejects ==
    rx_pc \in {"idle", "poll"} => RxUsed = RxFill - rejects

\* Every entry the device may write to, and every entry of the XDP ring, owns
\* its buffer: no buffer is on the rings twice, and the device never receives
\* into one that it is still to send or that the stack has.  A stopped ring has
\* a buffer of its own in entries 0 .. cnt - 2 and none in the last, which is
\* what nfp_net_rx_ring_bufs_free() and the next fill rely on.  Both hold until
\* a ring that is short of a packet refused for its length is reset.
NoBufferTwice ==
    ~tainted =>
        /\ rx_pc \in {"idle", "poll"} => \A i \in RxWindow : rxbufs[i] = "own"
        /\ rx_pc = "stopped" =>
              \A i \in RxSlots : rxbufs[i] = IF i < RxFill THEN "own" ELSE "none"
        /\ rx_pc # "none" => \A i \in XdpSlots : xdpbufs[i] = "own"

\* The device writes to entries of the ring's window only, in order: what it
\* was given and has not filled lies behind what it has filled, and NAPI finds
\* no stale DD bit on an entry it has not given again.
DeviceInWindow ==
    /\ FwFreelist \subseteq RxWindow \ rx_dd
    /\ FwXdp \subseteq XdpWindow
    /\ rx_dd \cap RxWindow = {RxIdx(rx_rd + k) : k \in 0 .. RxIdx(fl_rd - rx_rd) - 1}

\* When a poll has ended and NAPI is not to be called again, no packet waits
\* on the ring: one written back during the poll was taken, or has NAPI called.
NoPacketForgotten ==
    rx_pc = "idle" /\ ~irq => RxIdx(rx_rd) \notin rx_dd \cap RxWindow

\* The receive ring is short of buffers only by the packets the XDP ring
\* rejected, no buffer is on two rings, the device stays inside what
\* nfp_nfd3_rx_give_one() advertised, and no received packet waits for a NAPI
\* poll that nobody will schedule.
RxSound ==
    /\ RxTypeOK /\ RxShortByRejects /\ NoBufferTwice /\ DeviceInWindow
    /\ NoPacketForgotten

=============================================================================

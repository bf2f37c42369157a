------------------------------ MODULE CtrlRing ------------------------------
(***************************************************************************)
(* The rings of the control vNIC (nfd3/dp.c, nfp_net_dp.c), which carry    *)
(* messages between the applications of the driver and the firmware.       *)
(*                                                                         *)
(* Threads send under the lock of the vector.  What does not fit is put on *)
(* a queue, and the tasklet that completes the ring sends it later, under  *)
(* the same lock; then, without the lock, it receives a bounded number of  *)
(* messages.  Messages are numbered in the order in which they are sent.   *)
(* Received ones are counted: their buffers move as those of RxRing do.    *)
(***************************************************************************)
EXTENDS Integers, Sequences

CONSTANTS
    CtCnt,      \* entries of the transmit ring
    CtWord,     \* 2^32: pointers and the budget are unsigned int
    CtBudget,   \* the 512 of nfp_ctrl_rx()
    CtRx,       \* messages the receive ring has room for
    CtMsgs      \* bound: messages sent

ASSUME CtConstants ==
    /\ CtCnt \in Nat /\ CtCnt > 1 /\ CtWord \in Nat
    /\ CtWord >= 2 * CtCnt /\ CtWord % CtCnt = 0
    /\ CtBudget \in 1 .. CtWord - 1 /\ CtRx \in Nat /\ CtMsgs \in Nat

CtSlots == 0 .. CtCnt - 1
NoMsg == 0

VARIABLES
    ct_wr, ct_rd, ct_qcp,   \* wr_p, rd_p and qcp_rd_p of the transmit ring
    ct_bufs,    \* its txbufs: the message of each entry, or NoMsg
    ct_queue,   \* r_vec->queue
    ct_next,    \* number of the next message
    ct_fw,      \* the device's read pointer
    ct_got,     \* the last message the device fetched
    ct_rx,      \* messages written back and not yet received
    ct_pc,      \* the tasklet: "idle", "drain" (it has the lock), "rx"
    ct_left,    \* budget in nfp_ctrl_rx()
    ct_irq      \* the tasklet is to run: interrupt, or it scheduled itself

ctring == <<ct_wr, ct_rd, ct_qcp, ct_bufs, ct_queue>>
ctdev  == <<ct_fw, ct_got>>
ctpoll == <<ct_pc, ct_left, ct_irq>>
ctvars == <<ctring, ctdev, ct_next, ct_rx, ctpoll>>

CtIdx(p) == p % CtCnt
CtUsed == (ct_wr - ct_rd) % CtWord

\* nfp_net_tx_full(tx_ring, 1)
CtFull == CtUsed >= CtCnt - 1

CtInit ==
    /\ ct_wr = 0 /\ ct_rd = 0 /\ ct_qcp = 0
    /\ ct_bufs = [i \in CtSlots |-> NoMsg] /\ ct_queue = <<>>
    /\ ct_next = 1 /\ ct_fw = 0 /\ ct_got = NoMsg /\ ct_rx = 0
    /\ ct_pc = "idle" /\ ct_left = CtBudget /\ ct_irq = FALSE

-----------------------------------------------------------------------------
(***************************************************************************)
(* Sending.                                                                *)
(***************************************************************************)

\* The end of nfp_nfd3_ctrl_tx_one() for a message there is room for, which the
\* device is told of at once; one that cannot be mapped is freed.
CtPut(m) ==
    \/ /\ ct_bufs' = [ct_bufs EXCEPT ![CtIdx(ct_wr)] = m]
       /\ ct_wr' = (ct_wr + 1) % CtWord
    \/ UNCHANGED <<ct_bufs, ct_wr>>

\* nfp_ctrl_tx() of a new message
CtSendHead ==
    /\ ct_pc # "drain" /\ ct_next <= CtMsgs
    /\ ct_next' = ct_next + 1
    /\ IF CtFull
         THEN /\ ct_queue' = <<ct_next>> \o ct_queue
              /\ UNCHANGED <<ct_bufs, ct_wr>>
         ELSE CtPut(ct_next) /\ UNCHANGED ct_queue
    /\ UNCHANGED <<ct_rd, ct_qcp, ctdev, ct_rx, ctpoll>>
CtSend ==
    /\ ct_pc # "drain" /\ ct_next <= CtMsgs
    /\ ct_next' = ct_next + 1
    /\ IF CtFull
         THEN /\ ct_queue' = Append(ct_queue, ct_next)
              /\ UNCHANGED <<ct_bufs, ct_wr>>
         ELSE CtPut(ct_next) /\ UNCHANGED ct_queue
    /\ UNCHANGED <<ct_rd, ct_qcp, ctdev, ct_rx, ctpoll>>

-----------------------------------------------------------------------------
(***************************************************************************)
(* The tasklet, nfp_nfd3_ctrl_poll().                                      *)
(***************************************************************************)

\* It takes the lock and completes what the device has fetched:
\* nfp_nfd3_tx_complete().
CtTodo == CtIdx(ct_fw - ct_qcp)
CtCompleted == {CtIdx(ct_rd + k) : k \in 0 .. CtTodo - 1}
CtComplete ==
    /\ ct_pc = "idle" /\ ct_irq
    /\ ct_irq' = FALSE
    /\ ct_qcp' = ct_fw
    /\ ct_rd' = (ct_rd + CtTodo) % CtWord
    /\ ct_bufs' = [i \in CtSlots |-> IF i \in CtCompleted THEN NoMsg
                                                          ELSE ct_bufs[i]]
    /\ ct_pc' = "drain"
    /\ UNCHANGED <<ct_wr, ct_queue, ctdev, ct_next, ct_rx, ct_left>>

\* __nfp_ctrl_tx_queued() sends the queue's head while there is room; one that
\* does not fit goes back to the head.  Then the lock is released.
CtDrained == ct_queue = <<>> \/ CtFull
CtDrainOne ==
    /\ ct_pc = "drain" /\ ~CtDrained
    /\ CtPut(Head(ct_queue))
    /\ ct_queue' = Tail(ct_queue)
    /\ UNCHANGED <<ct_rd, ct_qcp, ctdev, ct_next, ct_rx, ctpoll>>

CtUnlock ==
    /\ ct_pc = "drain" /\ CtDrained
    /\ ct_pc' = "rx"
    /\ UNCHANGED <<ctring, ctdev, ct_next, ct_rx, ct_left, ct_irq>>

\* The tasklet ends with what is left of its budget: nothing left makes it
\* schedule itself, otherwise it unmasks the interrupt.
CtEnd(left) ==
    /\ ct_pc' = "idle" /\ ct_left' = CtBudget
    /\ ct_irq' = (ct_irq \/ left = 0)

\* nfp_ctrl_rx() receives a message, and only then counts the budget down.
CtReceiveStopsEarly ==
    /\ ct_pc = "rx" /\ ct_rx > 0
    /\ ct_rx' = ct_rx - 1
    /\ IF ct_left = 1
         THEN CtEnd(ct_left)
         ELSE ct_left' = ct_left - 1 /\ UNCHANGED <<ct_pc, ct_irq>>
    /\ UNCHANGED <<ctring, ctdev, ct_next>>
CtReceive ==
    /\ ct_pc = "rx" /\ ct_rx > 0
    /\ ct_rx' = ct_rx - 1
    /\ IF ct_left = 0
         THEN CtEnd((ct_left - 1) % CtWord)
         ELSE ct_left' = ct_left - 1 /\ UNCHANGED <<ct_pc, ct_irq>>
    /\ UNCHANGED <<ctring, ctdev, ct_next>>

\* No more messages
CtReceiveNone ==
    /\ ct_pc = "rx" /\ ct_rx = 0
    /\ CtEnd(ct_left)
    /\ UNCHANGED <<ctring, ctdev, ct_next, ct_rx>>

CtPoll ==
    CtComplete \/ CtDrainOne \/ CtUnlock \/ CtReceive \/ CtReceiveNone

-----------------------------------------------------------------------------
(***************************************************************************)
(* The device raises the interrupt for what it fetches and what it sends;  *)
(* an interrupt that comes while it is masked is delivered afterwards.     *)
(***************************************************************************)

CtFwFetch ==
    /\ ct_fw # CtIdx(ct_wr)
    /\ ct_got' = ct_bufs[ct_fw]
    /\ ct_fw' = CtIdx(ct_fw + 1)
    /\ ct_irq' = TRUE
    /\ UNCHANGED <<ctring, ct_next, ct_rx, ct_pc, ct_left>>

CtFwMessage ==
    /\ ct_rx < CtRx
    /\ ct_rx' = ct_rx + 1
    /\ ct_irq' = TRUE
    /\ UNCHANGED <<ctring, ctdev, ct_next, ct_pc, ct_left>>

CtNext == CtSend \/ CtPoll \/ CtFwFetch \/ CtFwMessage

\* A tasklet that is scheduled runs, and the device fetches what it was told
\* of.
CtFairness == WF_ctvars(CtPoll) /\ WF_ctvars(CtFwFetch)

CtSpec == CtInit /\ [][CtNext]_ctvars /\ CtFairness

-----------------------------------------------------------------------------
CtTypeOK ==
    /\ ct_wr \in 0 .. CtWord - 1 /\ ct_rd \in 0 .. CtWord - 1
    /\ ct_qcp \in CtSlots /\ ct_bufs \in [CtSlots -> 0 .. CtMsgs]
    /\ ct_queue \in Seq(1 .. CtMsgs) /\ ct_next \in 1 .. CtMsgs + 1
    /\ ct_fw \in CtSlots /\ ct_got \in 0 .. CtMsgs /\ ct_rx \in 0 .. CtRx
    /\ ct_pc \in {"idle", "drain", "rx"} /\ ct_left \in 0 .. CtBudget
    /\ ct_irq \in BOOLEAN

\* What the device is still to fetch, followed by what is queued
CtAhead == [k \in 1 .. CtIdx(ct_wr - ct_fw) |-> ct_bufs[CtIdx(ct_fw + k - 1)]]
CtInFlight == <<ct_got>> \o CtAhead \o ct_queue

\* Messages reach the firmware in the order in which nfp_ctrl_tx() was called,
\* although some are queued and others are not: none overtakes another.
CtInOrder ==
    \A i \in 1 .. Len(CtInFlight) - 1 : CtInFlight[i] < CtInFlight[i + 1]

\* Outside the tasklet's critical section messages are queued only while the
\* ring is full, so that a completion is still to come that sends them.
CtQueuedOnlyWhenFull == ct_pc # "drain" => ct_queue = <<>> \/ CtFull

\* Messages reach the ring of the control vNIC in the order in which
\* nfp_ctrl_tx() was called, and one waits in tx_queue only behind a full ring.
RingOrdered == CtTypeOK /\ CtInOrder /\ CtQueuedOnlyWhenFull

\* Every message queued is sent or dropped in the end.
CtQueueDrains == ct_queue # <<>> ~> ct_queue = <<>>

\* A tasklet that ends without being scheduled again leaves no message behind:
\* past its budget, "control message budget exceeded!", it schedules itself.
CtNoneForgotten == ct_pc = "idle" /\ ~ct_irq => ct_rx = 0

\* It leaves one behind only when it received one more than its budget.
CtOnlyOverrunForgets ==
    [][CtNoneForgotten /\ ~CtNoneForgotten' => ct_left = 0]_ctvars

=============================================================================

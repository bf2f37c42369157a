------------------------------ MODULE MCRings ------------------------------
(***************************************************************************)
(* The rings of a vector of the NFD3 datapath.  The transmit ring is the   *)
(* smallest its assumption allows: the queue is stopped when two           *)
(* descriptors are left and woken when all are free.  The receive ring has *)
(* two freelist batches; the XDP ring completes in two calls.  The         *)
(* pointers wrap after a few rounds.                                       *)
(*                                                                         *)
(* The transmit ring shares no state with the other two: a behaviour is    *)
(* one of TxRing or one of RxRing, rather than their interleaving.         *)
(***************************************************************************)
EXTENDS TxRing, RxRing

VARIABLE part

MCInit == part \in {"tx", "rx"} /\ Init /\ RxInit

MCNext ==
    \/ part = "tx" /\ Next /\ UNCHANGED <<rxvars, part>>
    \/ part = "rx" /\ RxNext /\ UNCHANGED <<vars, part>>

MCFairSpec == MCInit /\ [][MCNext]_<<vars, rxvars, part>> /\ Fairness

\* A stopped queue is woken and every descriptor handed to the device is
\* returned.
RingsProgress == QueueRestarts /\ DescriptorReturns

=============================================================================

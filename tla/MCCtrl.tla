------------------------------- MODULE MCCtrl -------------------------------
(***************************************************************************)
(* The control channel: the message protocol of Ccm, with a tag space so   *)
(* small that tags are reused and the window fills, and the rings of       *)
(* CtrlRing, so small that messages are queued and the pointers wrap.      *)
(*                                                                         *)
(* The two share no state, and Ccm asks less of its carrier than CtrlRing  *)
(* gives; a behaviour is one of the first or one of the second, rather     *)
(* than their interleaving.                                                *)
(***************************************************************************)
EXTENDS Ccm, CtrlRing

VARIABLE part

MCInit == part \in {"ccm", "rings"} /\ CcmInit /\ CtInit

MCNext ==
    \/ part = "ccm" /\ CcmNext /\ UNCHANGED <<ctvars, part>>
    \/ part = "rings" /\ CtNext /\ UNCHANGED <<ccmvars, part>>

MCFairSpec ==
    /\ MCInit /\ [][MCNext]_<<ccmvars, ctvars, part>>
    /\ CcmFairness /\ CtFairness

\* A full tag window opens again although the firmware may never answer, and
\* what nfp_ctrl_tx() queued is sent.
CtrlProgress == WindowReopens /\ CtQueueDrains

=============================================================================

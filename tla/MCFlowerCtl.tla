----------------------------- MODULE MCFlowerCtl -----------------------------
(***************************************************************************)
(* The flower application's conversations with its firmware beside the     *)
(* flow rules: link aggregation groups (Lag), rate limiters and meters     *)
(* (Qos), representors, MTU changes and the control message queue          *)
(* (FlowerCtl), tunnel MAC addresses and tunnel neighbours (Tunnels).      *)
(*                                                                         *)
(* The five share no state: a behaviour is one of one of them.             *)
(***************************************************************************)
EXTENDS Lag, Qos, FlowerCtl, Tunnels

VARIABLE part

MCDevKind ==
    [d \in MacDevs |-> CASE d = "a" -> "phy" [] d = "b" -> "lagphy"
                         [] d = "br" -> "bridge" [] d = "v" -> "other"]
MCPortNo == [d \in MacDevs |-> IF d = "a" THEN 0 ELSE 1]
MCRemMac == [p \in Predts |-> CHOOSE m \in NeighMacs : TRUE]

\* The part that does not run starts in one state.
FirstMac == CHOOSE m \in Macs : TRUE
MCInit ==
    /\ part \in {"lag", "qos", "fc", "mac", "neigh"}
    /\ LagInit /\ nfp_flower_qos_init /\ FcInit /\ MacInit /\ NeighInit
    /\ part # "mac" => \A d \in MacDevs : mdev[d].addr = FirstMac
    /\ part # "neigh" => \A n \in Neighs : neigh[n].mac = FirstMac

MCNext ==
    \/ part = "lag" /\ LagNext
       /\ UNCHANGED <<qosvars, fcvars, macvars, neighvars, part>>
    \/ part = "qos" /\ QosNext
       /\ UNCHANGED <<lagvars, fcvars, macvars, neighvars, part>>
    \/ part = "fc" /\ FcNext
       /\ UNCHANGED <<lagvars, qosvars, macvars, neighvars, part>>
    \/ part = "mac" /\ MacNext
       /\ UNCHANGED <<lagvars, qosvars, fcvars, neighvars, part>>
    \/ part = "neigh" /\ NeighNext
       /\ UNCHANGED <<lagvars, qosvars, fcvars, macvars, part>>

MCSpec ==
    MCInit /\ [][MCNext]_<<lagvars, qosvars, fcvars, macvars, neighvars, part>>

-----------------------------------------------------------------------------
\* When nothing is left to send, the firmware holds the bonds the driver
\* holds, and a change that could not be sent is never forgotten
\* (lag_conf.c, nfp_fl_lag_do_work).
BondsConverge == part = "lag" => FirmwareHasBonds /\ NothingForgotten

\* Unless operations under the two locks overlapped, statistics are polled
\* exactly while there is a limiter or a meter; the only circle of waits is
\* a meter's removal that holds the lock the work needs; and no counter
\* handed to the stack goes backwards but after a reply that came when its
\* limiter was gone (qos_conf.c).
LimitersSound ==
    part = "qos" => PolledWhileCounted /\ OneCircle /\ NeverNegative

\* The answer to an MTU change is taken when it arrives and not queued
\* behind the work that waits for it, the firmware and the representor then
\* agree on the MTU, and representors are used only after the firmware
\* confirmed every one of them (cmsg.c, main.c).
AnswersMatched ==
    part = "fc" => AnswerNotQueued /\ MtuAgrees /\ ReprsConfirmed

\* The reference count of an offloaded MAC address is the number of devices
\* that use it, and a neighbour entry and the flows that decapsulate for it
\* are linked both ways or not at all and reach the firmware's copy
\* (tunnel_conf.c).
TunnelsAgree ==
    /\ part = "mac" => MacsCounted
    /\ part = "neigh" => LinksSound /\ NeighboursConverge

==============================================================================

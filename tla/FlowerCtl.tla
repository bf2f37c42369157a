------------------------------ MODULE FlowerCtl ------------------------------
(***************************************************************************)
(* Control messages of the flower app (flower/cmsg.c, flower/main.c): what *)
(* is handled as it arrives and what is queued for the worker, the MTU     *)
(* change that waits for the firmware's answer, and the representors the   *)
(* firmware has to confirm.                                                *)
(*                                                                         *)
(* An MTU change holds the RTNL until it is answered or times out; the     *)
(* worker needs the RTNL for a PORT_MOD message, and the answer is a       *)
(* PORT_MOD message.  Messages and answers stay in order both ways.        *)
(***************************************************************************)
EXTENDS Integers, Sequences, FiniteSets

CONSTANTS
    PhysPorts,      \* physical ports with a representor
    MtuVals,        \* MTUs, without 0
    DefMtu,         \* MTU of a new netdev (ETH_DATA_LEN)
    WorkqMax,       \* NFP_FLOWER_WORKQ_MAX_SKBS
    MaxMtuReqs,     \* bound: MTU changes of the user
    MaxLinks,       \* bound: link reports of the firmware
    MaxLate,        \* bound: timeouts
    MaxSpawns       \* bound: representors spawned

ASSUME FlowerCtlConstants == WorkqMax \in Nat /\ 0 \notin MtuVals /\ DefMtu \in MtuVals

VARIABLES net,          \* MTU and carrier of each representor
          fwm,          \* MTU of each port in the firmware
          mtu_conf,     \* requested_val, portnum, ack
          req,          \* the MTU change that holds the RTNL
          tx, rx,       \* messages to and from the firmware
          high, low,    \* cmsg_skbs_high, cmsg_skbs_low
          cwork,        \* cmsg_work: scheduled, and cmsg_joined
          reprs,        \* registered representors
          reify,        \* reify_replies and the wait for it
          known,        \* representors the firmware knows of
          fcb           \* what was used of each bound, and whether an answer was lost
fcvars == <<net, fwm, mtu_conf, req, tx, rx, high, low, cwork, reprs, reify, known, fcb>>

Idle == [st |-> "idle", p |-> "none", val |-> 0, who |-> "none", id |-> 0]

NewNetdev == [mtu |-> DefMtu, carrier |-> FALSE]

FcInit ==
    /\ net = [p \in PhysPorts |-> NewNetdev]
    /\ fwm = [p \in PhysPorts |-> DefMtu]
    /\ mtu_conf = [val |-> 0, port |-> "none", ack |-> FALSE]
    /\ req = Idle /\ tx = <<>> /\ rx = <<>> /\ high = <<>> /\ low = <<>>
    /\ cwork = [pend |-> FALSE, list |-> <<>>]
    /\ reprs = {} /\ known = {} /\ reify = [st |-> "none", need |-> 0, replies |-> 0]
    /\ fcb = [ids |-> 0, reqs |-> 0, links |-> 0, late |-> 0, spawns |-> 0, lost |-> FALSE]

PortMod(p, link, mtu, only, id) ==
    [type |-> "PORT_MOD", p |-> p, link |-> link, mtu |-> mtu, only |-> only, id |-> id]
Reify(p, exists) == [type |-> "PORT_REIFY", p |-> p, exists |-> exists]
OtherMsg == [type |-> "OTHER"]

-----------------------------------------------------------------------------
(***************************************************************************)
(* nfp_flower_repr_change_mtu().                                           *)
(***************************************************************************)
StartChange(p, val, who) ==
    /\ mtu_conf' = [val |-> val, port |-> p, ack |-> FALSE]
    /\ fcb' = [fcb EXCEPT !.ids = @ + 1, !.reqs = IF who = "user" THEN @ + 1 ELSE @]
    /\ req' = [st |-> "wait", p |-> p, val |-> val, who |-> who, id |-> fcb.ids + 1]
    /\ tx' = Append(tx, PortMod(p, net[p].carrier, val, TRUE, fcb.ids + 1))

UserSetsMtu ==
    \E p \in PhysPorts, val \in MtuVals :
        /\ req.st = "idle" /\ p \in reprs /\ val # net[p].mtu
        /\ fcb.reqs < MaxMtuReqs
        /\ StartChange(p, val, "user")
        /\ UNCHANGED <<net, fwm, rx, high, low, cwork, reprs, reify, known>>

\* nfp_flower_check_ack() is true; the stack takes over the new MTU.
ChangeDone ==
    /\ req.st = "wait" /\ mtu_conf.ack
    /\ net' = [net EXCEPT ![req.p].mtu = req.val]
    /\ req' = Idle
    /\ UNCHANGED <<fwm, mtu_conf, tx, rx, high, low, cwork, reprs, reify, known, fcb>>

NoLongerExpected == [mtu_conf EXCEPT !.val = 0]

ChangeTimesOut ==
    /\ req.st = "wait" /\ ~mtu_conf.ack /\ fcb.late < MaxLate
    /\ mtu_conf' = NoLongerExpected
    /\ req' = Idle
    /\ fcb' = [fcb EXCEPT !.late = @ + 1, !.lost = @ \/ ~net[req.p].carrier]
    /\ UNCHANGED <<net, fwm, tx, rx, high, low, cwork, reprs, reify, known>>

-----------------------------------------------------------------------------
(***************************************************************************)
(* The firmware.                                                           *)
(***************************************************************************)
FirmwareTakes ==
    /\ tx # <<>> /\ tx' = Tail(tx)
    /\ LET m == Head(tx)
       IN  CASE m.type = "PORT_MOD" ->
                    /\ fwm' = [fwm EXCEPT ![m.p] = m.mtu]
                    /\ rx' = Append(rx, m) /\ UNCHANGED known
             [] m.type = "PORT_REIFY" ->
                    /\ known' = IF m.exists THEN known \cup {m.p} ELSE known \ {m.p}
                    /\ rx' = Append(rx, m) /\ UNCHANGED fwm
    /\ UNCHANGED <<net, mtu_conf, req, high, low, cwork, reprs, reify, fcb>>

\* The link of a port it knows of went up or down.
FirmwareReports ==
    \E m \in {PortMod(p, l, mtu, FALSE, 0) : p \in known, l \in BOOLEAN, mtu \in {0} \cup MtuVals} \cup {OtherMsg} :
        /\ fcb.links < MaxLinks
        /\ m.type = "PORT_MOD" => m.mtu \in {0, fwm[m.p]}
        /\ rx' = Append(rx, m)
        /\ fcb' = [fcb EXCEPT !.links = @ + 1]
        /\ UNCHANGED <<net, fwm, mtu_conf, req, tx, high, low, cwork, reprs, reify, known>>

-----------------------------------------------------------------------------
(***************************************************************************)
(* nfp_flower_cmsg_rx(), in the context that receives the message.         *)
(***************************************************************************)
NoAckIsTaken(m) == FALSE
nfp_flower_process_mtu_ack(m) ==
    /\ m.only /\ mtu_conf.val # 0
    /\ mtu_conf.port = m.p /\ m.mtu = mtu_conf.val

nfp_flower_queue_ctl_msg(m) ==
    /\ IF m.type = "PORT_MOD"
       THEN /\ high' = IF Len(high) >= WorkqMax THEN high ELSE Append(high, m)
            /\ UNCHANGED low
            /\ cwork' = [cwork EXCEPT !.pend = @ \/ Len(high) < WorkqMax]
       ELSE /\ low' = IF Len(low) >= WorkqMax THEN low ELSE Append(low, m)
            /\ UNCHANGED high
            /\ cwork' = [cwork EXCEPT !.pend = @ \/ Len(low) < WorkqMax]

nfp_flower_cmsg_portreify_rx(m) ==
    IF m.p \in reprs THEN reify' = [reify EXCEPT !.replies = @ + 1] ELSE UNCHANGED reify

nfp_flower_cmsg_rx ==
    /\ rx # <<>> /\ rx' = Tail(rx)
    /\ LET m == Head(rx)
       IN  CASE m.type = "PORT_MOD" /\ nfp_flower_process_mtu_ack(m) ->
                    /\ mtu_conf' = [mtu_conf EXCEPT !.ack = TRUE, !.val = 0]
                    /\ UNCHANGED <<high, low, cwork, reify>>
             [] m.type = "PORT_REIFY" ->
                    nfp_flower_cmsg_portreify_rx(m) /\ UNCHANGED <<mtu_conf, high, low, cwork>>
             [] OTHER -> nfp_flower_queue_ctl_msg(m) /\ UNCHANGED <<mtu_conf, reify>>
    /\ fcb' = [fcb EXCEPT !.lost = @ \/ (Head(rx).type = "PORT_MOD" /\ Len(high) >= WorkqMax)]
    /\ UNCHANGED <<net, fwm, req, tx, reprs, known>>

-----------------------------------------------------------------------------
(***************************************************************************)
(* nfp_flower_cmsg_process_rx(), the worker.                               *)
(***************************************************************************)
nfp_flower_cmsg_process_rx ==
    /\ cwork.pend /\ cwork.list = <<>>
    /\ cwork' = [pend |-> FALSE, list |-> high \o low]
    /\ high' = <<>> /\ low' = <<>>
    /\ UNCHANGED <<net, fwm, mtu_conf, req, tx, rx, reprs, reify, known, fcb>>

\* portmod_rx under the RTNL; dev_set_mtu() asks the firmware for the MTU.
nfp_flower_cmsg_portmod_rx(m) ==
    /\ req.st = "idle"
    /\ CASE m.p \notin reprs -> UNCHANGED <<net, mtu_conf, fcb, req, tx>>
         [] m.p \in reprs /\ ~m.link ->
                net' = [net EXCEPT ![m.p].carrier = FALSE] /\ UNCHANGED <<mtu_conf, fcb, req, tx>>
         [] OTHER ->
                /\ net' = [net EXCEPT ![m.p].carrier = TRUE]
                /\ IF m.mtu \in {0, net[m.p].mtu} THEN UNCHANGED <<mtu_conf, fcb, req, tx>>
                   ELSE /\ mtu_conf' = [val |-> m.mtu, port |-> m.p, ack |-> FALSE]
                        /\ fcb' = [fcb EXCEPT !.ids = @ + 1]
                        /\ req' = [st |-> "wait", p |-> m.p, val |-> m.mtu, who |-> "work", id |-> fcb.ids + 1]
                        /\ tx' = Append(tx, PortMod(m.p, TRUE, m.mtu, TRUE, fcb.ids + 1))

nfp_flower_cmsg_process_one_rx ==
    /\ cwork.list # <<>> /\ req.who # "work"
    /\ cwork' = [cwork EXCEPT !.list = Tail(@)]
    /\ IF Head(cwork.list).type = "PORT_MOD" THEN nfp_flower_cmsg_portmod_rx(Head(cwork.list))
       ELSE UNCHANGED <<net, mtu_conf, fcb, req, tx>>
    /\ UNCHANGED <<fwm, rx, high, low, reprs, reify, known>>

-----------------------------------------------------------------------------
(***************************************************************************)
(* Representors: registered, announced, confirmed; and taken down again.   *)
(***************************************************************************)
FreshReplies == 0

\* nfp_flower_reprs_reify(): one message each.
ReifyAll(exists, S) ==
    LET f == CHOOSE g \in [1 .. Cardinality(S) -> S] : \A i, j \in DOMAIN g : g[i] = g[j] => i = j
    IN  [i \in 1 .. Cardinality(S) |-> Reify(f[i], exists)]

nfp_flower_spawn_phy_reprs ==
    /\ reify.st = "none" /\ fcb.spawns < MaxSpawns
    /\ reprs' = PhysPorts
    /\ reify' = [st |-> "spawn", need |-> Cardinality(PhysPorts), replies |-> FreshReplies]
    /\ tx' = tx \o ReifyAll(TRUE, PhysPorts)
    /\ net' = [p \in PhysPorts |-> NewNetdev]
    /\ fcb' = [fcb EXCEPT !.spawns = @ + 1, !.lost = @ \/ \E p \in PhysPorts : fwm[p] # DefMtu]
    /\ UNCHANGED <<fwm, mtu_conf, req, rx, high, low, cwork, known>>

nfp_flower_wait_repr_reify ==
    /\ reify.st = "spawn" /\ reify.replies >= reify.need
    /\ reify' = [reify EXCEPT !.st = "up"]
    /\ UNCHANGED <<net, fwm, mtu_conf, req, tx, rx, high, low, cwork, reprs, known, fcb>>

\* "Not all reprs responded to reify": they are removed.
SpawnTimesOut ==
    /\ reify.st = "spawn" /\ reify.replies < reify.need /\ fcb.late < MaxLate
    /\ req.st = "idle"
    /\ reify' = [reify EXCEPT !.st = "none"]
    /\ reprs' = {}
    /\ fcb' = [fcb EXCEPT !.late = @ + 1]
    /\ UNCHANGED <<net, fwm, mtu_conf, req, tx, rx, high, low, cwork, known>>

\* nfp_reprs_clean_and_free_by_type(): every one is announced as gone, and the
\* answer awaited for a while, before they are taken off under the RTNL.
nfp_flower_repr_netdev_preclean ==
    /\ \/ reify.st = "up" /\ UNCHANGED fcb
       \/ reify.st = "clean" /\ reify.replies >= 1 /\ UNCHANGED fcb
       \/ reify.st = "clean" /\ reify.replies < 1 /\ fcb.late < MaxLate /\ fcb' = [fcb EXCEPT !.late = @ + 1]
    /\ LET todo == IF reify.st = "up" THEN Cardinality(PhysPorts) ELSE reify.need - 1
       IN  IF todo = 0
           THEN /\ req.st = "idle"
                /\ reprs' = {} /\ reify' = [reify EXCEPT !.st = "none"] /\ UNCHANGED tx
           ELSE /\ reify' = [st |-> "clean", need |-> todo, replies |-> FreshReplies]
                /\ tx' = Append(tx, ReifyAll(FALSE, PhysPorts)[todo])
                /\ UNCHANGED reprs
    /\ UNCHANGED <<net, fwm, mtu_conf, req, rx, high, low, cwork, known>>

FcNext ==
    \/ UserSetsMtu \/ ChangeDone \/ ChangeTimesOut
    \/ FirmwareTakes \/ FirmwareReports
    \/ nfp_flower_cmsg_rx \/ nfp_flower_cmsg_process_rx \/ nfp_flower_cmsg_process_one_rx
    \/ nfp_flower_spawn_phy_reprs \/ nfp_flower_wait_repr_reify \/ SpawnTimesOut
    \/ nfp_flower_repr_netdev_preclean

-----------------------------------------------------------------------------
(***************************************************************************)
(* Properties.                                                             *)
(***************************************************************************)
InQueue(id) == \E q \in {high, low, cwork.list} : \E i \in 1 .. Len(q) : q[i].type = "PORT_MOD" /\ q[i].id = id

\* "Handle MTU acks outside wq to prevent RTNL conflict": the answer to the MTU
\* change that waits for it, holding the RTNL, never lands on the queue of the
\* worker that needs the RTNL (nfp_flower_cmsg_rx(), nfp_flower_process_mtu_ack()).
AnswerNotQueued == req.st = "wait" /\ ~mtu_conf.ack => ~InQueue(req.id)

FcQuiet == /\ req.st = "idle" /\ tx = <<>> /\ rx = <<>> /\ high = <<>> /\ low = <<>>
           /\ cwork = [pend |-> FALSE, list |-> <<>>]

\* When nothing is under way, a port whose link is up has the same MTU in the
\* stack and in the firmware: also after an MTU change timed out and its answer
\* came late, unless that answer says the link is down, met a full queue or the
\* port got a new representor since (nfp_flower_repr_change_mtu(), nfp_flower_cmsg_portmod_rx()).
MtuAgrees == FcQuiet /\ reify.st = "up" /\ ~fcb.lost => \A p \in PhysPorts : net[p].carrier => net[p].mtu = fwm[p]

\* Unless a wait timed out before, the representors are up only once the firmware
\* has answered for every one of them (nfp_flower_wait_repr_reify()).
ReprsConfirmed == reify.st = "up" /\ fcb.late = 0 => reprs \subseteq known
=============================================================================

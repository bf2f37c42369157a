--------------------------------- MODULE Lag ---------------------------------
(***************************************************************************)
(* Bonds offloaded by the flower app (flower/lag_conf.c).  Notifiers mark  *)
(* a bond's group dirty or to be removed and schedule the work, which      *)
(* sends a batch of messages, ended by one with the SYNC id.  The firmware *)
(* takes a batch when it ends; it may hand messages back (DATA), ask for   *)
(* those (XON) and for everything (SYNC).                                  *)
(*                                                                         *)
(* The stack changes a bond before its notifier runs, and the work may run *)
(* in between.                                                             *)
(***************************************************************************)
EXTENDS Integers, Sequences, FiniteSets, TLC, SequencesExt

CONSTANTS
    Masters,        \* bond masters
    Ports,          \* devices that join bonds
    Foreign,        \* those that are not representors of this card
    OtherModes,     \* masters in a mode the firmware does not support
    GroupMax,       \* NFP_FL_LAG_GROUP_MAX: ids are below it
    RetransLimit,   \* NFP_FL_LAG_RETRANS_LIMIT
    MaxBondOps,     \* bound: changes of bonds and ports
    MaxLagFaults,   \* bound: messages that cannot be allocated
    MaxSyncs        \* bound: messages handed back and full resyncs

ASSUME LagConstants ==
    /\ Foreign \subseteq Ports /\ OtherModes \subseteq Masters
    /\ GroupMax \in Nat \ {0, 1} /\ RetransLimit \in Nat
    /\ MaxBondOps \in Nat /\ MaxLagFaults \in Nat /\ MaxSyncs \in Nat

NoMaster == [master |-> "none", linking |-> FALSE]

VARIABLES
    groups,         \* lag->group_list, a sequence
    bond,           \* the ports enslaved to each master
    registered,     \* masters that exist
    dying,          \* masters whose ports are being released by unregistration
    note,           \* [master, linking] of a NETDEV_CHANGEUPPER still to be handled
    up, changed,    \* ports with link and tx enabled; with NFP_PORT_LAG_CHANGED
    work,           \* lag->work is scheduled
    rst_cfg,        \* lag->rst_cfg
    chan,           \* messages the firmware has not taken
    retrans,        \* lag->retrans_skbs
    fw,             \* the firmware: [stage, act], group ids to members
    lagc            \* counts and what went wrong: see LagInit

lagvars == <<groups, bond, registered, dying, note, up, changed, work, rst_cfg, chan,
             retrans, fw, lagc>>

LagInit ==
    /\ groups = <<>> /\ bond = [m \in Masters |-> {}] /\ registered = Masters
    /\ dying = {} /\ note = NoMaster /\ up = {} /\ changed = {}
    /\ work = FALSE /\ rst_cfg = FALSE /\ chan = <<>> /\ retrans = <<>>
    /\ fw = [stage |-> <<>>, act |-> <<>>]
    /\ lagc = [ops |-> 0, faults |-> 0, syncs |-> 0,
               endlost |-> FALSE, rststuck |-> FALSE, returned |-> FALSE]

Counted == lagc.ops < MaxBondOps /\ lagc' = [lagc EXCEPT !.ops = @ + 1]

-----------------------------------------------------------------------------
(***************************************************************************)
(* Messages.  b is the state of a batch: its phase, the messages so far    *)
(* and lag->rst_cfg.                                                       *)
(***************************************************************************)
Batch(phase, rst) == [phase |-> phase, msgs |-> <<>>, rst |-> rst]

\* A reset message ends its batch, and the reset is done.
ResetDone(b) == FALSE

\* A message for group g, whose active members are given.
nfp_fl_lag_config_group(b, g, members) ==
    LET phase == IF b.rst THEN "finished" ELSE IF b.phase = "first" THEN "member" ELSE b.phase
        m == IF phase = "finished"
             THEN [kind |-> IF b.rst THEN "reset" ELSE "end", id |-> 0, members |-> {}]
             ELSE [kind |-> "group", id |-> g.id, members |-> members]
    IN  [phase |-> phase, msgs |-> Append(b.msgs, m), rst |-> ResetDone(b)]

GroupOf(m) == SelectSeq(groups, LAMBDA g : g.master = m)
HasGroup(m) == GroupOf(m) # <<>>
FreeGroupIds == (1 .. GroupMax - 1) \ {groups[i].id : i \in DOMAIN groups}

ChangeGroup(m, new) == [i \in DOMAIN groups |-> IF groups[i].master = m THEN new ELSE groups[i]]

nfp_fl_lag_group_create(m) ==
    [id |-> CHOOSE i \in FreeGroupIds : \A j \in FreeGroupIds : i <= j, master |-> m,
     dirty |-> TRUE, offloaded |-> FALSE, to_remove |-> FALSE, to_destroy |-> FALSE,
     cnt |-> 0]

-----------------------------------------------------------------------------
(***************************************************************************)
(* The stack: ports join and leave bonds; a bond is unregistered, and its  *)
(* ports are released after the NETDEV_UNREGISTER notifier ran.            *)
(***************************************************************************)
Enslave(m, p) ==
    /\ note = NoMaster /\ m \in registered /\ \A n \in Masters : p \notin bond[n]
    /\ bond' = [bond EXCEPT ![m] = @ \cup {p}] /\ note' = [master |-> m, linking |-> TRUE] /\ Counted
    /\ UNCHANGED <<groups, registered, dying, up, changed, work, rst_cfg, chan, retrans, fw>>

Release(m, p) ==
    /\ note = NoMaster /\ p \in bond[m]
    /\ bond' = [bond EXCEPT ![m] = @ \ {p}] /\ note' = [master |-> m, linking |-> FALSE]
    /\ IF m \in dying THEN UNCHANGED lagc ELSE Counted
    /\ UNCHANGED <<groups, registered, dying, up, changed, work, rst_cfg, chan, retrans, fw>>

\* The last reference to a dying master goes.
MasterGone(m) ==
    /\ m \in dying /\ bond[m] = {} /\ note = NoMaster
    /\ dying' = dying \ {m}
    /\ UNCHANGED <<groups, bond, registered, note, up, changed, work, rst_cfg, chan, retrans, fw, lagc>>

\* lag_upper_info, which names the mode, is there only when a port joins.
CanOffload(m) == bond[m] \cap Foreign = {} /\ (note.linking => m \notin OtherModes)

nfp_fl_lag_changeupper_event(m) ==
    /\ note.master = m /\ note' = NoMaster
    /\ LET can_offload == CanOffload(m)
           old == GroupOf(m)
           cnt == Cardinality(bond[m])
           gs == IF HasGroup(m) THEN groups ELSE Append(groups, nfp_fl_lag_group_create(m))
           Touched(g) == [g EXCEPT !.dirty = TRUE, !.cnt = cnt, !.to_remove = FALSE]
       IN  \/ /\ cnt = 0 \/ ~can_offload
              /\ IF HasGroup(m) /\ old[1].offloaded
                 THEN groups' = ChangeGroup(m, [old[1] EXCEPT !.to_remove = TRUE]) /\ work' = TRUE
                 ELSE UNCHANGED <<groups, work>>
           \/ /\ cnt > 0 /\ can_offload /\ ~HasGroup(m) /\ FreeGroupIds = {}
              /\ UNCHANGED <<groups, work>>
           \/ /\ cnt > 0 /\ can_offload /\ (HasGroup(m) \/ FreeGroupIds # {})
              /\ groups' = [i \in DOMAIN gs |-> IF gs[i].master = m THEN Touched(gs[i]) ELSE gs[i]]
              /\ work' = TRUE
    /\ UNCHANGED <<bond, registered, dying, up, changed, rst_cfg, chan, retrans, fw, lagc>>

nfp_fl_lag_changels_event(p) ==
    /\ p \notin Foreign /\ \E m \in Masters : p \in bond[m]
    /\ up' = IF p \in up THEN up \ {p} ELSE up \cup {p}
    /\ changed' = changed \cup {p} /\ work' = TRUE /\ Counted
    /\ UNCHANGED <<groups, bond, registered, dying, note, rst_cfg, chan, retrans, fw>>

\* NETDEV_UNREGISTER.
nfp_fl_lag_schedule_group_delete(m) ==
    /\ note = NoMaster /\ m \in registered
    /\ registered' = registered \ {m} /\ dying' = dying \cup {m}
    /\ IF HasGroup(m)
       THEN /\ groups' = ChangeGroup(m, [GroupOf(m)[1] EXCEPT !.to_remove = TRUE, !.to_destroy = TRUE])
            /\ work' = TRUE
       ELSE UNCHANGED <<groups, work>>
    /\ Counted
    /\ UNCHANGED <<bond, note, up, changed, rst_cfg, chan, retrans, fw>>

-----------------------------------------------------------------------------
(***************************************************************************)
(* The work.  oom: the groups (0: the end of the batch) whose message      *)
(* cannot be allocated.  The walk's state is [b, kept, resched].           *)
(***************************************************************************)
NoRetry(w, g) == [w EXCEPT !.kept = Append(@, g)]

\* The message could not be allocated: the group stays as it is, and the work
\* is scheduled again.
Retry(w, g) == [w EXCEPT !.kept = Append(@, g), !.resched = TRUE]

WalkGroup(w, g, oom) ==
    LET slaves == IF bond[g.master] \cap Foreign = {} THEN bond[g.master] ELSE {}
        dirty == g.dirty \/ (slaves \cap changed # {} /\ ~g.to_remove)
        live == slaves \cap up
        sendsRemove == nfp_fl_lag_config_group(w.b, g, {})
        sends == nfp_fl_lag_config_group(w.b, g, live)
    IN  CASE g.to_remove /\ g.id \in oom ->
                Retry(w, g)
          [] g.to_remove /\ g.id \notin oom ->
                [w EXCEPT !.b = sendsRemove,
                          !.kept = IF g.to_destroy THEN @
                                   ELSE Append(@, [g EXCEPT !.to_remove = FALSE, !.offloaded = FALSE])]
          [] ~g.to_remove /\ (Cardinality(slaves) # g.cnt \/ ~dirty) ->
                [w EXCEPT !.kept = Append(@, [g EXCEPT !.dirty = dirty])]
          [] ~g.to_remove /\ Cardinality(slaves) = g.cnt /\ dirty /\ g.id \in oom ->
                Retry(w, [g EXCEPT !.dirty = TRUE])
          [] OTHER ->
                [w EXCEPT !.b = sends,
                          !.kept = Append(@, [g EXCEPT !.dirty = FALSE, !.offloaded = TRUE])]

\* A port's flag is looked at when its group is walked and not removed.
Walked(g) == IF g.to_remove \/ bond[g.master] \cap Foreign # {} THEN {} ELSE bond[g.master]

nfp_fl_lag_do_work(oom) ==
    /\ work
    /\ \A i \in DOMAIN groups : groups[i].master \in registered \cup dying \/ groups[i].to_remove
    /\ LET w == FoldLeft(LAMBDA v, g : WalkGroup(v, g, oom),
                         [b |-> Batch("first", rst_cfg), kept |-> <<>>, resched |-> FALSE], groups)
           ends == w.b.phase = "member"
           end == nfp_fl_lag_config_group([w.b EXCEPT !.phase = "finished"], 0, {})
           b == IF ends /\ 0 \notin oom THEN end ELSE w.b
       IN  /\ groups' = w.kept /\ work' = w.resched
           /\ chan' = chan \o b.msgs /\ rst_cfg' = b.rst
           /\ changed' = changed \ UNION {Walked(groups[i]) : i \in DOMAIN groups}
           /\ lagc' = [lagc EXCEPT !.faults = @ + Cardinality(oom),
                                   !.endlost = @ \/ (ends /\ 0 \in oom)]
    /\ UNCHANGED <<bond, registered, dying, note, up, retrans, fw>>

-----------------------------------------------------------------------------
(***************************************************************************)
(* The firmware, and the messages it sends.                                *)
(***************************************************************************)
Set(table, id, members) ==
    IF members = {} THEN [i \in DOMAIN table \ {id} |-> table[i]] ELSE (id :> members) @@ table

FirmwareTakesBond ==
    /\ chan # <<>> /\ chan' = Tail(chan)
    /\ LET m == Head(chan)
       IN  fw' = CASE m.kind = "group" -> [fw EXCEPT !.stage = Set(@, m.id, m.members)]
                   [] m.kind = "end" -> [fw EXCEPT !.act = fw.stage]
                   [] OTHER -> [stage |-> <<>>, act |-> <<>>]
    /\ UNCHANGED <<groups, bond, registered, dying, note, up, changed, work, rst_cfg, retrans, lagc>>

\* DATA: the message comes back and is stored, unless there are too many.
nfp_fl_lag_put_unprocessed ==
    /\ chan # <<>> /\ lagc.syncs < MaxSyncs /\ Head(chan).kind = "group"
    /\ chan' = Tail(chan)
    /\ retrans' = IF Len(retrans) >= RetransLimit THEN retrans ELSE Append(retrans, Head(chan))
    /\ lagc' = [lagc EXCEPT !.syncs = @ + 1, !.returned = TRUE]
    /\ UNCHANGED <<groups, bond, registered, dying, note, up, changed, work, rst_cfg, fw>>

\* XON: the stored messages are sent again.
nfp_fl_send_unprocessed ==
    /\ retrans # <<>> /\ chan' = chan \o retrans /\ retrans' = <<>>
    /\ UNCHANGED <<groups, bond, registered, dying, note, up, changed, work, rst_cfg, fw, lagc>>

\* SYNC: reset the firmware's groups and send all again.
nfp_flower_lag_unprocessed_msg(oom) ==
    /\ lagc.syncs < MaxSyncs
    /\ retrans' = <<>> /\ work' = TRUE
    /\ groups' = [i \in DOMAIN groups |-> [groups[i] EXCEPT !.dirty = TRUE]]
    /\ LET b == nfp_fl_lag_config_group(Batch("first", TRUE), 0, {})
       IN  IF oom THEN rst_cfg' = TRUE /\ UNCHANGED chan
           ELSE rst_cfg' = b.rst /\ chan' = chan \o b.msgs
    /\ lagc' = [lagc EXCEPT !.syncs = @ + 1, !.faults = IF oom THEN @ + 1 ELSE @,
                            !.returned = FALSE, !.endlost = FALSE,
                            !.rststuck = @ \/ oom]
    /\ UNCHANGED <<bond, registered, dying, note, up, changed, fw>>

-----------------------------------------------------------------------------
MoreFaults(n) == lagc.faults + n <= MaxLagFaults

LagNext ==
    \/ \E m \in Masters, p \in Ports : Enslave(m, p) \/ Release(m, p)
    \/ \E m \in Masters : nfp_fl_lag_changeupper_event(m)
    \/ \E m \in Masters : nfp_fl_lag_schedule_group_delete(m) \/ MasterGone(m)
    \/ \E p \in Ports : nfp_fl_lag_changels_event(p)
    \/ \E oom \in SUBSET (0 .. GroupMax - 1) : MoreFaults(Cardinality(oom)) /\ nfp_fl_lag_do_work(oom)
    \/ FirmwareTakesBond \/ nfp_fl_lag_put_unprocessed \/ nfp_fl_send_unprocessed
    \/ \E oom \in BOOLEAN : (oom => MoreFaults(1)) /\ nfp_flower_lag_unprocessed_msg(oom)

-----------------------------------------------------------------------------
(***************************************************************************)
(* Properties.                                                             *)
(***************************************************************************)
Settled == ~work /\ chan = <<>> /\ note = NoMaster

\* Once the work has run and the firmware has taken the messages, the firmware
\* has the members of every bond that is offloaded as they are, and no group
\* the driver does not know (lag_conf.c:299-426); a lost end of a batch and a
\* message handed back are repaired by the next SYNC.
FirmwareHasBonds ==
    Settled /\ ~lagc.endlost /\ ~lagc.returned /\ ~lagc.rststuck =>
        \A id \in 1 .. GroupMax - 1 :
            LET g == SelectSeq(groups, LAMBDA x : x.id = id)
            IN  IF g # <<>> /\ g[1].offloaded
                THEN IF g[1].master \in registered
                     THEN (IF id \in DOMAIN fw.act THEN fw.act[id] ELSE {}) = bond[g[1].master] \cap up
                     ELSE TRUE
                ELSE id \notin DOMAIN fw.act

\* A group that still has to be sent or removed has the work scheduled, unless
\* its bond changes or a notification is under way (lag_conf.c:330, 404).
NothingForgotten ==
    ~work /\ note = NoMaster =>
        \A i \in DOMAIN groups :
            /\ ~groups[i].to_remove
            /\ groups[i].dirty => 
                  \/ Cardinality(bond[groups[i].master]) # groups[i].cnt
                  \/ bond[groups[i].master] \cap Foreign # {}

\* "Firmware supports active/backup and L3/L4 hash bonds" (lag_conf.c:567):
\* no other bond has a group.
OnlySupported == \A i \in DOMAIN groups : groups[i].master \notin OtherModes

\* "@to_destroy: Marked if the group should be removed from driver": a group
\* does not outlive its master (lag_conf.c:57).
GroupHasMaster ==
    \A i \in DOMAIN groups :
        groups[i].master \in registered \cup dying \/ (groups[i].to_remove /\ groups[i].to_destroy)

\* The four steps of a resync, "3) Reset NFP group config 4) Schedule a LAG
\* config update" (lag_conf.c:474), leave the firmware with the bonds.
ResyncRestores ==
    Settled /\ ~lagc.endlost /\ ~lagc.returned =>
        \A i \in DOMAIN groups :
            groups[i].offloaded /\ groups[i].master \in registered /\ bond[groups[i].master] \cap up # {}
                => groups[i].id \in DOMAIN fw.act

=============================================================================

------------------------------- MODULE Tunnels ------------------------------
(***************************************************************************)
(* Tunnel endpoints offloaded to the firmware (flower/tunnel_conf.c).      *)
(*                                                                         *)
(* MAC addresses: several netdevs may share an address; the entry of an    *)
(* address counts them, and its index in the firmware is that of the port  *)
(* when one representor uses it, a global one when it is shared, with a    *)
(* bit for the pre-tunnel table when a bridge uses it.  Netdev notifiers   *)
(* run under the RTNL, so each event is one step.                          *)
(*                                                                         *)
(* Neighbours, and the pre-tunnel flows they are linked to: every change   *)
(* of a neighbour queues a work item of its own, and the firmware may ask  *)
(* for a route; both read the neighbour's state and then write the entry   *)
(* under predt_lock.  Nothing orders the work items.                       *)
(***************************************************************************)
EXTENDS Integers, Sequences, FiniteSets, SequencesExt

CONSTANTS
    MacDevs,        \* netdevs
    DevKind,        \* "phy" (representor), "lagphy" (in a bond), "bridge", "other"
    PortNo,         \* port of a representor
    Macs,           \* addresses
    MaxMacIndex,    \* NFP_MAX_MAC_INDEX
    MaxMacOps,      \* bound: events
    MaxMacFaults    \* bound: failures of an allocation or a message

ASSUME TunMacConstants ==
    /\ DevKind \in [MacDevs -> {"phy", "lagphy", "bridge", "other"}]
    /\ PortNo \in [MacDevs -> Nat] /\ MaxMacIndex \in Nat

VARIABLES mdev,     \* per netdev: flags, address and what is offloaded for it
          macs,     \* offloaded_macs
          mac_ids,  \* mac_off_ids
          macfw,    \* index of each address in the firmware
          macc      \* bounds used, and whether a change of address failed
macvars == <<mdev, macs, mac_ids, macfw, macc>>

IsRepr(d) == DevKind[d] \in {"phy", "lagphy"}
IsBridge(d) == DevKind[d] = "bridge"

MacInit ==
    /\ mdev \in [MacDevs -> [up : {FALSE}, addr : Macs, off : {FALSE}, off_mac : {"none"}, on_bridge : {FALSE}]]
    /\ macs = [m \in {} |-> 0] /\ mac_ids = {}
    /\ macfw = [m \in {} |-> 0]
    /\ macc = [ops |-> 0, faults |-> 0, failed |-> FALSE]

-----------------------------------------------------------------------------
(***************************************************************************)
(* Indexes: a number in the high byte, a port type and flags in the low.   *)
(***************************************************************************)
PhyIdx(d) == [id |-> PortNo[d], type |-> "PHYS", pre |-> FALSE, v6 |-> FALSE]
GlobalIdx(i, pre) == [id |-> i, type |-> "OTHER", pre |-> pre, v6 |-> FALSE]
\* The whole low byte is compared with the port type.
nfp_tunnel_is_mac_idx_global(x) == x.type = "OTHER" /\ ~x.pre /\ ~x.v6
FreeIds(s) == (0 .. MaxMacIndex) \ s.ids
LowestFree(s) == CHOOSE i \in FreeIds(s) : \A j \in FreeIds(s) : i <= j

State == [macs |-> macs, ids |-> mac_ids, fw |-> macfw, err |-> FALSE]
DropRef(f, x) == [y \in DOMAIN f \ {x} |-> f[y]]
Put(f, x, v) == [y \in DOMAIN f \cup {x} |-> IF y = x THEN v ELSE f[y]]

\* What the firmware knows after __nfp_tunnel_offload_mac() told it.
MacOffloaded(fw, m, idx) == Put(fw, m, idx)
MacDeleted(fw, m) == DropRef(fw, m)

nfp_tunnel_offloaded_macs_inc_ref_and_link(e, d) ==
    [e EXCEPT !.ref = @ + 1,
              !.reprs = IF IsRepr(d) THEN @ \cup {d} ELSE @,
              !.bridges = IF IsBridge(d) THEN @ + 1 ELSE @]

\* list_del() of the representor: off whatever entry it is on.
Unlink(t, d) == [m \in DOMAIN t |-> [t[m] EXCEPT !.reprs = @ \ {d}]]

\* A failure f: "mem" of the entry, "xmit" of the message to the firmware.
nfp_tunnel_add_shared_mac(s, d, m, mod, f) ==
    LET entry == m \in DOMAIN s.macs
        shared == entry /\ (nfp_tunnel_is_mac_idx_global(s.macs[m].index) \/ DevKind[d] = "lagphy")
        linked(t, idx) == LET u == IF mod /\ IsRepr(d) THEN Unlink(t, d) ELSE t
                              e == IF m \in DOMAIN u THEN u[m] ELSE [index |-> idx, ref |-> 0, reprs |-> {}, bridges |-> 0]
                          IN  Put(u, m, [nfp_tunnel_offloaded_macs_inc_ref_and_link(e, d) EXCEPT !.index = idx])
        ida == ~shared /\ (entry \/ ~IsRepr(d))
        idx == IF shared THEN [s.macs[m].index EXCEPT !.pre = TRUE]
               ELSE IF ida THEN GlobalIdx(LowestFree(s), IsBridge(d)) ELSE PhyIdx(d)
    IN  IF shared /\ (s.macs[m].bridges > 0 \/ ~IsBridge(d))
        THEN [s EXCEPT !.macs = linked(@, s.macs[m].index)]
        ELSE IF ida /\ FreeIds(s) = {} THEN [s EXCEPT !.err = TRUE]
        ELSE IF (f = "mem" /\ ~entry) \/ f = "xmit" THEN [s EXCEPT !.err = TRUE]
        ELSE [s EXCEPT !.macs = linked(@, idx), !.ids = IF ida THEN @ \cup {idx.id} ELSE @,
                       !.fw = MacOffloaded(@, m, idx)]

-----------------------------------------------------------------------------
\* The device leaves the entry of the address.
Uncount(s, d, m, mod) ==
    [s EXCEPT !.macs = [(IF IsRepr(d) /\ ~mod THEN Unlink(@, d) ELSE @)
                          EXCEPT ![m].ref = @ - 1, ![m].bridges = IF IsBridge(d) THEN @ - 1 ELSE @]]

nfp_tunnel_del_shared_mac(s0, d, m, mod, f) ==
    IF m \notin DOMAIN s0.macs THEN s0
    ELSE LET s == Uncount(s0, d, m, mod)
             e == s.macs[m]
             nopre == [e.index EXCEPT !.pre = FALSE]
             last == CHOOSE r \in e.reprs : TRUE
             own == IF IsBridge(d) THEN nopre ELSE e.index
         IN  IF IsBridge(d) /\ e.bridges = 0 /\ e.ref > 0
             THEN IF f = "xmit" THEN s
                  ELSE [s EXCEPT !.fw = MacOffloaded(@, m, nopre), !.macs[m].index = nopre]
             ELSE IF e.ref = 1 /\ Cardinality(e.reprs) = 1
             THEN IF f = "xmit" THEN s
                  ELSE [s EXCEPT !.fw = MacOffloaded(@, m, PhyIdx(last)), !.macs[m].index = PhyIdx(last),
                                 !.ids = @ \ {e.index.id}]
             ELSE IF e.ref > 0 THEN s
             ELSE [s EXCEPT !.macs = DropRef(@, m),
                            !.ids = IF nfp_tunnel_is_mac_idx_global(own) THEN @ \ {e.index.id} ELSE @,
                            !.fw = IF f = "xmit" THEN @ ELSE MacDeleted(@, m),
                            !.err = f = "xmit"]

-----------------------------------------------------------------------------
(***************************************************************************)
(* nfp_tunnel_offload_mac(), for the netdev as the event leaves it.        *)
(* failed: a change of address whose new address could not be added.       *)
(***************************************************************************)
NewAddress(dv) == dv.addr
OffloadedAddress(dv) == dv.off_mac

Outcome(s, dv, failed) == [s |-> s, dv |-> dv, failed |-> failed]

AddMac(s0, d, dv, f) ==
    LET s == nfp_tunnel_add_shared_mac(s0, d, dv.addr, FALSE, f)
    IN  Outcome(s, IF s.err THEN dv ELSE [dv EXCEPT !.off = TRUE, !.off_mac = dv.addr], FALSE)

DelMac(s, d, dv, f) ==
    IF ~dv.off THEN Outcome(s, dv, FALSE)
    ELSE Outcome(nfp_tunnel_del_shared_mac(s, d, dv.addr, FALSE, f), [dv EXCEPT !.off = FALSE], FALSE)

ModMac(s0, d, dv, f) ==
    IF dv.addr = dv.off_mac THEN Outcome(s0, dv, FALSE)
    ELSE LET s == nfp_tunnel_add_shared_mac(s0, d, dv.addr, TRUE, f)
         IN  IF s.err THEN Outcome(s, dv, TRUE)
             ELSE Outcome(nfp_tunnel_del_shared_mac(s, d, OffloadedAddress(dv), TRUE,
                                                    IF f = "delxmit" THEN "xmit" ELSE "none"),
                          [dv EXCEPT !.off_mac = dv.addr], FALSE)

nfp_tunnel_offload_mac(d, dv, cmd, f) ==
    CASE dv.on_bridge -> Outcome(State, dv, FALSE)
      [] ~dv.on_bridge /\ (cmd = "ADD" \/ (cmd = "MOD" /\ ~dv.off)) -> AddMac(State, d, dv, f)
      [] ~dv.on_bridge /\ cmd = "DEL" -> DelMac(State, d, dv, f)
      [] ~dv.on_bridge /\ cmd = "MOD" /\ dv.off -> ModMac(State, d, dv, f)

-----------------------------------------------------------------------------
(***************************************************************************)
(* nfp_tunnel_mac_event_handler().                                         *)
(***************************************************************************)
Handled(d, r, f) ==
    /\ macc.ops < MaxMacOps
    /\ f = "none" \/ macc.faults < MaxMacFaults
    /\ macs' = r.s.macs /\ mac_ids' = r.s.ids /\ macfw' = r.s.fw
    /\ mdev' = [mdev EXCEPT ![d] = r.dv]
    /\ macc' = [ops |-> macc.ops + 1, faults |-> macc.faults + (IF f = "none" THEN 0 ELSE 1),
                failed |-> macc.failed \/ r.failed]

MacFaults == {"none", "mem", "xmit"}

NetdevUp == \E d \in MacDevs, f \in MacFaults :
    /\ ~mdev[d].up
    /\ Handled(d, nfp_tunnel_offload_mac(d, [mdev[d] EXCEPT !.up = TRUE], "ADD", f), f)

NetdevDown == \E d \in MacDevs, f \in {"none", "xmit"} :
    /\ mdev[d].up
    /\ Handled(d, nfp_tunnel_offload_mac(d, [mdev[d] EXCEPT !.up = FALSE], "DEL", f), f)

\* "Only offload addr change if netdev is already up."
NetdevChangeAddr == \E d \in MacDevs, m \in Macs, f \in MacFaults \cup {"delxmit"} :
    LET dv == [mdev[d] EXCEPT !.addr = m]
    IN  /\ m # mdev[d].addr
        /\ Handled(d, IF dv.up THEN nfp_tunnel_offload_mac(d, dv, "MOD", f) ELSE Outcome(State, dv, FALSE), f)

\* A representor joins a bridge ...
BridgeLinks == \E d \in MacDevs, f \in {"none", "xmit"} :
    /\ IsRepr(d) /\ ~mdev[d].on_bridge
    /\ LET r == nfp_tunnel_offload_mac(d, mdev[d], "DEL", f)
       IN  Handled(d, [r EXCEPT !.dv.on_bridge = TRUE], f)

\* ... and leaves it.
BridgeUnlinks == \E d \in MacDevs, f \in MacFaults :
    LET dv == [mdev[d] EXCEPT !.on_bridge = FALSE]
    IN  /\ IsRepr(d) /\ mdev[d].on_bridge
        /\ Handled(d, IF dv.up THEN nfp_tunnel_offload_mac(d, dv, "ADD", f) ELSE Outcome(State, dv, FALSE), f)

\* nfp_flower_xmit_pre_tun_flow() marks the index of the bridge's address.
PreTunFlow == \E d \in MacDevs, v6 \in BOOLEAN :
    LET m == mdev[d].addr
    IN  /\ IsBridge(d) /\ m \in DOMAIN macs /\ macc.ops < MaxMacOps
        /\ macs' = [macs EXCEPT ![m].index.v6 = v6]
        /\ macc' = [macc EXCEPT !.ops = @ + 1]
        /\ UNCHANGED <<mdev, mac_ids, macfw>>

MacNext == NetdevUp \/ NetdevDown \/ NetdevChangeAddr \/ BridgeLinks \/ BridgeUnlinks \/ PreTunFlow

-----------------------------------------------------------------------------
(***************************************************************************)
(* Properties.                                                             *)
(***************************************************************************)
MacUsers(m) == {d \in MacDevs : mdev[d].off /\ mdev[d].off_mac = m}

\* Unless a change of address failed before: an address has an entry exactly when
\* netdevs use it, the entry counts them, the representors and the bridges among
\* them, and the firmware looks the address up (nfp_tunnel_add_shared_mac(),
\* nfp_tunnel_del_shared_mac()).
MacsCounted ==
    ~macc.failed =>
        /\ DOMAIN macs = {m \in Macs : MacUsers(m) # {}}
        /\ \A m \in DOMAIN macs :
               /\ macs[m].ref = Cardinality(MacUsers(m))
               /\ macs[m].reprs = {d \in MacUsers(m) : IsRepr(d)}
               /\ macs[m].bridges = Cardinality({d \in MacUsers(m) : IsBridge(d)})
               /\ m \in DOMAIN macfw

\* "If MAC has global ID then extract and free the ida entry": no index stays
\* taken once no address is offloaded (nfp_tunnel_del_shared_mac()).
MacIdsReturn == macs = [m \in {} |-> 0] => mac_ids = {}

\* "Only attempt delete if add was successful": the address of a netdev that is up
\* stays offloaded while another netdev goes down (nfp_tunnel_offload_mac()).
MacStays == \A d \in MacDevs : mdev[d].off => mdev[d].off_mac \in DOMAIN macs

-----------------------------------------------------------------------------
(***************************************************************************)
(* Neighbours.                                                             *)
(***************************************************************************)
CONSTANTS
    Neighs,         \* neighbours
    Predts,         \* pre-tunnel flows
    RemMac,         \* remote address a pre-tunnel flow matches
    NeighMacs,      \* addresses of neighbours
    Writers,        \* contexts that may run a work item or a route request
    NoFlow,         \* no pre-tunnel flow
    MaxChanges,     \* bound: changes of a neighbour
    MaxRoutes,      \* bound: route requests of the firmware
    MaxNeighFaults  \* bound: failures of an allocation or a message

ASSUME TunNeighConstants == RemMac \in [Predts -> NeighMacs] /\ NoFlow \notin Predts

VARIABLES neigh,        \* the kernel's neighbours: valid, hardware address
          npend,        \* work items queued for each neighbour
          writer,       \* what each context is at
          nn,           \* neigh_table
          predt_list,   \* predt_list, newest first
          nnfw,         \* neighbours in the firmware
          stopped,      \* the notifier is unregistered, the table cleaned
          nbh           \* bounds used; neighbours two contexts worked on at once
neighvars == <<neigh, npend, writer, nn, predt_list, nnfw, stopped, nbh>>

NoWork == [n |-> "none", invalid |-> FALSE, override |-> FALSE]
Empty == [n \in {} |-> 0]

NeighInit ==
    /\ neigh \in [Neighs -> [valid : {FALSE}, mac : NeighMacs]]
    /\ npend = [n \in Neighs |-> 0]
    /\ writer = [w \in Writers |-> NoWork]
    /\ nn = Empty /\ nnfw = Empty /\ predt_list = <<>> /\ stopped = FALSE
    /\ nbh = [changes |-> 0, routes |-> 0, faults |-> 0, overlap |-> {}]

NeighDrop(f, n) == [y \in DOMAIN f \ {n} |-> f[y]]
NeighPut(f, n, v) == [y \in DOMAIN f \cup {n} |-> IF y = n THEN v ELSE f[y]]

\* nfp_flower_xmit_tun_conf() for an entry; its failure is ignored.
Sent(fw, n, e, f) == IF f = "xmit" THEN fw ELSE NeighPut(fw, n, [dst |-> e.dst, ctx |-> e.ctx])

nfp_tun_mutual_link(p, e) ==
    IF e.flow # NoFlow \/ RemMac[p] # e.dst THEN e
    ELSE [e EXCEPT !.flow = p, !.ctx = p]

nfp_tun_link_predt_entries(e) == FoldLeft(LAMBDA x, p : nfp_tun_mutual_link(p, x), e, predt_list)

-----------------------------------------------------------------------------
(***************************************************************************)
(* Events, and the two ways to nfp_tun_write_neigh().                      *)
(***************************************************************************)
\* nfp_tun_neigh_event_handler(), after a change of the neighbour.
NeighbourChanges == \E n \in Neighs, v \in BOOLEAN, m \in NeighMacs, f \in {"none", "mem"} :
    /\ nbh.changes < MaxChanges /\ neigh[n] # [valid |-> v, mac |-> m]
    /\ f = "none" \/ nbh.faults < MaxNeighFaults
    /\ neigh' = [neigh EXCEPT ![n] = [valid |-> v, mac |-> m]]
    /\ npend' = [npend EXCEPT ![n] = IF f = "mem" \/ stopped THEN @ ELSE @ + 1]
    /\ nbh' = [nbh EXCEPT !.changes = @ + 1, !.faults = IF f = "none" THEN @ ELSE @ + 1]
    /\ UNCHANGED <<writer, nn, predt_list, nnfw, stopped>>

\* neigh_invalid is read before predt_lock is taken.
Reads(w, n, override) ==
    /\ writer[w] = NoWork
    /\ writer' = [writer EXCEPT ![w] = [n |-> n, invalid |-> ~neigh[n].valid, override |-> override]]

NowOverlaps(n) == IF \E x \in Writers : writer[x].n = n THEN nbh.overlap \cup {n} ELSE nbh.overlap

nfp_tun_neigh_update == \E w \in Writers, n \in Neighs, f \in {"none", "route"} :
    /\ npend[n] > 0 /\ npend' = [npend EXCEPT ![n] = @ - 1]
    /\ IF f = "route"
       THEN /\ neigh[n].valid /\ nbh.faults < MaxNeighFaults /\ writer[w] = NoWork
            /\ nbh' = [nbh EXCEPT !.faults = @ + 1] /\ UNCHANGED writer
       ELSE Reads(w, n, FALSE) /\ nbh' = [nbh EXCEPT !.overlap = NowOverlaps(n)]
    /\ UNCHANGED <<neigh, nn, predt_list, nnfw, stopped>>

nfp_tunnel_request_route == \E w \in Writers, n \in Neighs :
    /\ nbh.routes < MaxRoutes /\ ~stopped
    /\ Reads(w, n, TRUE)
    /\ nbh' = [nbh EXCEPT !.routes = @ + 1, !.overlap = NowOverlaps(n)]
    /\ UNCHANGED <<neigh, npend, nn, predt_list, nnfw, stopped>>

-----------------------------------------------------------------------------
(***************************************************************************)
(* nfp_tun_write_neigh(), under predt_lock.                                *)
(***************************************************************************)
\* A new address parts the entry from its flow.
NewMac(e, m) == IF m = e.dst THEN e ELSE [e EXCEPT !.dst = m, !.flow = NoFlow]

MacChanges(n) == neigh[n].mac # nn[n].dst

Linked(n) == nfp_tun_link_predt_entries(NewMac(nn[n], neigh[n].mac))

nfp_tun_write_neigh(w, f) ==
    LET n == writer[w].n
        fresh == nfp_tun_link_predt_entries([dst |-> neigh[n].mac, flow |-> NoFlow, ctx |-> NoFlow])
    IN  CASE n \notin DOMAIN nn /\ ~writer[w].invalid /\ f # "mem" ->
                 nn' = NeighPut(nn, n, fresh) /\ nnfw' = Sent(nnfw, n, fresh, f)
          [] n \in DOMAIN nn /\ writer[w].invalid ->
                 nn' = NeighDrop(nn, n) /\ nnfw' = IF f = "xmit" THEN nnfw ELSE NeighDrop(nnfw, n)
          [] /\ n \in DOMAIN nn /\ ~writer[w].invalid
             /\ writer[w].override \/ MacChanges(n) ->
                 nn' = NeighPut(nn, n, Linked(n)) /\ nnfw' = Sent(nnfw, n, Linked(n), f)
          [] OTHER -> UNCHANGED <<nn, nnfw>>

Writes == \E w \in Writers, f \in {"none", "mem", "xmit"} :
    /\ writer[w] # NoWork
    /\ f = "none" \/ nbh.faults < MaxNeighFaults
    /\ nfp_tun_write_neigh(w, f)
    /\ writer' = [writer EXCEPT ![w] = NoWork]
    /\ nbh' = [nbh EXCEPT !.faults = IF f = "none" THEN @ ELSE @ + 1]
    /\ UNCHANGED <<neigh, npend, predt_list, stopped>>

-----------------------------------------------------------------------------
(***************************************************************************)
(* Pre-tunnel flows come and go (nfp_flower_add_offload(), del_offload()). *)
(***************************************************************************)
\* The messages may not be had; nobody looks at that.
MaySend(f) ==
    /\ f = "none" \/ nbh.faults < MaxNeighFaults
    /\ nbh' = [nbh EXCEPT !.faults = IF f = "none" THEN @ ELSE @ + 1]

ResendAll(t) == [n \in DOMAIN nnfw \cup DOMAIN t |->
                    IF n \in DOMAIN t THEN [dst |-> t[n].dst, ctx |-> t[n].ctx] ELSE nnfw[n]]

nfp_tun_link_and_update_nn_entries == \E p \in Predts, f \in {"none", "xmit"} :
    /\ ~Contains(predt_list, p) /\ ~stopped /\ MaySend(f)
    /\ predt_list' = <<p>> \o predt_list
    /\ nn' = [n \in DOMAIN nn |-> nfp_tun_mutual_link(p, nn[n])]
    /\ nnfw' = IF f = "xmit" THEN nnfw ELSE ResendAll(nn')
    /\ UNCHANGED <<neigh, npend, writer, stopped>>

Unlinked(e, p) == IF e.flow = p THEN [e EXCEPT !.flow = NoFlow, !.ctx = NoFlow] ELSE e

nfp_tun_unlink_and_update_nn_entries == \E p \in Predts, f \in {"none", "xmit"} :
    /\ Contains(predt_list, p) /\ ~stopped /\ MaySend(f)
    /\ predt_list' = Remove(predt_list, p)
    /\ nn' = [n \in DOMAIN nn |-> Unlinked(nn[n], p)]
    /\ nnfw' = [n \in DOMAIN nnfw |-> IF f # "xmit" /\ n \in DOMAIN nn /\ nn[n].flow = p
                                      THEN [dst |-> nn[n].dst, ctx |-> NoFlow] ELSE nnfw[n]]
    /\ UNCHANGED <<neigh, npend, writer, stopped>>

\* nfp_tunnel_config_stop(): the entries are told to forget their flow, and freed.
\* Work items already queued are not waited for.
nfp_tun_cleanup_nn_entries == \E f \in {"none", "xmit"} :
    /\ ~stopped /\ stopped' = TRUE /\ MaySend(f)
    /\ nn' = Empty
    /\ nnfw' = [n \in DOMAIN nnfw |-> IF f # "xmit" /\ n \in DOMAIN nn
                                      THEN [nnfw[n] EXCEPT !.ctx = NoFlow] ELSE nnfw[n]]
    /\ UNCHANGED <<neigh, npend, writer, predt_list>>

NeighNext ==
    \/ NeighbourChanges \/ nfp_tun_neigh_update \/ nfp_tunnel_request_route \/ Writes
    \/ nfp_tun_link_and_update_nn_entries \/ nfp_tun_unlink_and_update_nn_entries
    \/ nfp_tun_cleanup_nn_entries

-----------------------------------------------------------------------------
(***************************************************************************)
(* Properties.                                                             *)
(***************************************************************************)
\* A linked entry names a flow that exists, is for that flow's address and carries
\* its context, and what the firmware has is what the driver has, unless a message
\* failed (nfp_tun_write_neigh(), nfp_tun_unlink_and_update_nn_entries()).
LinksSound ==
    /\ \A n \in DOMAIN nn : nn[n].flow # NoFlow =>
          /\ Contains(predt_list, nn[n].flow)
          /\ RemMac[nn[n].flow] = nn[n].dst /\ nn[n].ctx = nn[n].flow
    /\ ~stopped /\ nbh.faults = 0 =>
          nnfw = [n \in DOMAIN nn |-> [dst |-> nn[n].dst, ctx |-> nn[n].ctx]]

\* Once every queued work item has run, the firmware has exactly the valid
\* neighbours, at their present address, in whatever order the items ran, provided
\* no two contexts were at the same neighbour at once and nothing failed
\* (nfp_tun_neigh_event_handler(), nfp_tun_neigh_update()).
NeighboursConverge ==
    nbh.faults = 0 /\ ~stopped =>
        \A n \in Neighs : (npend[n] = 0 /\ n \notin nbh.overlap /\ \A w \in Writers : writer[w].n # n) =>
            /\ neigh[n].valid <=> n \in DOMAIN nnfw
            /\ n \in DOMAIN nnfw => nnfw[n].dst = neigh[n].mac

=============================================================================

------------------------------- MODULE LifeApps -------------------------------
(***************************************************************************)
(* What the four firmware applications acquire and release: the callbacks  *)
(* of nic/main.c, bpf/main.c, abm/main.c and flower/main.c, and the ports  *)
(* and representors they create (nfp_port.c, nfp_net_repr.c).              *)
(*                                                                         *)
(* Each operator is the text of the function whose name it has; labels are *)
(* written <function>:<label>.  Representors: index 1 is the physical port *)
(* type, 2 the PF type, 3 the VF type; one representor stands for each     *)
(* type (abm: one for each vNIC, indices 1 and 2).                         *)
(***************************************************************************)
EXTENDS Integers, Sequences, FiniteSets, SequencesExt

(***************************************************************************)
(* The vocabulary in which the probe, remove, init and clean functions of  *)
(* the driver are written down: a function is the sequence of the things   *)
(* it acquires, releases and calls, each with the error label it jumps to, *)
(* and an error label is the sequence of the releases below it.            *)
(*                                                                         *)
(* A resource is <<name, index>>: the index tells the vNICs apart (1 and 2 *)
(* are data vNICs, Ctrl is the control vNIC) and the representor types;    *)
(* what exists once has index 0.                                           *)
(***************************************************************************)
VARIABLES
    lcfg,       \* the device: [dev, app, netdev, fallback, without]
    held,       \* the resources acquired and not yet released
    vnics,      \* pf->vnics, a sequence of vNIC indices
    vfs,        \* [num |-> pf->num_vfs, pci |-> pci_num_vf(), assigned]
    frames,     \* the call stack of each thread of control
    devl,       \* the thread that holds the devlink instance lock
    refresh,    \* pf->port_refresh_work: "idle", "queued", "running"
    lhist       \* what happened: see Lifecycle

Ctrl == 3
DataVnics == {1, 2}
Held(n, i) == <<n, i>> \in held

\* A label is run with the argument of the function it belongs to, or with
\* the argument at when that is given (at >= 0).
OpAt(o, n, i, e, at) == <<[op |-> o, n |-> n, i |-> i, e |-> e, at |-> at]>>
Op(o, n, i, e) == OpAt(o, n, i, e, -1)

Get(n, i, e) == Op("get", n, i, e)       \* acquire, or jump to e
Maybe(n, i, e) == Op("maybe", n, i, e)   \* acquire, be absent, or jump to e
Opt(n, i) == Op("opt", n, i, "ret")      \* acquire or be absent
Take(n, i) == Op("take", n, i, "ret")    \* acquire, cannot fail
Try(e) == Op("try", "", 0, e)            \* succeed or jump to e
Fail(e) == Op("fail", "", 0, e)          \* jump to e
Put(n, i) == Op("put", n, i, "ret")      \* release
PutIf(n, i) == Op("putif", n, i, "ret")  \* release what was acquired: kfree(), if (ptr) ...
PutVia(n, i, own) == Op("putvia", n, i, own)   \* release through a pointer kept in own
Call(f, i, e) == Op("call", f, i, e)     \* call f, jump to e when it fails
Do(f, i) == Call(f, i, "ret")            \* call a function that returns nothing
Lock == Op("lock", "", 0, "ret")         \* devl_lock()
Unlock == Op("unlock", "", 0, "ret")     \* devl_unlock()
Mark(o, i) == Op(o, "", i, "ret")

When(c, steps) == IF c THEN steps ELSE <<>>
Each(F(_), s) == FlattenSeq([k \in 1 .. Len(s) |-> F(s[k])])
DataOf(s) == SelectSeq(s, LAMBDA i : i \in DataVnics)

(***************************************************************************)
(* Ports and representors.                                                 *)
(***************************************************************************)
\* nfp_app_nic.c
nfp_app_nic_vnic_init_phy_port(i) ==
    When(Held("eth_tbl", 0),
         Get("port", i, "ret") \o Try("init_phy_port:port_free"))

InitPhyPortFree(i) == Put("port", i)

\* nfp_net_repr.c: nfp_repr_init() up to register_netdev(); the app callback
\* of flower frees the representor's private data.
nfp_app_repr_clean(t) == When(lcfg.app = "flower", Put("repr_priv", t))

nfp_repr_init(t) ==
    Get("repr_dst", t, "ret") \o Get("repr_reg", t, "repr_init:err_repr_clean")

ErrReprClean(t) == nfp_app_repr_clean(t) \o Put("repr_dst", t)

nfp_repr_clean(t) ==
    Put("repr_reg", t) \o nfp_app_repr_clean(t) \o Put("repr_dst", t) \o Put("repr_port", t)

nfp_repr_clean_and_free(t) == nfp_repr_clean(t) \o Put("repr_nd", t)

nfp_reprs_clean_and_free(t) ==
    When(Held("repr_reg", t), nfp_repr_clean_and_free(t)) \o Put("reprs", t)

nfp_reprs_clean_and_free_by_type(t) ==
    When(Held("reprs", t), nfp_reprs_clean_and_free(t))

\* A physical port became invalid: its representor goes, the table stays.
nfp_reprs_resync_phys_ports ==
    When(<<"repr_port", 1>> \in lhist.invalid /\ Held("repr_reg", 1), nfp_repr_clean(1))

(***************************************************************************)
(* nic/main.c                                                              *)
(***************************************************************************)
nfp_nic_init == Try("ret")
nfp_nic_vnic_alloc(i) ==
    Call("nfp_app_nic_vnic_init_phy_port", i, "ret") \o Get("app_priv", i, "ret")
nfp_nic_vnic_free(i) == Put("app_priv", i)
nfp_nic_dcb_init(i) == Maybe("dcb_area", i, "ret")
nfp_nic_dcb_clean(i) == PutIf("dcb_area", i)

(***************************************************************************)
(* bpf/main.c                                                              *)
(***************************************************************************)
nfp_bpf_init ==
    Get("priv", 0, "ret") \o Get("ccm", 0, "bpf_init:err_free_bpf")
    \o Get("maps_neutral", 0, "bpf_init:err_clean_ccm") \o Try("bpf_init:err_free_neutral_maps")
    \o Get("bpf_dev", 0, "bpf_init:err_free_neutral_maps")
ErrFreeBpf == Put("priv", 0)
ErrCleanCcm == Put("ccm", 0) \o ErrFreeBpf
ErrFreeNeutralMaps == Put("maps_neutral", 0) \o ErrCleanCcm

nfp_bpf_clean ==
    Put("bpf_dev", 0) \o Put("ccm", 0) \o Put("maps_neutral", 0) \o Put("priv", 0)

nfp_bpf_vnic_alloc(i) ==
    Try("ret") \o Get("app_priv", i, "ret")
    \o Call("nfp_app_nic_vnic_init_phy_port", i, "bpf_vnic_alloc:err_free_priv")
ErrFreePriv(i) == Put("app_priv", i)
nfp_bpf_vnic_free(i) == Put("app_priv", i)
nfp_bpf_start == Try("ret")

(***************************************************************************)
(* abm/main.c                                                              *)
(***************************************************************************)
nfp_abm_init ==
    When(~Held("eth_tbl", 0) \/ ~Held("mac_stats_bar", 0), Fail("ret"))
    \o Get("priv", 0, "ret") \o Try("abm_init:err_free_abm")
    \o Get("threshold_undef", 0, "abm_init:err_free_abm")
    \o Get("thresholds", 0, "abm_init:err_free_thresh_umap")
    \o Get("actions", 0, "abm_init:err_free_thresh") \o Try("abm_init:err_free_act")
    \o Get("reprs", 1, "abm_init:err_free_act") \o Get("reprs", 2, "abm_init:err_free_phys")
ErrFreeAbm == Put("priv", 0)
ErrFreeThreshUmap == Put("threshold_undef", 0) \o ErrFreeAbm
ErrFreeThresh == Put("thresholds", 0) \o ErrFreeThreshUmap
ErrFreeAct == Put("actions", 0) \o ErrFreeThresh
ErrFreePhys == nfp_reprs_clean_and_free_by_type(1) \o ErrFreeAct

\* Representors of abm: name "abm_<part>", index the vNIC (physical port) or
\* 10 + the vNIC (PF port).
nfp_abm_spawn_repr(r) ==
    Get("abm_nd", r, "ret") \o Get("abm_port", r, "abm_spawn:err_free_repr")
    \o When(r < 10, Try("abm_spawn:err_free_port"))
    \o Get("abm_reg", r, "abm_spawn:err_free_port")
AbmErrFreeRepr(r) == Put("abm_nd", r)
AbmErrFreePort(r) == Put("abm_port", r) \o AbmErrFreeRepr(r)

nfp_abm_kill_repr(r) ==
    When(Held("abm_reg", r), Put("abm_reg", r) \o Put("abm_port", r) \o Put("abm_nd", r))
nfp_abm_kill_reprs(i) == Do("nfp_abm_kill_repr", 10 + i) \o Do("nfp_abm_kill_repr", i)
nfp_abm_kill_reprs_all == Each(nfp_abm_kill_reprs, vnics)

nfp_abm_eswitch_set_legacy ==
    nfp_abm_kill_reprs_all \o PutIf("qm", 0) \o PutIf("switchdev", 0)

nfp_abm_eswitch_set_switchdev ==
    LET Spawned(i) == Call("nfp_abm_spawn_repr", i, "switchdev:err_kill_all_reprs")
                      \o Call("nfp_abm_spawn_repr", 10 + i, "switchdev:err_kill_all_reprs")
    IN Get("qm", 0, "ret") \o Each(Spawned, vnics) \o Take("switchdev", 0)
ErrKillAllReprs == nfp_abm_kill_reprs_all \o Put("qm", 0)

\* Only one thread of the driver changes the mode, under the devlink lock.
nfp_abm_eswitch_mode_set ==
    Lock \o Call(IF Held("switchdev", 0) THEN "nfp_abm_eswitch_set_legacy"
                 ELSE "nfp_abm_eswitch_set_switchdev", 0, "mode_set:out")
    \o Unlock

nfp_abm_clean ==
    When(Held("switchdev", 0), Do("nfp_abm_eswitch_set_legacy", 0))
    \o Do("nfp_reprs_clean_and_free_by_type", 2) \o Do("nfp_reprs_clean_and_free_by_type", 1)
    \o Put("threshold_undef", 0) \o Put("actions", 0) \o Put("thresholds", 0) \o Put("priv", 0)

\* The NSP handle is not closed when the NSP has no hwinfo lookup.
nfp_abm_vnic_set_mac ==
    Opt("mac_nsp", 0) \o When("hwinfo_lookup" \notin lcfg.without, PutIf("mac_nsp", 0))

nfp_abm_vnic_alloc(i) ==
    Get("app_priv", i, "ret") \o Try("abm_vnic_alloc:err_free_alink")
    \o Get("prio_map", i, "abm_vnic_alloc:err_free_alink")
    \o Try("abm_vnic_alloc:err_free_priomap") \o nfp_abm_vnic_set_mac
ErrFreeAlink(i) == Put("app_priv", i)
ErrFreePriomap(i) == Put("prio_map", i) \o ErrFreeAlink(i)
nfp_abm_vnic_free(i) == nfp_abm_kill_reprs(i) \o Put("prio_map", i) \o Put("app_priv", i)
nfp_abm_vnic_init == Try("ret")

(***************************************************************************)
(* flower/main.c, flower/metadata.c, flower/tunnel_conf.c                  *)
(***************************************************************************)
MetaTables == <<"flow_table", "stats_ctx_table", "merge_table", "ct_zone_table", "ct_map_table",
                "neigh_table", "mask_ids", "last_used", "stats_ids", "stats">>

\* The k-th allocation jumps to the label that undoes the k - 1 before it.
nfp_flower_metadata_init ==
    FlattenSeq([k \in 1 .. Len(MetaTables) |->
                    OpAt("get", MetaTables[k], 0, "metadata_init:undo", k - 1)])
MetadataUndo(k) == FlattenSeq([n \in 1 .. k |-> Put(MetaTables[k + 1 - n], 0)])
nfp_flower_metadata_cleanup ==
    FlattenSeq([k \in 1 .. Len(MetaTables) |-> Put(MetaTables[k], 0)])

nfp_flower_sync_feature_bits ==
    Try("ret") \o Maybe("lag", 0, "ret") \o Maybe("internal_ports", 0, "ret")

nfp_flower_init ==
    When(~Held("eth_tbl", 0) \/ ~Held("mac_stats_bar", 0) \/ ~Held("vf_cfg_bar", 0), Fail("ret"))
    \o Try("ret") \o Get("priv", 0, "ret")
    \o Call("nfp_flower_metadata_init", 0, "flower_init:err_free_app_priv")
    \o Call("nfp_flower_sync_feature_bits", 0, "flower_init:err_cleanup") \o Opt("qos", 0)
ErrFreeAppPriv == Put("priv", 0)
FlowerErrCleanup == PutIf("lag", 0) \o nfp_flower_metadata_cleanup \o ErrFreeAppPriv

nfp_flower_clean ==
    PutIf("qos", 0) \o PutIf("lag", 0) \o PutIf("internal_ports", 0)
    \o nfp_flower_metadata_cleanup \o Put("priv", 0)

nfp_tunnel_config_start ==
    Get("offloaded_macs", 0, "ret") \o Get("neigh_nb", 0, "tunnel_start:undo")
TunnelStartUndo == Put("offloaded_macs", 0)
nfp_tunnel_config_stop == Put("neigh_nb", 0) \o Put("offloaded_macs", 0)

nfp_flower_start ==
    When(Held("lag", 0), Try("ret")) \o Get("indr", 0, "ret")
    \o Call("nfp_tunnel_config_start", 0, "flower_start:err_tunnel_config")
ErrTunnelConfig == Put("indr", 0)
nfp_flower_stop == nfp_tunnel_config_stop \o Put("indr", 0)

\* One representor of each type; the physical ports also build the MAC_REPR
\* message that is sent at the end.
nfp_flower_spawn_vnic_reprs(t) ==
    Get("reprs", t, "ret")
    \o Get("repr_nd", t, "spawn:err_reprs_clean") \o Get("repr_priv", t, "spawn:no_priv")
    \o Get("repr_port", t, "spawn:no_port") \o Call("nfp_repr_init", t, "spawn:no_init")
    \o Try("spawn:err_reprs_clean")
nfp_flower_spawn_phy_reprs(t) ==
    Get("ctrl_skb", 0, "ret") \o Get("reprs", t, "spawn:err_free_ctrl_skb")
    \o Get("repr_nd", t, "spawn:err_reprs_clean") \o Get("repr_priv", t, "spawn:no_priv")
    \o Get("repr_port", t, "spawn:no_port") \o Try("spawn:no_init")
    \o Call("nfp_repr_init", t, "spawn:no_init")
    \o Try("spawn:err_reprs_clean") \o Put("ctrl_skb", 0)
ErrFreeCtrlSkb(t) == When(t = 1, PutIf("ctrl_skb", 0))
ErrReprsClean(t) == nfp_reprs_clean_and_free(t) \o ErrFreeCtrlSkb(t)
SpawnNoPriv(t) == Put("repr_nd", t) \o Do("err_reprs_clean", t)
SpawnNoPort(t) == Put("repr_priv", t) \o SpawnNoPriv(t)
SpawnNoInit(t) == Put("repr_priv", t) \o Put("repr_port", t) \o SpawnNoPriv(t)

nfp_flower_vnic_alloc(i) == When(i > 1, Get("port", i, "ret"))

nfp_flower_vnic_init ==
    Take("priv_nn", 0) \o Call("nfp_flower_spawn_phy_reprs", 1, "flower_vnic_init:err_clear_nn")
    \o Call("nfp_flower_spawn_vnic_reprs", 2, "flower_vnic_init:err_destroy_reprs_phy")
    \o When(vfs.num > 0, Call("nfp_flower_spawn_vnic_reprs", 3, "flower_vnic_init:err_destroy_reprs_pf"))
ErrClearNn == Put("priv_nn", 0)
ErrDestroyReprsPhy == Do("nfp_reprs_clean_and_free_by_type", 1) \o ErrClearNn
ErrDestroyReprsPf == Do("nfp_reprs_clean_and_free_by_type", 2) \o ErrDestroyReprsPhy

nfp_flower_vnic_clean ==
    When(vfs.num > 0, Do("nfp_reprs_clean_and_free_by_type", 3))
    \o Do("nfp_reprs_clean_and_free_by_type", 2) \o Do("nfp_reprs_clean_and_free_by_type", 1)
    \o Put("priv_nn", 0)

nfp_flower_sriov_enable ==
    When(Held("priv_nn", 0), Call("nfp_flower_spawn_vnic_reprs", 3, "ret"))
nfp_flower_sriov_disable ==
    When(Held("priv_nn", 0), Do("nfp_reprs_clean_and_free_by_type", 3))
==============================================================================

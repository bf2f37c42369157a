------------------------------ MODULE Lifecycle ------------------------------
(***************************************************************************)
(* Probe, remove, shutdown, SR-IOV and port refresh of a PCI device        *)
(* (nfp_main.c, nfp_net_main.c), with the functions of the core, of the    *)
(* vNICs and of the applications they call (LifeApps), the probes of the   *)
(* VF driver, of the character device and of the ARM vNIC, and the module  *)
(* init.  One thread runs probe, remove and the requests of the            *)
(* administrator; the other is the work pf->port_refresh_work.             *)
(*                                                                         *)
(* Every step that can fail may fail, MaxFails times in a run; what an     *)
(* optional step leaves out is lcfg.without, chosen at the start.          *)
(***************************************************************************)
EXTENDS LifeApps

CONSTANTS
    LifeConfigs,    \* the devices and module parameters considered
    MaxFails,       \* failing steps in a behaviour
    MaxProbes,      \* probes of the device
    MaxOrders,      \* requests (SR-IOV, split, eswitch mode) of a behaviour
    MaxRefreshes    \* link events that queue the refresh work

lifevars == <<lcfg, held, vnics, vfs, frames, devl, refresh, lhist>>

HasCtrl == lcfg.app \in {"bpf", "flower"}

(***************************************************************************)
(* nfpcore: the BARs, the event manager and the CPP handle.                *)
(***************************************************************************)
enable_bars == Opt("bar0", 0) \o Try("enable_bars:err_unmap_bar0") \o Opt("explbars", 0)
ErrUnmapBar0 == PutIf("bar0", 0)
disable_bars == PutIf("explbars", 0) \o PutIf("bar0", 0)

nfp_em_manager_create == Get("evm", 0, "ret") \o Get("em_irq", 0, "em:err_free")
EmErrFree == Put("evm", 0)
nfp_em_manager_destroy == When(Held("evm", 0), Put("em_irq", 0) \o Put("evm", 0))

nfp6000_free ==
    PutIf("pciebars_attr", 0) \o Do("nfp_em_manager_destroy", 0)
    \o Do("disable_bars", 0) \o Put("nfp", 0)

nfp_cpp_from_operations ==
    Get("cpp_id", 0, "ret") \o Get("cpp", 0, "from_ops:err_malloc") \o Try("from_ops:err_free_cpp")
    \o Get("cppdev", 0, "from_ops:err_free_cpp") \o Get("attr_area", 0, "from_ops:err_attr")
    \o Get("pciebars_attr", 0, "from_ops:err_out") \o Try("from_ops:err_out")
    \o Take("cpp_list", 0)
ErrMalloc == Put("cpp_id", 0)
ErrFreeCpp == Put("cpp", 0) \o ErrMalloc
ErrAttr == Put("cppdev", 0) \o ErrFreeCpp
ErrOut == Put("attr_area", 0) \o ErrAttr

\* The result of nfp_cpp_from_operations() is returned as it is: what was
\* acquired before it stays when it fails.
nfp_cpp_from_nfp6000_pcie ==
    Get("nfp", 0, "ret") \o Try("from_pcie:err_free_nfp")
    \o Call("enable_bars", 0, "from_pcie:err_free_nfp")
    \o When(lcfg.mon_event, Call("nfp_em_manager_create", 0, "from_pcie:err_bar_disable"))
    \o Call("nfp_cpp_from_operations", 0, "ret")
ErrFreeNfp == Put("nfp", 0)
ErrBarDisable == Do("disable_bars", 0) \o ErrFreeNfp

nfp_cpp_release ==
    Put("attr_area", 0) \o Do("nfp6000_free", 0) \o Put("cpp_list", 0) \o Put("cppdev", 0)
    \o Put("cpp_id", 0) \o Put("cpp", 0)

(***************************************************************************)
(* The NSP and the firmware (nfp_main.c).                                  *)
(***************************************************************************)
nfp_nsp_init_ports ==
    Opt("eth_tbl", 0) \o When(lcfg.reinit, PutIf("eth_tbl", 0) \o Opt("eth_tbl", 0))

nfp_fw_load ==
    Try("ret") \o Opt("fwimg", 0) \o Try("fw_load:exit_release_fw")
    \o PutIf("fwimg", 0) \o Opt("unload_fw", 0)
ExitReleaseFw == PutIf("fwimg", 0)

nfp_nsp_init ==
    When(lcfg.netdev,
         Try("ret") \o Get("nsp", 0, "ret") \o Try("nsp_init:exit_close_nsp")
         \o nfp_nsp_init_ports \o Opt("nspi", 0)
         \o Call("nfp_fw_load", 0, "nsp_init:no_fw") \o Put("nsp", 0))
ExitCloseNsp == Put("nsp", 0)
NspInitNoFw == PutIf("nspi", 0) \o PutIf("eth_tbl", 0) \o ExitCloseNsp

nfp_fw_unload == When(Held("unload_fw", 0), Opt("nsp", 0) \o PutIf("nsp", 0))

(***************************************************************************)
(* vNICs (nfp_net_common.c, nfp_net_main.c).                               *)
(***************************************************************************)
nfp_net_alloc(i) ==
    Get("nn", i, "ret") \o Try("net_alloc:err_free_nn")
    \o Get("xsk_pools", i, "net_alloc:err_free_nn") \o Try("net_alloc:tlv")
    \o Get("mbox_wq", i, "net_alloc:tlv")
ErrFreeNn(i) == Put("nn", i)
nfp_net_free(i) == Put("mbox_wq", i) \o Put("xsk_pools", i) \o Put("nn", i)

nfp_net_init(i) ==
    Try("ret")
    \o When(i # Ctrl,
            Try("ret")
            \o When(lcfg.app = "bpf" /\ lcfg.dev = "pf", Get("bpf_ndev", i, "ret"))
            \o Get("netdev_reg", i, "net_init:ndo_uninit"))
NdoUninit(i) == PutIf("bpf_ndev", i)
nfp_net_clean(i) == When(i # Ctrl, Put("netdev_reg", i) \o PutIf("bpf_ndev", i))

nfp_net_pf_alloc_vnic(i) ==
    Call("nfp_net_alloc", i, "ret")
    \o When(i # Ctrl, Call("app_vnic_alloc", i, "alloc_vnic:free")) \o Mark("link", i)

nfp_net_pf_free_vnic(i) ==
    When(i # Ctrl, Do("app_vnic_free", i)) \o PutIf("port", i) \o Mark("unlink", i)
    \o Do("nfp_net_free", i)

nfp_net_pf_free_vnics == Each(LAMBDA i : Do("nfp_net_pf_free_vnic", i), DataOf(vnics))

nfp_net_pf_init_vnic(i) ==
    When(Held("port", i), Get("devlink_port", i, "ret"))
    \o Call("nfp_net_init", i, "init_vnic:err_devlink_port_clean") \o Opt("nn_dir", i)
    \o When(i # Ctrl, Call("app_vnic_init", i, "init_vnic:err_debugfs_vnic_clean"))
ErrDevlinkPortClean(i) == PutIf("devlink_port", i)
ErrDebugfsVnicClean(i) == PutIf("nn_dir", i) \o Do("nfp_net_clean", i) \o ErrDevlinkPortClean(i)

nfp_net_pf_clean_vnic(i) ==
    When(i # Ctrl, Do("app_vnic_clean", i)) \o PutIf("nn_dir", i) \o Do("nfp_net_clean", i)
    \o PutIf("devlink_port", i)

nfp_net_pf_alloc_vnics ==
    Each(LAMBDA i : Call("nfp_net_pf_alloc_vnic", i, "alloc_vnics:err_free_prev")
                    \o Do("kill_invalid", i), <<1, 2>>)
    \o Call("check_vnics", 0, "ret")
KillInvalid(i) == When(lcfg.app = "flower" /\ Held("port", i), Do("nfp_net_pf_free_vnic", i))
CheckVnics == When(vnics = <<>>, Fail("ret"))

nfp_net_pf_alloc_irqs == Get("irq_entries", 0, "ret") \o Get("irqs", 0, "alloc_irqs:free")
AllocIrqsFree == Put("irq_entries", 0)
nfp_net_pf_free_irqs == Put("irqs", 0) \o Put("irq_entries", 0)

\* On failure the vNICs before the failing one are cleaned, the last first.
nfp_net_pf_init_vnics ==
    Each(LAMBDA i : OpAt("call", "nfp_net_pf_init_vnic", i, "init_vnics:err_prev_deinit", i),
         DataOf(vnics))
\* Mutant: the vNIC whose initialisation failed is cleaned as well.
PrevAndFailing(i) ==
    Each(LAMBDA k : Do("nfp_net_pf_clean_vnic", k),
         Reverse(SelectSeq(DataOf(vnics), LAMBDA k : k <= i)))
ErrPrevDeinit(i) ==
    Each(LAMBDA k : Do("nfp_net_pf_clean_vnic", k),
         Reverse(SelectSeq(DataOf(vnics), LAMBDA k : k < i)))

(***************************************************************************)
(* The application callbacks (nfp_app.h, nfp_app.c).                       *)
(***************************************************************************)
nfp_app_init ==
    CASE lcfg.app = "nic" -> nfp_nic_init
      [] lcfg.app = "bpf" -> nfp_bpf_init
      [] lcfg.app = "abm" -> nfp_abm_init
      [] OTHER -> nfp_flower_init

nfp_app_clean ==
    CASE lcfg.app = "nic" -> <<>>
      [] lcfg.app = "bpf" -> nfp_bpf_clean
      [] lcfg.app = "abm" -> nfp_abm_clean
      [] OTHER -> nfp_flower_clean

nfp_app_vnic_alloc(i) ==
    CASE lcfg.app = "nic" -> nfp_nic_vnic_alloc(i)
      [] lcfg.app = "bpf" -> nfp_bpf_vnic_alloc(i)
      [] lcfg.app = "abm" -> nfp_abm_vnic_alloc(i)
      [] OTHER -> nfp_flower_vnic_alloc(i)

nfp_app_vnic_free(i) ==
    CASE lcfg.app = "nic" -> nfp_nic_vnic_free(i)
      [] lcfg.app = "bpf" -> nfp_bpf_vnic_free(i)
      [] lcfg.app = "abm" -> nfp_abm_vnic_free(i)
      [] OTHER -> <<>>

nfp_app_vnic_init(i) ==
    CASE lcfg.app = "nic" -> nfp_nic_dcb_init(i)
      [] lcfg.app = "bpf" -> <<>>
      [] lcfg.app = "abm" -> nfp_abm_vnic_init
      [] OTHER -> nfp_flower_vnic_init

nfp_app_vnic_clean(i) ==
    CASE lcfg.app = "nic" -> nfp_nic_dcb_clean(i)
      [] lcfg.app \in {"bpf", "abm"} -> <<>>
      [] OTHER -> nfp_flower_vnic_clean

nfp_app_sriov_enable ==
    IF ~Held("app", 0) \/ lcfg.app \in {"bpf", "abm"} THEN Fail("ret")
    ELSE When(lcfg.app = "flower", nfp_flower_sriov_enable)

nfp_app_sriov_disable ==
    When(Held("app", 0) /\ lcfg.app = "flower", nfp_flower_sriov_disable)

AppTypeStart ==
    CASE lcfg.app = "bpf" -> nfp_bpf_start
      [] lcfg.app = "flower" -> nfp_flower_start
      [] OTHER -> <<>>
AppTypeStop == When(lcfg.app = "flower", nfp_flower_stop)

nfp_app_start == Call("app_type_start", 0, "ret") \o Get("netdev_nb", 0, "app_start:err_app_stop")
nfp_app_stop == Put("netdev_nb", 0) \o AppTypeStop

(***************************************************************************)
(* nfp_net_main.c: the application of the PF and its network devices.      *)
(***************************************************************************)
nfp_net_pf_app_init ==
    Get("app", 0, "ret") \o Lock \o Call("nfp_app_init", 0, "app_init:err_init") \o Unlock
    \o When(HasCtrl, Get("ctrl_vnic_bar", 0, "app_init:err_app_clean")
                     \o Call("nfp_net_pf_alloc_vnic", Ctrl, "app_init:err_unmap"))
AppInitErrFree == Put("app", 0)
AppInitErrInit == Unlock \o AppInitErrFree
ErrAppClean == Lock \o Do("nfp_app_clean", 0) \o Unlock \o AppInitErrFree
AppInitErrUnmap == Put("ctrl_vnic_bar", 0) \o ErrAppClean

nfp_net_pf_app_clean ==
    When(HasCtrl, Do("nfp_net_pf_free_vnic", Ctrl) \o Put("ctrl_vnic_bar", 0))
    \o Lock \o Do("nfp_app_clean", 0) \o Unlock \o Put("app", 0)

nfp_net_pf_app_start_ctrl ==
    When(HasCtrl,
         Call("nfp_net_pf_init_vnic", Ctrl, "ret") \o Get("ctrl_open", 0, "start_ctrl:err_clean_ctrl")
         \o Get("ctrl_debug", 0, "start_ctrl:err_close_ctrl"))
ErrCleanCtrl == Do("nfp_net_pf_clean_vnic", Ctrl)
ErrCloseCtrl == Put("ctrl_open", 0) \o ErrCleanCtrl

nfp_net_pf_app_stop_ctrl ==
    When(HasCtrl, Put("ctrl_debug", 0) \o Put("ctrl_open", 0) \o Do("nfp_net_pf_clean_vnic", Ctrl))

nfp_net_pf_app_start ==
    Call("nfp_net_pf_app_start_ctrl", 0, "ret") \o Call("nfp_app_start", 0, "pf_start:err_ctrl_stop")
    \o When(vfs.num > 0, Call("nfp_app_sriov_enable", 0, "pf_start:err_app_stop"))
PfErrCtrlStop == Do("nfp_net_pf_app_stop_ctrl", 0)
PfErrAppStop == Do("nfp_app_stop", 0) \o PfErrCtrlStop

nfp_net_pf_app_stop ==
    When(vfs.num > 0, Do("nfp_app_sriov_disable", 0)) \o Do("nfp_app_stop", 0)
    \o Do("nfp_net_pf_app_stop_ctrl", 0)

nfp_net_pci_map_mem ==
    Get("data_vnic_bar", 0, "ret")
    \o When(Held("eth_tbl", 0), Maybe("mac_stats_bar", 0, "map_mem:err_unmap_ctrl"))
    \o Maybe("vf_cfg_bar", 0, "map_mem:err_unmap_mac_stats")
    \o Maybe("vfcfg_tbl2", 0, "map_mem:err_unmap_vf_cfg")
    \o Get("qc_area", 0, "map_mem:err_unmap_vfcfg_tbl2")
ErrUnmapCtrl == Put("data_vnic_bar", 0)
ErrUnmapMacStats == PutIf("mac_stats_bar", 0) \o ErrUnmapCtrl
ErrUnmapVfCfg == PutIf("vf_cfg_bar", 0) \o ErrUnmapMacStats
ErrUnmapVfcfgTbl2 == PutIf("vfcfg_tbl2", 0) \o ErrUnmapVfCfg

nfp_net_pci_unmap_mem ==
    PutIf("vfcfg_tbl2", 0) \o PutIf("vf_cfg_bar", 0) \o PutIf("mac_stats_bar", 0)
    \o Put("qc_area", 0) \o Put("data_vnic_bar", 0)

nfp_shared_buf_register ==
    When("shared_bufs" \notin lcfg.without,
         Get("sb_area", 0, "ret") \o Get("shared_bufs", 0, "sb:err_release_area")
         \o Get("sb_reg", 0, "sb:err_unreg_prev") \o Put("sb_area", 0))
SbErrReleaseArea == Put("sb_area", 0)
SbErrUnregPrev == Put("shared_bufs", 0) \o SbErrReleaseArea
nfp_shared_buf_unregister == PutIf("sb_reg", 0) \o PutIf("shared_bufs", 0)

nfp_net_pci_probe ==
    Try("ret") \o Call("nfp_net_pci_map_mem", 0, "ret") \o Try("net_probe:err_unmap")
    \o Call("nfp_net_pf_app_init", 0, "net_probe:err_unmap")
    \o Call("nfp_shared_buf_register", 0, "net_probe:err_devlink_unreg")
    \o Lock \o Maybe("params", 0, "net_probe:err_shared_buf_unreg") \o Opt("ddir", 0)
    \o Call("nfp_net_pf_alloc_vnics", 0, "net_probe:err_clean_ddir")
    \o Call("nfp_net_pf_alloc_irqs", 0, "net_probe:err_free_vnics")
    \o Call("nfp_net_pf_app_start", 0, "net_probe:err_free_irqs")
    \o Call("nfp_net_pf_init_vnics", 0, "net_probe:err_stop_app")
    \o Unlock \o Take("devlink_reg", 0)
NetErrUnmap == Do("nfp_net_pci_unmap_mem", 0)
NetErrDevlinkUnreg == Mark("cancel", 0) \o Do("nfp_net_pf_app_clean", 0) \o NetErrUnmap
NetErrSharedBufUnreg == Unlock \o Do("nfp_shared_buf_unregister", 0) \o NetErrDevlinkUnreg
NetErrCleanDdir == PutIf("ddir", 0) \o PutIf("params", 0) \o NetErrSharedBufUnreg
NetErrFreeVnics == Do("nfp_net_pf_free_vnics", 0) \o NetErrCleanDdir
NetErrFreeIrqs == Do("nfp_net_pf_free_irqs", 0) \o NetErrFreeVnics
NetErrStopApp == Do("nfp_net_pf_app_stop", 0) \o NetErrFreeIrqs

RemoveVnics ==
    Each(LAMBDA i : Do("nfp_net_pf_clean_vnic", i) \o Do("nfp_net_pf_free_vnic", i),
         DataOf(vnics))

\* Mutant: the debugfs directory goes before the application is stopped.
RemoveDdirFirst ==
    Put("devlink_reg", 0) \o Lock \o Do("remove_vnics", 0) \o PutIf("ddir", 0)
    \o Do("nfp_net_pf_app_stop", 0) \o PutIf("params", 0) \o Unlock
    \o Do("nfp_shared_buf_unregister", 0) \o Do("nfp_net_pf_free_irqs", 0)
    \o Do("nfp_net_pf_app_clean", 0) \o Do("nfp_net_pci_unmap_mem", 0) \o Mark("cancel", 0)

nfp_net_pci_remove ==
    Put("devlink_reg", 0) \o Lock \o Do("remove_vnics", 0) \o Do("nfp_net_pf_app_stop", 0)
    \o PutIf("ddir", 0) \o PutIf("params", 0) \o Unlock
    \o Do("nfp_shared_buf_unregister", 0) \o Do("nfp_net_pf_free_irqs", 0)
    \o Do("nfp_net_pf_app_clean", 0) \o Do("nfp_net_pci_unmap_mem", 0) \o Mark("cancel", 0)

\* The walk visits the vNICs that are on the list when it starts.
ShootInvalid ==
    Each(LAMBDA i : Mark("touch", i)
                    \o When(<<"port", i>> \in lhist.invalid,
                            Do("nfp_net_pf_clean_vnic", i) \o Do("nfp_net_pf_free_vnic", i)),
         vnics)

nfp_net_refresh_port_table_sync ==
    When(vnics # <<>>,
         Try("ret") \o Mark("update_ports", 0) \o Do("nfp_reprs_resync_phys_ports", 0)
         \o Do("shoot_invalid", 0))
nfp_net_refresh_vnics ==
    Lock \o Call("nfp_net_refresh_port_table_sync", 0, "unlock") \o Unlock

(***************************************************************************)
(* nfp_main.c: the PCI device.                                             *)
(***************************************************************************)
NetOrVnic ==
    IF ~lcfg.netdev THEN Opt("net_vnic", 0)
    ELSE IF Held("rtbl", 0) THEN Call("nfp_net_pci_probe", 0, "ret")
    ELSE When(~lcfg.fallback, Fail("ret"))

ReadRtbl == When(Held("mip", 0), Opt("rtbl", 0))

nfp_hwmon_register == When(Held("nspi", 0), Maybe("hwmon", 0, "ret"))

nfp_pci_probe ==
    Get("pci_enabled", 0, "ret") \o Try("probe:err_pci_disable")
    \o Get("regions", 0, "probe:err_pci_disable") \o Get("devlink", 0, "probe:err_rel_regions")
    \o Mark("num_vfs", 0) \o Take("drvdata", 0) \o Get("wq", 0, "probe:err_pci_priv_unset")
    \o When(lcfg.mon_event, Opt("msix", 0))
    \o Call("nfp_cpp_from_nfp6000_pcie", 0, "probe:err_disable_msix")
    \o Try("probe:err_cpp_free") \o Opt("hwinfo", 0)
    \o When(lcfg.netdev, Try("probe:err_hwinfo_free"))
    \o Call("nfp_nsp_init", 0, "probe:err_hwinfo_free")
    \o Opt("mip", 0) \o Do("read_rtbl", 0) \o Try("probe:err_fw_unload") \o Opt("dumpspec", 0)
    \o Op("read_vfs", "", 0, "probe:err_fw_unload") \o Opt("dev_cpp", 0)
    \o Call("net_or_vnic", 0, "probe:err_dev_cpp_unreg")
    \o Call("nfp_hwmon_register", 0, "probe:err_net_remove")
ErrPciDisable == Put("pci_enabled", 0)
ErrRelRegions == Put("regions", 0) \o ErrPciDisable
ErrPciPrivUnset == Put("drvdata", 0) \o Put("devlink", 0) \o ErrRelRegions
ErrDisableMsix == PutIf("msix", 0) \o Put("wq", 0) \o ErrPciPrivUnset
ErrCppFree == Do("nfp_cpp_release", 0) \o ErrDisableMsix
ErrHwinfoFree == PutIf("hwinfo", 0) \o ErrCppFree
ErrFwUnload ==
    PutIf("rtbl", 0) \o PutIf("mip", 0) \o Do("nfp_fw_unload", 0) \o PutIf("unload_fw", 0)
    \o PutIf("eth_tbl", 0) \o PutIf("nspi", 0) \o PutIf("dumpspec", 0) \o ErrHwinfoFree
ErrDevCppUnreg == PutIf("dev_cpp", 0) \o ErrFwUnload
\* nfp_net_pci_remove() is called whether or not the probe got that far.
ErrNetRemove ==
    PutIf("net_vnic", 0)
    \o When(lcfg.netdev, IF Held("app", 0) THEN Do("nfp_net_pci_remove", 0) ELSE Mark("noapp", 0))
    \o ErrDevCppUnreg

\* unload = 1: remove; 0: shutdown, which leaves the firmware running.
nfp_pci_shutdown(unload) ==
    PutIf("hwmon", 0) \o Do("nfp_pcie_sriov_disable", 0)
    \o When(lcfg.netdev /\ Held("app", 0), Do("nfp_net_pci_remove", 0))
    \o PutIf("net_vnic", 0) \o PutIf("dumpspec", 0) \o PutIf("rtbl", 0) \o PutIf("mip", 0)
    \o When(unload = 1, Do("nfp_fw_unload", 0)) \o PutIf("unload_fw", 0) \o PutIf("dev_cpp", 0)
    \o Put("wq", 0) \o Put("drvdata", 0) \o PutIf("hwinfo", 0) \o Do("nfp_cpp_release", 0)
    \o When(lcfg.mon_event, PutIf("msix", 0)) \o PutIf("eth_tbl", 0) \o PutIf("nspi", 0)
    \o Put("devlink", 0) \o Put("regions", 0) \o Put("pci_enabled", 0)

nfp_pcie_sriov_enable ==
    Op("sriov_on", "", 0, "ret") \o Lock
    \o When(lcfg.netdev, Call("nfp_app_sriov_enable", 0, "sriov:err_sriov_disable"))
    \o Mark("num_vfs", 1) \o Unlock
ErrSriovDisable == Unlock \o Mark("sriov_off", 0)

nfp_pcie_sriov_disable == Lock \o Do("sriov_disable_locked", 0)
SriovDisableLocked ==
    IF vfs.assigned THEN Unlock
    ELSE Do("nfp_app_sriov_disable", 0) \o Mark("num_vfs", 0) \o Unlock \o Mark("sriov_off", 0)

DevlinkSplit == Lock \o Call("nfp_net_refresh_port_table_sync", 0, "unlock") \o Unlock

(***************************************************************************)
(* The VF driver (nfp_netvf_main.c), the character device (nfp_dev_cpp.c), *)
(* the ARM vNIC (nfp_net_vnic.c) and the module itself (nfp_main.c).       *)
(***************************************************************************)
\* The obsolete firmware ABI has one BAR for each direction.
VfQueueBars ==
    IF lcfg.fallback
    THEN Get("tx_bar", 0, "vf:err_netdev_free") \o Get("rx_bar", 0, "vf:err_unmap_tx")
    ELSE Get("q_bar", 0, "vf:err_netdev_free")

nfp_netvf_pci_probe ==
    Get("vf", 0, "ret") \o Get("pci_enabled", 0, "vf:err_free_vf")
    \o Get("regions", 0, "vf:err_pci_disable") \o Try("vf:err_pci_regions")
    \o Get("ctrl_bar", 0, "vf:err_pci_regions") \o Try("vf:err_ctrl_unmap")
    \o Call("nfp_net_alloc", 1, "vf:err_ctrl_unmap")
    \o VfQueueBars \o Get("irqs", 0, "vf:err_unmap_rx") \o Call("nfp_net_init", 1, "vf:err_irqs_disable")
    \o Opt("ddir", 0) \o Opt("nn_dir", 1)
VfErrFreeVf == Put("vf", 0)
VfErrPciDisable == Put("pci_enabled", 0) \o VfErrFreeVf
VfErrPciRegions == Put("regions", 0) \o VfErrPciDisable
VfErrCtrlUnmap == Put("ctrl_bar", 0) \o VfErrPciRegions
VfErrNetdevFree == Do("nfp_net_free", 1) \o VfErrCtrlUnmap
VfErrUnmapTx == (IF Held("q_bar", 0) THEN Put("q_bar", 0) ELSE Put("tx_bar", 0)) \o VfErrNetdevFree
VfErrUnmapRx == When(~Held("q_bar", 0), Put("rx_bar", 0)) \o VfErrUnmapTx
VfErrIrqsDisable == Put("irqs", 0) \o VfErrUnmapRx

nfp_netvf_pci_remove ==
    PutIf("nn_dir", 1) \o PutIf("ddir", 0) \o Do("nfp_net_clean", 1) \o Put("irqs", 0)
    \o (IF Held("q_bar", 0) THEN Put("q_bar", 0) ELSE Put("rx_bar", 0) \o Put("tx_bar", 0))
    \o Put("ctrl_bar", 0) \o Do("nfp_net_free", 1) \o Put("regions", 0)
    \o Put("pci_enabled", 0) \o Put("vf", 0)

nfp_dev_cpp_probe ==
    Take("cd_cpp", 0) \o Get("cd", 0, "cdev:no_cdev") \o Get("cd_add", 0, "cdev:err_cpp")
    \o Get("cd_dev", 0, "cdev:err_cpp_dev") \o Get("cd_file", 0, "cdev:err_attrib")
CdevNoCdev == Put("cd_cpp", 0)
CdevErrCpp == Put("cd_cpp", 0) \o Put("cd", 0)
CdevErrCppDev == Put("cd_add", 0) \o CdevErrCpp
CdevErrAttrib == Put("cd_dev", 0) \o CdevErrCppDev

nfp_dev_cpp_remove ==
    Put("cd_file", 0) \o Put("cd_dev", 0) \o Put("cd_add", 0) \o PutVia("cd_cpp", 0, "cd")
    \o Put("cd", 0)

nfp_net_vnic_probe ==
    Get("av_cpp", 0, "ret") \o Opt("av_hwinfo", 0) \o PutIf("av_hwinfo", 0)
    \o Try("armvnic:err_area_acquire") \o Get("av_area", 0, "armvnic:err_area_acquire")
    \o Get("av_nd", 0, "armvnic:err_alloc_netdev") \o Get("av_pktbufs", 0, "armvnic:err_pktbufs")
    \o Get("av_reg", 0, "armvnic:err_register_netdev") \o Get("av_attr", 0, "armvnic:err_add_attr")
AvErrAreaAcquire == Put("av_cpp", 0)
AvErrAllocNetdev == Put("av_area", 0) \o AvErrAreaAcquire
AvErrPktbufs == Put("av_nd", 0) \o AvErrAllocNetdev
AvErrRegisterNetdev == Put("av_pktbufs", 0) \o AvErrPktbufs
AvErrAddAttr == Put("av_reg", 0) \o AvErrRegisterNetdev

\* vnic is the private area of the net_device.
nfp_net_vnic_remove ==
    Put("av_attr", 0) \o Put("av_reg", 0) \o PutVia("av_pktbufs", 0, "av_nd") \o Put("av_nd", 0)
    \o PutVia("av_area", 0, "av_nd") \o PutVia("av_cpp", 0, "av_nd")

nfp_dev_cpp_init ==
    Get("cd_class", 0, "ret") \o Get("cd_region", 0, "cdi:err_cpp") \o Get("cd_driver", 0, "cdi:err_plat")
CdiErrCpp == Put("cd_class", 0)
CdiErrPlat == Put("cd_region", 0) \o CdiErrCpp
nfp_dev_cpp_exit == Put("cd_driver", 0) \o Put("cd_class", 0) \o Put("cd_region", 0)

nfp_main_init ==
    Try("ret") \o Get("cppcore", 0, "ret") \o Call("nfp_dev_cpp_init", 0, "mod:err_exit_cppcore")
    \o Get("av_driver", 0, "mod:err_exit_dev_cpp") \o Opt("debugfs", 0)
    \o Get("pf_driver", 0, "mod:err_destroy_debugfs") \o Get("vf_driver", 0, "mod:err_unreg_pf")
ModErrExitCppcore == Put("cppcore", 0)
ModErrExitDevCpp == Do("nfp_dev_cpp_exit", 0) \o ModErrExitCppcore
ModErrDestroyDebugfs == PutIf("debugfs", 0) \o Put("av_driver", 0) \o ModErrExitDevCpp
ModErrUnregPf == Put("pf_driver", 0) \o ModErrDestroyDebugfs
nfp_main_exit ==
    Put("vf_driver", 0) \o Put("pf_driver", 0) \o PutIf("debugfs", 0) \o Put("av_driver", 0)
    \o Do("nfp_dev_cpp_exit", 0) \o Put("cppcore", 0)

(***************************************************************************)
(* Names of functions and of labels.                                       *)
(***************************************************************************)
Label(p, i) ==
    CASE p = "abm_init:err_free_abm" -> ErrFreeAbm
      [] p = "abm_init:err_free_act" -> ErrFreeAct
      [] p = "abm_init:err_free_phys" -> ErrFreePhys
      [] p = "abm_init:err_free_thresh" -> ErrFreeThresh
      [] p = "abm_init:err_free_thresh_umap" -> ErrFreeThreshUmap
      [] p = "abm_spawn:err_free_port" -> AbmErrFreePort(i)
      [] p = "abm_spawn:err_free_repr" -> AbmErrFreeRepr(i)
      [] p = "abm_vnic_alloc:err_free_alink" -> ErrFreeAlink(i)
      [] p = "abm_vnic_alloc:err_free_priomap" -> ErrFreePriomap(i)
      [] p = "alloc_irqs:free" -> AllocIrqsFree
      [] p = "alloc_vnic:free" -> Do("nfp_net_free", i)
      [] p = "alloc_vnics:err_free_prev" -> nfp_net_pf_free_vnics
      [] p = "app_init:err_app_clean" -> ErrAppClean
      [] p = "app_init:err_init" -> AppInitErrInit
      [] p = "app_init:err_unmap" -> AppInitErrUnmap
      [] p = "app_start:err_app_stop" -> AppTypeStop
      [] p = "armvnic:err_add_attr" -> AvErrAddAttr
      [] p = "armvnic:err_alloc_netdev" -> AvErrAllocNetdev
      [] p = "armvnic:err_area_acquire" -> AvErrAreaAcquire
      [] p = "armvnic:err_pktbufs" -> AvErrPktbufs
      [] p = "armvnic:err_register_netdev" -> AvErrRegisterNetdev
      [] p = "bpf_init:err_clean_ccm" -> ErrCleanCcm
      [] p = "bpf_init:err_free_bpf" -> ErrFreeBpf
      [] p = "bpf_init:err_free_neutral_maps" -> ErrFreeNeutralMaps
      [] p = "bpf_vnic_alloc:err_free_priv" -> ErrFreePriv(i)
      [] p = "cdev:err_attrib" -> CdevErrAttrib
      [] p = "cdev:err_cpp" -> CdevErrCpp
      [] p = "cdev:err_cpp_dev" -> CdevErrCppDev
      [] p = "cdev:no_cdev" -> CdevNoCdev
      [] p = "cdi:err_cpp" -> CdiErrCpp
      [] p = "cdi:err_plat" -> CdiErrPlat
      [] p = "em:err_free" -> EmErrFree
      [] p = "enable_bars:err_unmap_bar0" -> ErrUnmapBar0
      [] p = "flower_init:err_cleanup" -> FlowerErrCleanup
      [] p = "flower_init:err_free_app_priv" -> ErrFreeAppPriv
      [] p = "flower_start:err_tunnel_config" -> ErrTunnelConfig
      [] p = "flower_vnic_init:err_clear_nn" -> ErrClearNn
      [] p = "flower_vnic_init:err_destroy_reprs_pf" -> ErrDestroyReprsPf
      [] p = "flower_vnic_init:err_destroy_reprs_phy" -> ErrDestroyReprsPhy
      [] p = "from_ops:err_attr" -> ErrAttr
      [] p = "from_ops:err_free_cpp" -> ErrFreeCpp
      [] p = "from_ops:err_malloc" -> ErrMalloc
      [] p = "from_ops:err_out" -> ErrOut
      [] p = "from_pcie:err_bar_disable" -> ErrBarDisable
      [] p = "from_pcie:err_free_nfp" -> ErrFreeNfp
      [] p = "fw_load:exit_release_fw" -> ExitReleaseFw
      [] p = "init_phy_port:port_free" -> InitPhyPortFree(i)
      [] p = "init_vnic:err_debugfs_vnic_clean" -> ErrDebugfsVnicClean(i)
      [] p = "init_vnic:err_devlink_port_clean" -> ErrDevlinkPortClean(i)
      [] p = "init_vnics:err_prev_deinit" -> ErrPrevDeinit(i)
      [] p = "map_mem:err_unmap_ctrl" -> ErrUnmapCtrl
      [] p = "map_mem:err_unmap_mac_stats" -> ErrUnmapMacStats
      [] p = "map_mem:err_unmap_vf_cfg" -> ErrUnmapVfCfg
      [] p = "map_mem:err_unmap_vfcfg_tbl2" -> ErrUnmapVfcfgTbl2
      [] p = "metadata_init:undo" -> MetadataUndo(i)
      [] p = "mod:err_destroy_debugfs" -> ModErrDestroyDebugfs
      [] p = "mod:err_exit_cppcore" -> ModErrExitCppcore
      [] p = "mod:err_exit_dev_cpp" -> ModErrExitDevCpp
      [] p = "mod:err_unreg_pf" -> ModErrUnregPf
      [] p = "mode_set:out" -> Unlock
      [] p = "net_alloc:err_free_nn" -> ErrFreeNn(i)
      [] p = "net_alloc:tlv" -> ErrFreeNn(i)
      [] p = "net_init:ndo_uninit" -> NdoUninit(i)
      [] p = "net_probe:err_clean_ddir" -> NetErrCleanDdir
      [] p = "net_probe:err_devlink_unreg" -> NetErrDevlinkUnreg
      [] p = "net_probe:err_free_irqs" -> NetErrFreeIrqs
      [] p = "net_probe:err_free_vnics" -> NetErrFreeVnics
      [] p = "net_probe:err_shared_buf_unreg" -> NetErrSharedBufUnreg
      [] p = "net_probe:err_stop_app" -> NetErrStopApp
      [] p = "net_probe:err_unmap" -> NetErrUnmap
      [] p = "nsp_init:exit_close_nsp" -> ExitCloseNsp
      [] p = "nsp_init:no_fw" -> NspInitNoFw
      [] p = "pf_start:err_app_stop" -> PfErrAppStop
      [] p = "pf_start:err_ctrl_stop" -> PfErrCtrlStop
      [] p = "probe:err_cpp_free" -> ErrCppFree
      [] p = "probe:err_dev_cpp_unreg" -> ErrDevCppUnreg
      [] p = "probe:err_disable_msix" -> ErrDisableMsix
      [] p = "probe:err_fw_unload" -> ErrFwUnload
      [] p = "probe:err_hwinfo_free" -> ErrHwinfoFree
      [] p = "probe:err_net_remove" -> ErrNetRemove
      [] p = "probe:err_pci_disable" -> ErrPciDisable
      [] p = "probe:err_pci_priv_unset" -> ErrPciPrivUnset
      [] p = "probe:err_rel_regions" -> ErrRelRegions
      [] p = "repr_init:err_repr_clean" -> ErrReprClean(i)
      [] p = "sb:err_release_area" -> SbErrReleaseArea
      [] p = "sb:err_unreg_prev" -> SbErrUnregPrev
      [] p = "spawn:err_free_ctrl_skb" -> ErrFreeCtrlSkb(i)
      [] p = "spawn:err_reprs_clean" -> ErrReprsClean(i)
      [] p = "spawn:no_init" -> SpawnNoInit(i)
      [] p = "spawn:no_port" -> SpawnNoPort(i)
      [] p = "spawn:no_priv" -> SpawnNoPriv(i)
      [] p = "sriov:err_sriov_disable" -> ErrSriovDisable
      [] p = "start_ctrl:err_clean_ctrl" -> ErrCleanCtrl
      [] p = "start_ctrl:err_close_ctrl" -> ErrCloseCtrl
      [] p = "switchdev:err_kill_all_reprs" -> ErrKillAllReprs
      [] p = "tunnel_start:undo" -> TunnelStartUndo
      [] p = "vf:err_ctrl_unmap" -> VfErrCtrlUnmap
      [] p = "vf:err_free_vf" -> VfErrFreeVf
      [] p = "vf:err_irqs_disable" -> VfErrIrqsDisable
      [] p = "vf:err_netdev_free" -> VfErrNetdevFree
      [] p = "vf:err_pci_disable" -> VfErrPciDisable
      [] p = "vf:err_pci_regions" -> VfErrPciRegions
      [] p = "vf:err_unmap_rx" -> VfErrUnmapRx
      [] p = "vf:err_unmap_tx" -> VfErrUnmapTx

Code(p, i) ==
    CASE p = "app_type_start" -> AppTypeStart
      [] p = "app_vnic_alloc" -> nfp_app_vnic_alloc(i)
      [] p = "app_vnic_clean" -> nfp_app_vnic_clean(i)
      [] p = "app_vnic_free" -> nfp_app_vnic_free(i)
      [] p = "app_vnic_init" -> nfp_app_vnic_init(i)
      [] p = "check_vnics" -> CheckVnics
      [] p = "disable_bars" -> disable_bars
      [] p = "enable_bars" -> enable_bars
      [] p = "err_reprs_clean" -> ErrReprsClean(i)
      [] p = "kill_invalid" -> KillInvalid(i)
      [] p = "net_or_vnic" -> NetOrVnic
      [] p = "nfp6000_free" -> nfp6000_free
      [] p = "nfp_abm_eswitch_mode_set" -> nfp_abm_eswitch_mode_set
      [] p = "nfp_abm_eswitch_set_legacy" -> nfp_abm_eswitch_set_legacy
      [] p = "nfp_abm_eswitch_set_switchdev" -> nfp_abm_eswitch_set_switchdev
      [] p = "nfp_abm_kill_repr" -> nfp_abm_kill_repr(i)
      [] p = "nfp_abm_spawn_repr" -> nfp_abm_spawn_repr(i)
      [] p = "nfp_app_clean" -> nfp_app_clean
      [] p = "nfp_app_init" -> nfp_app_init
      [] p = "nfp_app_nic_vnic_init_phy_port" -> nfp_app_nic_vnic_init_phy_port(i)
      [] p = "nfp_app_sriov_disable" -> nfp_app_sriov_disable
      [] p = "nfp_app_sriov_enable" -> nfp_app_sriov_enable
      [] p = "nfp_app_start" -> nfp_app_start
      [] p = "nfp_app_stop" -> nfp_app_stop
      [] p = "nfp_cpp_from_nfp6000_pcie" -> nfp_cpp_from_nfp6000_pcie
      [] p = "nfp_cpp_from_operations" -> nfp_cpp_from_operations
      [] p = "nfp_cpp_release" -> nfp_cpp_release
      [] p = "nfp_dev_cpp_exit" -> nfp_dev_cpp_exit
      [] p = "nfp_dev_cpp_init" -> nfp_dev_cpp_init
      [] p = "nfp_dev_cpp_probe" -> nfp_dev_cpp_probe
      [] p = "nfp_dev_cpp_remove" -> nfp_dev_cpp_remove
      [] p = "nfp_em_manager_create" -> nfp_em_manager_create
      [] p = "nfp_em_manager_destroy" -> nfp_em_manager_destroy
      [] p = "nfp_flower_metadata_init" -> nfp_flower_metadata_init
      [] p = "nfp_flower_spawn_phy_reprs" -> nfp_flower_spawn_phy_reprs(i)
      [] p = "nfp_flower_spawn_vnic_reprs" -> nfp_flower_spawn_vnic_reprs(i)
      [] p = "nfp_flower_sync_feature_bits" -> nfp_flower_sync_feature_bits
      [] p = "nfp_fw_load" -> nfp_fw_load
      [] p = "nfp_fw_unload" -> nfp_fw_unload
      [] p = "nfp_hwmon_register" -> nfp_hwmon_register
      [] p = "nfp_main_exit" -> nfp_main_exit
      [] p = "nfp_main_init" -> nfp_main_init
      [] p = "nfp_net_alloc" -> nfp_net_alloc(i)
      [] p = "nfp_net_clean" -> nfp_net_clean(i)
      [] p = "nfp_net_free" -> nfp_net_free(i)
      [] p = "nfp_net_init" -> nfp_net_init(i)
      [] p = "nfp_net_pci_map_mem" -> nfp_net_pci_map_mem
      [] p = "nfp_net_pci_probe" -> nfp_net_pci_probe
      [] p = "nfp_net_pci_remove" -> nfp_net_pci_remove
      [] p = "nfp_net_pci_unmap_mem" -> nfp_net_pci_unmap_mem
      [] p = "nfp_net_pf_alloc_irqs" -> nfp_net_pf_alloc_irqs
      [] p = "nfp_net_pf_alloc_vnic" -> nfp_net_pf_alloc_vnic(i)
      [] p = "nfp_net_pf_alloc_vnics" -> nfp_net_pf_alloc_vnics
      [] p = "nfp_net_pf_app_clean" -> nfp_net_pf_app_clean
      [] p = "nfp_net_pf_app_init" -> nfp_net_pf_app_init
      [] p = "nfp_net_pf_app_start" -> nfp_net_pf_app_start
      [] p = "nfp_net_pf_app_start_ctrl" -> nfp_net_pf_app_start_ctrl
      [] p = "nfp_net_pf_app_stop" -> nfp_net_pf_app_stop
      [] p = "nfp_net_pf_app_stop_ctrl" -> nfp_net_pf_app_stop_ctrl
      [] p = "nfp_net_pf_clean_vnic" -> nfp_net_pf_clean_vnic(i)
      [] p = "nfp_net_pf_free_irqs" -> nfp_net_pf_free_irqs
      [] p = "nfp_net_pf_free_vnic" -> nfp_net_pf_free_vnic(i)
      [] p = "nfp_net_pf_free_vnics" -> nfp_net_pf_free_vnics
      [] p = "nfp_net_pf_init_vnic" -> nfp_net_pf_init_vnic(i)
      [] p = "nfp_net_pf_init_vnics" -> nfp_net_pf_init_vnics
      [] p = "nfp_net_refresh_port_table_sync" -> nfp_net_refresh_port_table_sync
      [] p = "nfp_net_refresh_vnics" -> nfp_net_refresh_vnics
      [] p = "nfp_net_vnic_probe" -> nfp_net_vnic_probe
      [] p = "nfp_net_vnic_remove" -> nfp_net_vnic_remove
      [] p = "nfp_netvf_pci_probe" -> nfp_netvf_pci_probe
      [] p = "nfp_netvf_pci_remove" -> nfp_netvf_pci_remove
      [] p = "nfp_nsp_init" -> nfp_nsp_init
      [] p = "nfp_pci_probe" -> nfp_pci_probe
      [] p = "nfp_pci_shutdown" -> nfp_pci_shutdown(i)
      [] p = "nfp_pcie_sriov_disable" -> nfp_pcie_sriov_disable
      [] p = "nfp_pcie_sriov_enable" -> nfp_pcie_sriov_enable
      [] p = "nfp_repr_init" -> nfp_repr_init(i)
      [] p = "nfp_reprs_clean_and_free_by_type" -> nfp_reprs_clean_and_free_by_type(i)
      [] p = "nfp_reprs_resync_phys_ports" -> nfp_reprs_resync_phys_ports
      [] p = "nfp_shared_buf_register" -> nfp_shared_buf_register
      [] p = "nfp_shared_buf_unregister" -> nfp_shared_buf_unregister
      [] p = "nfp_tunnel_config_start" -> nfp_tunnel_config_start
      [] p = "read_rtbl" -> ReadRtbl
      [] p = "remove_vnics" -> RemoveVnics
      [] p = "ret" -> <<>>
      [] p = "shoot_invalid" -> ShootInvalid
      [] p = "split" -> DevlinkSplit
      [] p = "sriov_disable_locked" -> SriovDisableLocked
      [] p = "unlock" -> Unlock
      [] OTHER -> Label(p, i)

(***************************************************************************)
(* Running a thread.  A frame holds the steps that are left, the argument  *)
(* of the function, and whether the function is returning an error.        *)
(***************************************************************************)
Frame(p, i, failing) == [rest |-> Code(p, i), i |-> i, fail |-> failing]
Top(a) == Last(frames[a])
Now(a) == Head(Top(a).rest)
Below(a) == Front(frames[a])
Replace(a, f) == frames' = [frames EXCEPT ![a] = Append(Front(@), f)]
Advance(a) == Replace(a, [Top(a) EXCEPT !.rest = Tail(@)])
Raise(stack, st) ==
    Append(Front(stack), Frame(st.e, IF st.at >= 0 THEN st.at ELSE Last(stack).i, TRUE))

Res(st) == <<st.n, st.i>>
Present(st) == st.n \notin lcfg.without

Acquire(a, st) ==
    /\ st.op \in {"get", "take"} \/ (st.op \in {"opt", "maybe"} /\ Present(st))
    /\ held' = held \cup {Res(st)}
    /\ Advance(a)
    /\ UNCHANGED <<lcfg, vnics, vfs, devl, refresh, lhist>>

Skip(a, st) ==
    /\ (st.op \in {"opt", "maybe"} /\ ~Present(st)) \/ st.op = "try"
    /\ Advance(a)
    /\ UNCHANGED <<lcfg, held, vnics, vfs, devl, refresh, lhist>>

\* A step that can fail does, or the function reports an error of its own.
Jump(a, st) ==
    /\ \/ st.op \in {"get", "maybe", "try", "read_vfs", "sriov_on"} /\ lhist.fails < MaxFails
       \/ st.op = "fail"
    /\ frames' = [frames EXCEPT ![a] = Raise(@, st)]
    /\ lhist' = [lhist EXCEPT !.fails = @ + (IF st.op = "fail" THEN 0 ELSE 1),
                              !.where = @ \cup {<<st.n, st.e>>}]
    /\ UNCHANGED <<lcfg, held, vnics, vfs, devl, refresh>>

Releases(a, st) ==
    /\ st.op \in {"put", "putif", "putvia"}
    /\ held' = held \ {Res(st)}
    /\ lhist' = [lhist EXCEPT
           !.bad = @ \cup (IF st.op # "putif" /\ Res(st) \notin held THEN {Res(st)} ELSE {})
                     \cup (IF st.op = "putvia" /\ ~Held(st.e, 0) THEN {Res(st)} ELSE {}),
           !.invalid = @ \ {Res(st)}]
    /\ Advance(a)
    /\ UNCHANGED <<lcfg, vnics, vfs, devl, refresh>>

Enter(a, st) ==
    /\ st.op = "call"
    /\ frames' = [frames EXCEPT ![a] = Append(@, Frame(st.n, st.i, FALSE))]
    /\ UNCHANGED <<lcfg, held, vnics, vfs, devl, refresh, lhist>>

\* devl_lock() waits; the lock is released by the thread that holds it.
Locks(a, st) ==
    /\ \/ st.op = "lock" /\ devl = "free" /\ devl' = a
       \/ st.op = "unlock" /\ devl = a /\ devl' = "free"
    /\ Advance(a)
    /\ UNCHANGED <<lcfg, held, vnics, vfs, refresh, lhist>>

Lists(a, st) ==
    /\ \/ st.op = "link" /\ vnics' = Append(vnics, st.i)
       \/ st.op = "unlink" /\ vnics' = SelectSeq(vnics, LAMBDA k : k # st.i)
    /\ Advance(a)
    /\ UNCHANGED <<lcfg, held, vfs, devl, refresh, lhist>>

\* pci_num_vf() is read at probe; VFs left by an earlier life are still there.
Sriov(a, st) ==
    /\ \/ st.op = "num_vfs" /\ vfs' = [vfs EXCEPT !.num = st.i]
       \/ st.op = "read_vfs" /\ vfs' = [vfs EXCEPT !.num = vfs.pci]
       \/ st.op = "sriov_on" /\ vfs' = [vfs EXCEPT !.pci = 1]
       \/ st.op = "sriov_off" /\ vfs' = [vfs EXCEPT !.pci = 0]
    /\ Advance(a)
    /\ UNCHANGED <<lcfg, held, vnics, devl, refresh, lhist>>

\* cancel_work_sync() waits for a running work and drops a queued one.
CancelWork(a, st) ==
    /\ st.op = "cancel" /\ ~refresh.running
    /\ refresh' = [refresh EXCEPT !.queued = FALSE]
    /\ Advance(a)
    /\ UNCHANGED <<lcfg, held, vnics, vfs, devl, lhist>>

\* The new port table may mark ports as changed for good.
UpdatePorts(a, st) ==
    /\ st.op = "update_ports"
    /\ \E changed \in SUBSET {r \in held : r[1] = "port" \/ r = <<"repr_port", 1>>} :
           lhist' = [lhist EXCEPT !.invalid = @ \cup changed]
    /\ Advance(a)
    /\ UNCHANGED <<lcfg, held, vnics, vfs, devl, refresh>>

\* The walk reads a vNIC that is gone, or remove runs without an application:
\* what follows is not defined and is not followed.
Breaks(a, st) ==
    /\ st.op \in {"touch", "noapp"}
    /\ lhist' = [lhist EXCEPT !.ub = CASE st.op = "noapp" -> "noapp"
                                       [] ~Held("nn", st.i) -> "walk"
                                       [] OTHER -> @]
    /\ Advance(a)
    /\ UNCHANGED <<lcfg, held, vnics, vfs, devl, refresh>>

Perform(a) ==
    /\ frames[a] # <<>> /\ Top(a).rest # <<>>
    /\ \/ Acquire(a, Now(a)) \/ Skip(a, Now(a)) \/ Jump(a, Now(a)) \/ Releases(a, Now(a))
       \/ Enter(a, Now(a)) \/ Locks(a, Now(a)) \/ Lists(a, Now(a)) \/ Sriov(a, Now(a))
       \/ CancelWork(a, Now(a)) \/ UpdatePorts(a, Now(a)) \/ Breaks(a, Now(a))

PhaseAfter(failed) ==
    CASE lhist.phase = "probe" /\ ~failed -> "up"
      [] lhist.phase \in {"probe", "remove"} -> "idle"
      [] OTHER -> "up"

\* A function returns; at the bottom of the stack the request is complete.
Return(a) ==
    /\ frames[a] # <<>> /\ Top(a).rest = <<>>
    /\ IF Below(a) # <<>>
       THEN /\ frames' = [frames EXCEPT ![a] =
                   IF Top(a).fail THEN Raise(Below(a), Head(Last(Below(a)).rest))
                   ELSE Append(Front(Below(a)), [Last(Below(a)) EXCEPT !.rest = Tail(@)])]
            /\ UNCHANGED <<refresh, lhist>>
       ELSE /\ frames' = [frames EXCEPT ![a] = <<>>]
            /\ IF a = "work" THEN refresh' = [refresh EXCEPT !.running = FALSE] /\ UNCHANGED lhist
               ELSE lhist' = [lhist EXCEPT !.phase = PhaseAfter(Top(a).fail)] /\ UNCHANGED refresh
    /\ UNCHANGED <<lcfg, held, vnics, vfs, devl>>

(***************************************************************************)
(* What starts a thread.                                                   *)
(***************************************************************************)
ProbeOf == CASE lcfg.dev = "pf" -> "nfp_pci_probe" [] lcfg.dev = "vf" -> "nfp_netvf_pci_probe"
             [] lcfg.dev = "cdev" -> "nfp_dev_cpp_probe" [] lcfg.dev = "armvnic" -> "nfp_net_vnic_probe"
             [] OTHER -> "nfp_main_init"
RemoveOf == CASE lcfg.dev = "pf" -> "nfp_pci_shutdown" [] lcfg.dev = "vf" -> "nfp_netvf_pci_remove"
              [] lcfg.dev = "cdev" -> "nfp_dev_cpp_remove" [] lcfg.dev = "armvnic" -> "nfp_net_vnic_remove"
              [] OTHER -> "nfp_main_exit"

Begin(f, i, phase) ==
    /\ frames' = [frames EXCEPT !["main"] = <<Frame(f, i, FALSE)>>]
    /\ UNCHANGED <<lcfg, held, vnics, vfs, devl, refresh>>
    /\ lhist' = [lhist EXCEPT !.phase = phase, !.probes = @ + (IF phase = "probe" THEN 1 ELSE 0),
                              !.orders = @ + (IF phase = "op" THEN 1 ELSE 0)]

StartProbe == lhist.phase = "idle" /\ lhist.probes < MaxProbes /\ Begin(ProbeOf, 0, "probe")
StartRemove == lhist.phase = "up" /\ Begin(RemoveOf, 1, "remove")
Shutdown == lhist.phase = "up" /\ lcfg.dev = "pf" /\ Begin(RemoveOf, 0, "remove")

Order(f) == lhist.phase = "up" /\ lcfg.dev = "pf" /\ lhist.orders < MaxOrders /\ Begin(f, 0, "op")
SetNumVfs ==
    \/ vfs.pci = 0 /\ Order("nfp_pcie_sriov_enable")
    \/ vfs.pci = 1 /\ Order("nfp_pcie_sriov_disable")
SplitPort == Held("devlink_reg", 0) /\ Order("split")
SetEswitchMode == lcfg.app = "abm" /\ Held("devlink_reg", 0) /\ Order("nfp_abm_eswitch_mode_set")

\* A hypervisor takes or returns a VF.
AssignVf ==
    /\ vfs.pci = 1 /\ lhist.phase = "up" /\ lhist.orders < MaxOrders
    /\ vfs' = [vfs EXCEPT !.assigned = ~@]
    /\ lhist' = [lhist EXCEPT !.orders = @ + 1]
    /\ UNCHANGED <<lcfg, held, vnics, frames, devl, refresh>>

\* The link interrupt, or an ethtool request, of a port that is registered.
nfp_net_refresh_port_table ==
    /\ \E r \in held : (r[1] = "port" /\ Held("netdev_reg", r[2])) \/ r = <<"repr_reg", 1>>
    /\ lcfg.dev = "pf" /\ ~refresh.queued /\ lhist.refreshes < MaxRefreshes
    /\ refresh' = [refresh EXCEPT !.queued = TRUE]
    /\ lhist' = [lhist EXCEPT !.refreshes = @ + 1]
    /\ UNCHANGED <<lcfg, held, vnics, vfs, frames, devl>>

StartWork ==
    /\ refresh = [queued |-> TRUE, running |-> FALSE]
    /\ refresh' = [queued |-> FALSE, running |-> TRUE]
    /\ frames' = [frames EXCEPT !["work"] = <<Frame("nfp_net_refresh_vnics", 0, FALSE)>>]
    /\ UNCHANGED <<lcfg, held, vnics, vfs, devl, lhist>>

LifeInit ==
    /\ lcfg \in LifeConfigs
    /\ held = {} /\ vnics = <<>> /\ devl = "free"
    /\ vfs \in [num : {0}, pci : IF lcfg.dev = "pf" THEN {0, 1} ELSE {0}, assigned : {FALSE}]
    /\ frames = [a \in {"main", "work"} |-> <<>>]
    /\ refresh = [queued |-> FALSE, running |-> FALSE]
    /\ lhist = [phase |-> "idle", fails |-> 0, probes |-> 0, orders |-> 0, refreshes |-> 0,
                bad |-> {}, where |-> {}, invalid |-> {}, ub |-> "no"]

LifeNext ==
    /\ lhist.ub = "no"
    /\ \/ \E a \in {"main", "work"} : Perform(a) \/ Return(a)
       \/ StartProbe \/ StartRemove \/ Shutdown \/ SetNumVfs \/ SplitPort \/ SetEswitchMode
       \/ AssignVf \/ nfp_net_refresh_port_table \/ StartWork

(***************************************************************************)
(* Properties.                                                             *)
(***************************************************************************)
\* What the code is known to leave behind, and after which failure:
\* nfp_cpp_from_operations() does not free what its caller acquired,
\* nfp_net_alloc() forgets the XSK pools, nfp_nic_vnic_alloc() its port,
\* nfp_abm_vnic_set_mac() its NSP handle, and a representor that is removed by
\* a port refresh its net_device.
KnownLeaks ==
    UNION { IF \E w \in lhist.where : w[2] \in {"from_ops:err_malloc", "from_ops:err_free_cpp",
                                               "from_ops:err_attr", "from_ops:err_out"}
               \/ <<"cpp_id", "ret">> \in lhist.where
            THEN {"nfp", "bar0", "explbars", "evm", "em_irq", "pciebars_attr"} ELSE {},
            IF \E w \in lhist.where : w[2] = "net_alloc:tlv" THEN {"xsk_pools"} ELSE {},
            IF <<"app_priv", "ret">> \in lhist.where /\ lcfg.app = "nic" THEN {"port"} ELSE {},
            IF "hwinfo_lookup" \in lcfg.without THEN {"mac_nsp"} ELSE {},
            IF lhist.refreshes + lhist.orders > 0 THEN {"repr_nd"} ELSE {} }

Lasting == {r \in held : r[1] \notin KnownLeaks}

\* Whatever step fails, a device that is not bound any more holds nothing:
\* no mapping, no work queue, no netdev, no firmware handle, no lock.
AllReleased == lhist.phase = "idle" => Lasting = {} /\ vnics = <<>> /\ devl = "free"

\* Nothing is released that is not held, or through an owner that is gone,
\* but for the private data of a representor whose registration fails and
\* for the ARM vNIC, whose remove reads the vNIC after freeing it.
ReleasedOnce ==
    lhist.bad \subseteq {<<"repr_priv", t>> : t \in 1 .. 3} \cup {<<"av_area", 0>>, <<"av_cpp", 0>>}

\* What a resource is built on.
Needs(r) ==
    LET n == r[1]
        i == r[2]
    IN CASE n \in {"netdev_reg", "mbox_wq"} -> {<<"nn", i>>}
         [] n \in {"ctrl_open"} -> {<<"nn", Ctrl>>, <<"irqs", 0>>, <<"ctrl_vnic_bar", 0>>, <<"app", 0>>}
         [] n = "devlink_port" -> {<<"port", i>>, <<"devlink", 0>>}
         [] n \in {"port", "priv", "ctrl_vnic_bar", "netdev_nb"} -> {<<"app", 0>>}
         [] n = "repr_reg" -> {<<x, i>> : x \in {"repr_nd", "repr_priv", "repr_port", "repr_dst", "reprs"}}
                              \cup {<<"priv", 0>>}
         [] n \in {"reprs", "abm_reg", "qos", "lag", "indr", "offloaded_macs"} -> {<<"priv", 0>>}
         [] n \in {"data_vnic_bar", "qc_area", "vf_cfg_bar", "mac_stats_bar", "vfcfg_tbl2", "rtbl", "nsp",
                   "hwinfo", "dev_cpp", "net_vnic", "hwmon", "dumpspec"} -> {<<"cpp", 0>>}
         [] n = "app" -> {<<"data_vnic_bar", 0>>, <<"qc_area", 0>>, <<"rtbl", 0>>, <<"devlink", 0>>}
         [] n = "cpp" -> IF lhist.phase = "up" THEN {<<"nfp", 0>>} ELSE {<<"regions", 0>>}
         [] n \in {"bar0", "explbars", "evm", "pciebars_attr"} -> {<<"nfp", 0>>, <<"regions", 0>>}
         [] n = "devlink_reg" -> {<<"app", 0>>, <<"devlink", 0>>, <<"irqs", 0>>}
         [] n = "nn_dir" -> IF i = 1 \/ HasCtrl THEN {<<"ddir", 0>>} ELSE {}
         [] n = "regions" -> {<<"pci_enabled", 0>>}
         [] OTHER -> {}

\* The order of the releases: at no point of a probe, of an error path or of
\* a removal does the driver hold something whose foundation is gone, and a
\* refresh that is queued or runs finds the device.
NothingDangles ==
    /\ \A r \in Lasting : Needs(r) \subseteq held
    /\ refresh.queued \/ refresh.running => Held("wq", 0) /\ Held("cpp", 0)

\* A flower device has representors of its VFs exactly when it has VFs,
\* whatever the order of SR-IOV requests, probes and refreshes.
VfsAgree ==
    devl = "free" /\ lhist.phase = "up" /\ lcfg.app = "flower" /\ Held("priv_nn", 0)
    => (Held("reprs", 3) <=> vfs.num > 0)

\* "NOTE: On failure, cpp_ops->free will be called!" (nfp_cppcore.c)
FreeCalledOnFailure ==
    lhist.phase = "idle" => held \cap {<<"nfp", 0>>, <<"bar0", 0>>, <<"evm", 0>>} = {}

\* "Check for nfp_net_pci_remove() racing against us" (nfp_net_main.c)
RefreshSeesLiveVnics == lhist.ub # "walk"
==============================================================================

------------------------------ MODULE MCNetdev ------------------------------
(***************************************************************************)
(* A vNIC while it is up (Vnic), and the driver from probe to remove       *)
(* (Lifecycle).  A behaviour is one of the two.                            *)
(*                                                                         *)
(* The vNIC has two vectors and one ring more for XDP; three operations    *)
(* under rtnl follow each other and the receive mode changes once at any   *)
(* time.  The driver is probed and removed once on each kind of device,    *)
(* with each application, with and without the tables the firmware may     *)
(* lack; one step of probe may fail at any place, and one order (SR-IOV,   *)
(* port split, eswitch mode) and one port refresh come at any time.        *)
(***************************************************************************)
EXTENDS Vnic, Lifecycle

VARIABLE part

Config(d, a, n, f, m, w) ==
    [dev |-> d, app |-> a, netdev |-> n, fallback |-> f, mon_event |-> m,
     reinit |-> FALSE, without |-> w]
MCConfigs ==
    {Config("pf", a, TRUE, FALSE, FALSE, {}) : a \in {"nic", "bpf", "flower", "abm"}}
    \cup {Config("pf", "nic", TRUE, f, TRUE, {w}) :
            f \in BOOLEAN, w \in {"mip", "rtbl", "eth_tbl", "nspi"}}
    \cup {Config("pf", "nic", FALSE, FALSE, TRUE, {w}) : w \in {"none", "net_vnic"}}
    \cup {Config("pf", "abm", TRUE, FALSE, FALSE, {"hwinfo_lookup"})}
    \cup {Config("vf", "nic", TRUE, f, FALSE, {}) : f \in BOOLEAN}
    \cup {Config(d, "nic", TRUE, FALSE, FALSE, {}) : d \in {"cdev", "armvnic", "module"}}

\* The part that does not run starts in one state.
MCInit ==
    /\ part \in {"vnic", "life"}
    /\ VnicInit /\ LifeInit
    /\ part # "vnic" => flCap = CHOOSE f \in FreelistCap : TRUE
    /\ part # "life" => vfs.pci = 0 /\ lcfg = CHOOSE l \in LifeConfigs : TRUE

MCNext ==
    \/ part = "vnic" /\ VnicNext /\ UNCHANGED <<lifevars, part>>
    \/ part = "life" /\ LifeNext /\ UNCHANGED <<vnicvars, part>>

MCSpec == MCInit /\ [][MCNext]_<<vnicvars, lifevars, part>>

-----------------------------------------------------------------------------
\* Vectors, rings, NAPI contexts and the port match whichever step of an
\* open, a close or a ring change failed, and the device never works with
\* freed ring memory (nfp_net_common.c).
VnicRingsSound == part = "vnic" => RingsMatchVectors /\ DeviceOnLiveRings

\* Between operations the cached control word is the device's, and a
\* running device is enabled in the mode the stack wants
\* (nfp_net_common.c).
VnicWordKept == part = "vnic" => CtrlWordKept

\* A failed probe and a remove release what was acquired, each once and in
\* an order in which nothing is used after its release
\* (nfp_main.c, nfp_net_main.c and the functions they call).
ProbeUndone == part = "life" => AllReleased /\ ReleasedOnce

\* Nothing refers to what has been released, and the number of VFs the
\* driver believes in is the number the device has, as far as its callbacks
\* are concerned (nfp_main.c, nfp_app.h).
NothingLeftBehind == part = "life" => NothingDangles /\ VfsAgree

=============================================================================

-------------------------------- MODULE Vnic --------------------------------
(***************************************************************************)
(* A vNIC being opened, closed and given new rings while it runs           *)
(* (nfp_net_common.c), with the control word that the driver caches.       *)
(*                                                                         *)
(* Open, close, a change of the rings (MTU, channels, ring sizes, XDP) and *)
(* a change of the features run under rtnl, one at a time.  They sleep     *)
(* while the device takes an update (Reconfig models the update protocol), *)
(* and nfp_net_set_rx_mode() may run meanwhile: it only has the address    *)
(* lock.  Both sides read nn->dp.ctrl, write the CTRL register and store   *)
(* the new word in nn->dp.ctrl.                                            *)
(*                                                                         *)
(* What is left of an operation is the sequence todo; each action does the *)
(* first entry.  A data path is [ctrl, w1, rx, tx, stack, vecs, xdp, mtu,  *)
(* rings]; rings names the ring memory it owns, 0 for none.                *)
(***************************************************************************)
EXTENDS Integers, Sequences, FiniteSets

CONSTANTS
    MaxVecs,        \* nn->max_r_vecs
    MaxTx,          \* nn->max_tx_rings
    Mtus,           \* MTUs; those above PageMtu do not fit a page with XDP
    PageMtu,
    MaxOps,         \* bound: operations under rtnl
    MaxModes,       \* bound: changes of the receive mode
    FreelistCap     \* cap_w1 may have FREELIST_EN: the device's two-step start

Vecs == 0 .. MaxVecs - 1
EN == "enable"
MODE == "rxmode"    \* L2MC, PROMISC: nfp_net_set_rx_mode
FEAT == "feature"   \* the bits of nfp_net_set_features
FL == "freelist"

ASSUME VnicConstants ==
    /\ MaxVecs \in Nat \ {0} /\ MaxTx \in Nat \ {0}
    /\ FreelistCap \subseteq BOOLEAN /\ FreelistCap # {}

VARIABLES
    flCap,          \* nn->cap_w1 & FREELIST_EN
    dp,             \* nn->dp
    new,            \* the data path of nfp_net_ring_reconfig()
    live,           \* ring memory that is allocated
    running,        \* netif_running()
    prepared,       \* vectors with an IRQ and a NAPI: nfp_net_prepare_vector()
    napi,           \* vectors that are enabled: nfp_net_open_stack()
    vecRings,       \* the rings a vector points to
    port,           \* nfp_port_configure()
    reg,            \* the CTRL register and CTRL_WORD1
    regRings,       \* the rings the control BAR points to
    hw,             \* [on, rings] that the device works with
    posted,         \* an update is posted
    todo,           \* what the operation under rtnl still has to do
    loc,            \* its new_ctrl and new_ctrl_w1
    rxm,            \* nfp_net_set_rx_mode() under way: [pc, ctrl]
    wantMode,       \* the mode the stack asked for last
    hist,           \* what went wrong so far: see NoHistory
    ops, modes      \* operations and mode changes so far

vnicvars == <<flCap, dp, new, live, running, prepared, napi, vecRings, port, reg,
              regRings, hw, posted, todo, loc, rxm, wantMode, hist, ops, modes>>

\* overlap: set_rx_mode() ran during an operation.  nodisable: the device did
\* not take an update that disables it.  lost: neither the new nor the old
\* rings could be started.  dirty: set_features() failed.
NoHistory == [overlap |-> FALSE, nodisable |-> FALSE, lost |-> FALSE, dirty |-> FALSE]

Idle == todo = <<>>
Then(s) == todo' = s \o Tail(todo)
Doing(x) == todo # <<>> /\ Head(todo) = x
Step(s) == todo' = s
NoWords == [ctrl |-> {}, w1 |-> {}]

\* An operation starts; the register is about to be written again.
Starts == /\ ops < MaxOps /\ ops' = ops + 1 /\ UNCHANGED modes
          /\ hist' = [hist EXCEPT !.overlap = @ \/ rxm.pc # "idle", !.dirty = FALSE]
StartsQuietly == /\ ops < MaxOps /\ ops' = ops + 1 /\ UNCHANGED modes
                 /\ hist' = [hist EXCEPT !.overlap = @ \/ rxm.pc # "idle"]

-----------------------------------------------------------------------------
(***************************************************************************)
(* Data paths.                                                             *)
(***************************************************************************)
Larger(a, b) == IF a > b THEN a ELSE b

\* What nfp_net_ring_reconfig() computes from the numbers of rings.
Derived(d) ==
    LET stack == IF d.xdp THEN d.tx - d.rx ELSE d.tx
    IN  [d EXCEPT !.stack = stack, !.vecs = Larger(d.rx, stack)]

nfp_net_check_config(d) == d.xdp => d.mtu <= PageMtu /\ d.tx <= MaxTx

NoDp == [ctrl |-> {}, w1 |-> {}, rx |-> 0, tx |-> 0, stack |-> 0, vecs |-> 0,
         xdp |-> FALSE, mtu |-> 0, rings |-> 0]

CloneLosesCtrl == [dp EXCEPT !.ctrl = {}, !.stack = 0, !.vecs = 0, !.rings = 0]
nfp_net_clone_dp == [dp EXCEPT !.stack = 0, !.vecs = 0, !.rings = 0]

\* nfp_net_change_mtu(), nfp_net_set_num_rings() of ethtool and
\* nfp_net_xdp_setup_drv(): the data paths that are asked for.
Wanted ==
    {[nfp_net_clone_dp EXCEPT !.mtu = m] : m \in Mtus}
    \cup {[nfp_net_clone_dp EXCEPT !.rx = n, !.tx = n + (IF dp.xdp THEN n ELSE 0)] : n \in 1 .. MaxVecs}
    \cup {[nfp_net_clone_dp EXCEPT !.xdp = ~dp.xdp,
                                   !.tx = IF dp.xdp THEN @ - dp.rx ELSE @ + dp.rx]}

FreshRings == CHOOSE r \in 1 .. 2 : r \notin live
VecsOf(d) == 0 .. d.vecs - 1

AssignOldRings(d) ==
    [v \in Vecs |-> IF v < d.rx \/ v < d.stack THEN dp.rings ELSE 0]
nfp_net_vector_assign_rings(d) ==
    [v \in Vecs |-> IF v < d.rx \/ v < d.stack THEN d.rings ELSE 0]

-----------------------------------------------------------------------------
(***************************************************************************)
(* Starting an operation under rtnl.                                       *)
(***************************************************************************)
ClearSteps == IF flCap THEN <<"clear1", "clear2", "clearfl", "clear3">>
              ELSE <<"clear1", "clear2", "clear3">>
EnableSteps == IF flCap THEN <<"enable1", "enable2", "enablefl", "enable3">>
               ELSE <<"enable1", "enable2">>

nfp_net_prepare_vector(d) == prepared' = prepared \cup VecsOf(d)

nfp_net_open_alloc_all ==
    LET d == [dp EXCEPT !.rings = FreshRings]
    IN  /\ dp' = d /\ live' = live \cup {d.rings}
        /\ nfp_net_prepare_vector(d) /\ vecRings' = nfp_net_vector_assign_rings(d)

\* nfp_net_open_alloc_all() and the queue counts: all is undone on an error.
nfp_net_netdev_open ==
    /\ Idle /\ ~running
    /\ \/ UNCHANGED <<dp, live, prepared, vecRings, running, port, todo>>
       \/ /\ nfp_net_open_alloc_all /\ running' = TRUE /\ port' = TRUE
          /\ Step(EnableSteps \o <<"openstack">>)
    /\ UNCHANGED <<flCap, new, napi, reg, regRings, hw, posted, loc, rxm, wantMode>>
    /\ StartsQuietly

nfp_net_close_stack == napi' = {}

nfp_net_netdev_close ==
    /\ Idle /\ running
    /\ nfp_net_close_stack /\ Step(ClearSteps \o <<"freeall">>)
    /\ UNCHANGED <<flCap, dp, new, live, running, prepared, vecRings, port, reg, regRings,
                   hw, posted, loc, rxm, wantMode>>
    /\ Starts

\* nfp_net_ring_reconfig() up to the point where the device is stopped.
nfp_net_ring_reconfig ==
    /\ Idle
    /\ \E w \in Wanted :
        LET d == Derived(w)
            r == FreshRings
        IN  /\ d.tx > 0 /\ d.vecs <= MaxVecs
            /\ \/ /\ ~nfp_net_check_config(d)
                  /\ UNCHANGED <<dp, new, live, prepared, napi, todo>>
               \/ /\ nfp_net_check_config(d) /\ ~running /\ dp' = d
                  /\ UNCHANGED <<new, live, prepared, napi, todo>>
               \/ \* a vector or a ring cannot be had: all is undone
                  /\ nfp_net_check_config(d) /\ running
                  /\ UNCHANGED <<dp, new, live, prepared, napi, todo>>
               \/ /\ nfp_net_check_config(d) /\ running
                  /\ new' = [d EXCEPT !.rings = r] /\ live' = live \cup {r}
                  /\ nfp_net_prepare_vector(d) /\ nfp_net_close_stack
                  /\ Step(ClearSteps \o <<"swap">> \o EnableSteps \o <<"finish">>)
                  /\ UNCHANGED dp
    /\ UNCHANGED <<flCap, running, vecRings, port, reg, regRings, hw, posted, loc, rxm,
                   wantMode>>
    /\ StartsQuietly

\* nfp_net_set_features() up to the update.
nfp_net_set_features ==
    /\ Idle
    /\ \E on \in BOOLEAN :
        LET ctrl == IF on THEN dp.ctrl \cup {FEAT} ELSE dp.ctrl \ {FEAT}
        IN  /\ ctrl # dp.ctrl /\ loc' = [ctrl |-> ctrl, w1 |-> dp.w1]
            /\ reg' = [reg EXCEPT !.ctrl = ctrl] /\ Step(<<"feature">>)
    /\ UNCHANGED <<flCap, dp, new, live, running, prepared, napi, vecRings, port, regRings,
                   hw, posted, rxm, wantMode>>
    /\ Starts

-----------------------------------------------------------------------------
(***************************************************************************)
(* The steps of an operation.  An update that the device answers makes it  *)
(* work with what is in the registers; one that it does not answer may     *)
(* have had its effect or not.                                             *)
(***************************************************************************)
HwFrom(r, rings) ==
    [on |-> EN \in r.ctrl, rings |-> IF EN \in r.ctrl \/ FL \in r.w1 THEN rings ELSE 0]
Taken == hw' = HwFrom(reg, regRings) /\ posted' = FALSE
MaybeTaken == hw' \in {hw, HwFrom(reg, regRings)} /\ UNCHANGED posted

\* nfp_net_clear_config_and_disable(): the word without ENABLE, the update,
\* the second update for FREELIST_EN, and then the cached word.
Clear1 ==
    /\ Doing("clear1") /\ Then(<<>>)
    /\ loc' = [ctrl |-> dp.ctrl \ {EN}, w1 |-> dp.w1 \ {FL}]
    /\ reg' = [reg EXCEPT !.ctrl = dp.ctrl \ {EN}]
    /\ regRings' = IF flCap THEN regRings ELSE 0
    /\ UNCHANGED <<flCap, dp, new, live, running, prepared, napi, vecRings, port,
                   hw, posted, rxm, wantMode, hist, ops, modes>>

ClearUpdate ==
    /\ \/ Doing("clear2") /\ UNCHANGED <<reg, regRings>>
       \/ Doing("clearfl") /\ reg' = [reg EXCEPT !.w1 = loc.w1] /\ regRings' = 0
    /\ Then(<<>>)
    /\ \/ hw' = HwFrom(reg', regRings') /\ posted' = FALSE /\ UNCHANGED hist
       \/ UNCHANGED <<hw, posted>> /\ hist' = [hist EXCEPT !.nodisable = TRUE]
    /\ UNCHANGED <<flCap, dp, new, live, running, prepared, napi, vecRings, port,
                   loc, rxm, wantMode, ops, modes>>

Clear3 ==
    /\ Doing("clear3") /\ Then(<<>>)
    /\ dp' = [dp EXCEPT !.ctrl = loc.ctrl, !.w1 = IF flCap THEN loc.w1 ELSE @]
    /\ loc' = NoWords
    /\ UNCHANGED <<flCap, new, live, running, prepared, napi, vecRings, port, reg, regRings,
                   hw, posted, rxm, wantMode, hist, ops, modes>>

\* nfp_net_set_config_and_enable(): rings and words, the update, the cached
\* words; with FREELIST_EN a second update sets ENABLE.
Enable1 ==
    LET ctrl == IF flCap THEN dp.ctrl ELSE dp.ctrl \cup {EN}
        w1 == IF flCap THEN dp.w1 \cup {FL} ELSE dp.w1
    IN  /\ Doing("enable1") /\ Then(<<>>)
        /\ loc' = [ctrl |-> ctrl, w1 |-> w1] /\ reg' = [ctrl |-> ctrl, w1 |-> w1]
        /\ regRings' = dp.rings
        /\ UNCHANGED <<flCap, dp, new, live, running, prepared, napi, vecRings, port, hw,
                       posted, rxm, wantMode, hist, ops, modes>>

\* What follows a failed start: nfp_net_netdev_open() frees everything, the
\* ring change goes back to the old rings once.
AfterFailure ==
    LET clear == ClearSteps
        last == todo[Len(todo)]
    IN  CASE last = "openstack" -> clear \o <<"freeall">>
          [] last = "finish" -> clear \o clear \o <<"swap">> \o EnableSteps \o <<"finish2">>
          [] last = "finish2" -> clear \o <<"lost", "finish2">>

EnableUpdate ==
    /\ Doing("enable2") \/ Doing("enable3")
    /\ \/ /\ Taken /\ Then(<<>>)
          /\ dp' = [dp EXCEPT !.ctrl = loc.ctrl, !.w1 = loc.w1]
          /\ loc' = IF Doing("enable2") /\ flCap THEN loc ELSE NoWords
       \/ MaybeTaken /\ todo' = AfterFailure /\ loc' = NoWords /\ UNCHANGED dp
    /\ UNCHANGED <<flCap, new, live, running, prepared, napi, vecRings, port, reg, regRings,
                   rxm, wantMode, hist, ops, modes>>

EnableFreelist ==
    /\ Doing("enablefl") /\ Then(<<>>)
    /\ loc' = [loc EXCEPT !.ctrl = @ \cup {EN}]
    /\ reg' = [reg EXCEPT !.ctrl = loc.ctrl \cup {EN}]
    /\ UNCHANGED <<flCap, dp, new, live, running, prepared, napi, vecRings, port, regRings,
                   hw, posted, rxm, wantMode, hist, ops, modes>>

\* nfp_net_dp_swap_enable() up to the start: it may fail to set the number of
\* queues, and then the device is not started.
nfp_net_dp_swap_enable ==
    /\ Doing("swap") /\ dp' = new /\ new' = dp
    /\ vecRings' = nfp_net_vector_assign_rings(new)
    /\ \/ Then(<<>>) /\ UNCHANGED hist
       \/ LET last == todo[Len(todo)]
          IN  IF last = "finish"
              THEN /\ todo' = ClearSteps \o <<"swap">> \o EnableSteps \o <<"finish2">>
                   /\ UNCHANGED hist
              ELSE todo' = <<"finish2">> /\ hist' = [hist EXCEPT !.lost = TRUE]
    /\ UNCHANGED <<flCap, live, running, prepared, napi, port, reg, regRings, hw, posted,
                   loc, rxm, wantMode, ops, modes>>

Lost == /\ Doing("lost") /\ Then(<<>>) /\ hist' = [hist EXCEPT !.lost = TRUE]
        /\ UNCHANGED <<flCap, dp, new, live, running, prepared, napi, vecRings, port, reg,
                       regRings, hw, posted, loc, rxm, wantMode, ops, modes>>

\* The end of nfp_net_ring_reconfig(): what the data path in use does not
\* need is given back, and the stack is started whatever happened.
Finish ==
    /\ Doing("finish") \/ Doing("finish2")
    /\ Then(<<>>)
    /\ prepared' = prepared \ {v \in VecsOf(new) : v >= dp.vecs}
    /\ live' = live \ {new.rings} /\ new' = NoDp
    /\ napi' = VecsOf(dp)
    /\ UNCHANGED <<flCap, dp, running, vecRings, port, reg, regRings, hw, posted, loc, rxm,
                   wantMode, hist, ops, modes>>

nfp_net_open_stack ==
    /\ Doing("openstack") /\ Then(<<>>) /\ napi' = VecsOf(dp)
    /\ UNCHANGED <<flCap, dp, new, live, running, prepared, vecRings, port, reg, regRings,
                   hw, posted, loc, rxm, wantMode, hist, ops, modes>>

\* nfp_net_close_free_all() and the port; the rings are forgotten with it.
nfp_net_close_free_all ==
    /\ Doing("freeall") /\ Then(<<>>)
    /\ live' = live \ {dp.rings} /\ dp' = [dp EXCEPT !.rings = 0]
    /\ prepared' = prepared \ VecsOf(dp) /\ port' = FALSE /\ running' = FALSE
    /\ UNCHANGED <<flCap, new, napi, vecRings, reg, regRings, hw, posted, loc, rxm,
                   wantMode, hist, ops, modes>>

FeatureUpdate ==
    /\ Doing("feature") /\ Then(<<>>)
    /\ \/ Taken /\ dp' = [dp EXCEPT !.ctrl = loc.ctrl] /\ UNCHANGED hist
       \/ MaybeTaken /\ UNCHANGED dp /\ hist' = [hist EXCEPT !.dirty = TRUE]
    /\ loc' = NoWords
    /\ UNCHANGED <<flCap, new, live, running, prepared, napi, vecRings, port, reg, regRings,
                   rxm, wantMode, ops, modes>>

-----------------------------------------------------------------------------
(***************************************************************************)
(* nfp_net_set_rx_mode(), for a device that is up.                         *)
(***************************************************************************)
nfp_net_set_rx_mode ==
    /\ rxm.pc = "idle" /\ running /\ modes < MaxModes /\ modes' = modes + 1
    /\ \E on \in BOOLEAN :
        LET ctrl == IF on THEN dp.ctrl \cup {MODE} ELSE dp.ctrl \ {MODE}
        IN  /\ wantMode' = on
            /\ IF ctrl = dp.ctrl THEN UNCHANGED <<reg, rxm>>
               ELSE rxm' = [pc |-> "post", ctrl |-> ctrl] /\ reg' = [reg EXCEPT !.ctrl = ctrl]
    /\ hist' = [hist EXCEPT !.overlap = @ \/ ~Idle]
    /\ UNCHANGED <<flCap, dp, new, live, running, prepared, napi, vecRings, port, regRings,
                   hw, posted, todo, loc, ops>>

RxModePost ==
    /\ rxm.pc = "post" /\ rxm' = [pc |-> "idle", ctrl |-> {}]
    /\ posted' = TRUE /\ dp' = [dp EXCEPT !.ctrl = rxm.ctrl]
    /\ hist' = [hist EXCEPT !.overlap = @ \/ ~Idle]
    /\ UNCHANGED <<flCap, new, live, running, prepared, napi, vecRings, port, reg, regRings,
                   hw, todo, loc, wantMode, ops, modes>>

\* The device takes the posted update: the words, not the rings.
PostedTaken ==
    /\ posted /\ posted' = FALSE /\ hw' = [hw EXCEPT !.on = EN \in reg.ctrl]
    /\ UNCHANGED <<flCap, dp, new, live, running, prepared, napi, vecRings, port, reg,
                   regRings, todo, loc, rxm, wantMode, hist, ops, modes>>

-----------------------------------------------------------------------------
\* nfp_net_init() leaves the device disabled.
VnicInit ==
    /\ flCap \in FreelistCap
    /\ dp = Derived([ctrl |-> {FEAT}, w1 |-> {}, rx |-> 1, tx |-> 1, stack |-> 0, vecs |-> 0,
                     xdp |-> FALSE, mtu |-> PageMtu, rings |-> 0])
    /\ new = NoDp /\ live = {} /\ running = FALSE /\ prepared = {} /\ napi = {}
    /\ vecRings = [v \in Vecs |-> 0] /\ port = FALSE
    /\ reg = [ctrl |-> {}, w1 |-> {}] /\ regRings = 0
    /\ hw = [on |-> FALSE, rings |-> 0] /\ posted = FALSE
    /\ todo = <<>> /\ loc = NoWords
    /\ rxm = [pc |-> "idle", ctrl |-> {}] /\ wantMode = FALSE /\ hist = NoHistory
    /\ ops = 0 /\ modes = 0

VnicNext ==
    \/ nfp_net_netdev_open \/ nfp_net_netdev_close \/ nfp_net_ring_reconfig
    \/ nfp_net_set_features \/ Clear1 \/ ClearUpdate \/ Clear3
    \/ Enable1 \/ EnableUpdate \/ EnableFreelist \/ nfp_net_dp_swap_enable
    \/ Lost \/ Finish \/ nfp_net_open_stack \/ nfp_net_close_free_all \/ FeatureUpdate
    \/ nfp_net_set_rx_mode \/ RxModePost \/ PostedTaken

-----------------------------------------------------------------------------
\* A vector that the stack may run points only to ring memory that exists,
\* and between operations exactly the rings and vectors of the data path in
\* use are held, whichever step failed (nfp_net_ring_reconfig,
\* nfp_net_open_alloc_all, nfp_net_dp_swap_enable).
RingsMatchVectors ==
    /\ \A v \in napi : vecRings[v] \in live /\ v \in prepared
    /\ Idle => /\ live = (IF running THEN {dp.rings} ELSE {})
               /\ prepared = (IF running THEN VecsOf(dp) ELSE {})
               /\ napi = prepared /\ port = running

\* The device never works with ring memory that has been freed, if it answers
\* the updates that disable it, even when nfp_net_set_rx_mode() sets ENABLE
\* again meanwhile (nfp_net_clear_config_and_disable before every free).
DeviceOnLiveRings ==
    hw.rings \in live \cup {0} \/ hist.nodisable

\* "Clear control BAR and disable NFP": once nfp_net_clear_config_and_disable()
\* has returned and all updates have been taken, the device is off.
ClearedIsOff ==
    ~running /\ ~posted /\ ~hist.nodisable => ~hw.on

\* Between operations the cached control word is the one in the register, the
\* mode bit is the one the stack asked for, and a running device is enabled,
\* unless nfp_net_set_features() failed, both ring configurations failed, or
\* the receive mode changed during an operation (nfp_net_set_rx_mode,
\* nfp_net_clone_dp, nfp_net_set_config_and_enable).
CtrlWordKept ==
    Idle /\ rxm.pc = "idle" /\ ~hist.overlap =>
        /\ running /\ ~hist.dirty => reg.ctrl = dp.ctrl
        /\ (MODE \in dp.ctrl) = wantMode
        /\ ~hist.lost => (EN \in dp.ctrl) = running
=============================================================================

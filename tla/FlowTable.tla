------------------------------ MODULE FlowTable ------------------------------
(***************************************************************************)
(* The flows of the flower app (flower/offload.c, flower/metadata.c): rules *)
(* that TC adds and deletes, the merge flows the driver makes of two of    *)
(* them on a hint of the firmware, and what they share: stats context ids, *)
(* mask ids, the offloaded tunnel address.                                 *)
(*                                                                         *)
(* A rule is named by its TC cookie, a merge flow by the pair <<sub_flow1, *)
(* sub_flow2>>.  Every operation runs under nfp_fl_lock and is one action; *)
(* f names the allocation that fails in it ("none": all succeed), at most  *)
(* MaxFaults of them.  fl is the state; an operator that takes a state s   *)
(* returns the changed one.                                                *)
(***************************************************************************)
EXTENDS Integers, Sequences, FiniteSets, TLC, SequencesExt

CONSTANTS
    Cookies,        \* the TC rules
    RuleOf,         \* a rule's [mask, tun, pre]: tun \in {"no", "v4", "v6"}
    CtxCount,       \* CONFIG.host_ctx_count of the firmware
    NumMems,        \* its memory units
    MaskRing,       \* NFP_FLOWER_MASK_ENTRY_RS
    MaxFaults,      \* bound: allocations that fail
    MaxRuleOps,     \* bound: rules added and deleted, merge hints
    MaxCounts       \* bound: stats messages of the firmware

\* roundup_pow_of_two(ctx_count)
stats_ring_size == CHOOSE p \in {2^i : i \in 0 .. CtxCount} : p >= CtxCount /\ p < 2 * CtxCount

ASSUME FlowConstants ==
    /\ CtxCount \in Nat \ {0} /\ NumMems \in 1 .. CtxCount
    /\ MaskRing \in {2^i : i \in 1 .. 8}
    /\ MaxFaults \in Nat /\ MaxRuleOps \in Nat /\ MaxCounts \in Nat

None == "none"
StatsIds == (0 .. (CtxCount \div NumMems) - 1) \X (0 .. NumMems - 1)
Pairs == {m \in Cookies \X Cookies : m[1] # m[2]}
Fids == Cookies \cup Pairs
KeyOf(fid) == IF fid \in Cookies THEN fid ELSE fid[1]
Without(fn, x) == [y \in DOMAIN fn \ {x} |-> fn[y]]

VARIABLE fl
flvars == <<fl>>

\* stuck, lost, stray: mask references, stats ids and hardware entries that an
\* error path left behind, with the rules they belong to.
nfp_flower_metadata_init ==
    [unalloc |-> CtxCount \div NumMems, unit |-> 0, free |-> <<>>,
     munalloc |-> MaskRing - 1, mfree |-> <<>>, cooling |-> {}, masks |-> <<>>,
     ctx |-> <<>>, flows |-> <<>>, merged |-> {}, order |-> <<>>,
     v4 |-> 0, v6 |-> 0, stats |-> [i \in StatsIds |-> {}], inflight |-> {},
     hw |-> <<>>, fwmasks |-> {}, pretun |-> {},
     faults |-> 0, ops |-> 0, counts |-> 0, lost |-> {}, stuck |-> {}, stray |-> {}, v4leaks |-> 0, v4short |-> 0]

-----------------------------------------------------------------------------
(***************************************************************************)
(* Stats context ids: first the ones never used, then the circular list.   *)
(* A ring of n slots holds n - 1 ids (CIRC_SPACE).                         *)
(***************************************************************************)
HasStats(s) == s.unalloc > 0 \/ s.free # <<>>
StatsId(s) == IF s.unalloc > 0 THEN <<s.unalloc - 1, s.unit>> ELSE Head(s.free)

nfp_get_stats_entry(s) ==
    CASE s.unalloc = 0 -> [s EXCEPT !.free = Tail(@)]
      [] s.unalloc > 0 /\ s.unit + 1 = NumMems -> [s EXCEPT !.unalloc = @ - 1, !.unit = 0]
      [] OTHER -> [s EXCEPT !.unit = @ + 1]

StatsSpace(s) == Len(s.free) < stats_ring_size - 1

nfp_release_stats_entry(s, id) ==
    LET late == [s EXCEPT !.inflight = {[m EXCEPT !.late = @ \/ m.sid = id] : m \in s.inflight}]
    IN  IF StatsSpace(s) THEN [late EXCEPT !.free = Append(@, id)]
        ELSE [late EXCEPT !.lost = @ \cup {id}]

-----------------------------------------------------------------------------
(***************************************************************************)
(* Masks.  The table is looked up by a hash of the mask's bytes and of the *)
(* length in the flow's meta data; <<mask, shift>> stands for the hash,    *)
(* shift being how often the length was divided by four.                   *)
(***************************************************************************)
MaskSpace(s) == s.munalloc > 0 \/ (s.mfree # <<>> /\ Head(s.mfree) \notin s.cooling)
MaskId(s) == IF s.munalloc > 0 THEN s.munalloc ELSE Head(s.mfree)
nfp_mask_alloc(s) == IF s.munalloc > 0 THEN [s EXCEPT !.munalloc = @ - 1]
                     ELSE [s EXCEPT !.mfree = Tail(@)]

nfp_release_mask_id(s, id) ==
    IF Len(s.mfree) = MaskRing - 1 THEN s
    ELSE [s EXCEPT !.mfree = Append(@, id), !.cooling = @ \cup {id}]

\* NFP_FL_MASK_REUSE_TIME_NS have passed.
MaskCools ==
    \E id \in fl.cooling : fl' = [fl EXCEPT !.cooling = @ \ {id}]

HashOf(flow) == <<flow.mask, flow.shift>>

\* [ok, s, id, manage]
nfp_check_mask_add(s, h, oom) ==
    LET id == MaskId(s)
    IN  CASE h \in DOMAIN s.masks ->
                [ok |-> TRUE, s |-> [s EXCEPT !.masks[h].ref = @ + 1],
                 id |-> s.masks[h].id, manage |-> FALSE]
          [] h \notin DOMAIN s.masks /\ ~MaskSpace(s) ->
                [ok |-> FALSE, s |-> s, id |-> 0, manage |-> FALSE]
          [] h \notin DOMAIN s.masks /\ MaskSpace(s) /\ oom ->
                [ok |-> FALSE, s |-> nfp_release_mask_id(nfp_mask_alloc(s), id),
                 id |-> 0, manage |-> FALSE]
          [] OTHER ->
                [ok |-> TRUE, s |-> [nfp_mask_alloc(s) EXCEPT
                                       !.masks = (h :> [id |-> id, ref |-> 1]) @@ @],
                 id |-> id, manage |-> TRUE]

\* [s, id, manage]
nfp_check_mask_remove(s, h) ==
    CASE h \notin DOMAIN s.masks ->
            [s |-> [s EXCEPT !.stuck = @ \cup {h[1]}], id |-> 0, manage |-> FALSE]
      [] h \in DOMAIN s.masks /\ s.masks[h].ref > 1 ->
            [s |-> [s EXCEPT !.masks[h].ref = @ - 1], id |-> s.masks[h].id, manage |-> FALSE]
      [] OTHER ->
            [s |-> nfp_release_mask_id([s EXCEPT !.masks = Without(@, h)], s.masks[h].id),
             id |-> s.masks[h].id, manage |-> TRUE]

-----------------------------------------------------------------------------
(***************************************************************************)
(* Meta data of a flow.                                                    *)
(***************************************************************************)
FreshStats(s, sid) == [s EXCEPT !.stats[sid] = {}]
KeepContext(s, sid) == s
DropContext(s, sid) == [s EXCEPT !.ctx = Without(@, sid)]

\* Compile: [ok, s, flow].
nfp_compile_flow_metadata(s, fid, flow, f) ==
    LET sid == StatsId(s)
        s1 == nfp_get_stats_entry(s)
        s2 == [s1 EXCEPT !.ctx = (sid :> fid) @@ @]
        m == nfp_check_mask_add(s2, HashOf(flow), f = "mask")
        s3 == IF flow.pre THEN s2 ELSE m.s
        s4 == FreshStats(s3, sid)
        s5 == IF flow.pre THEN s4 ELSE nfp_check_mask_remove(s4, HashOf(flow)).s
        Fail(t) == [ok |-> FALSE, flow |-> flow,
                    s |-> nfp_release_stats_entry([t EXCEPT !.ctx = s.ctx], sid)]
    IN  CASE ~HasStats(s) -> [ok |-> FALSE, s |-> s, flow |-> flow]
          [] HasStats(s) /\ f = "ctx" -> Fail(s1)
          [] HasStats(s) /\ f # "ctx" /\ ~flow.pre /\ ~m.ok -> Fail(m.s)
          [] HasStats(s) /\ f # "ctx" /\ (flow.pre \/ m.ok) /\ fid \in DOMAIN s.flows -> Fail(s5)
          [] OTHER -> [ok |-> TRUE, s |-> s4,
                       flow |-> [flow EXCEPT !.sid = sid, !.mid = IF flow.pre THEN 0 ELSE m.id,
                                             !.manage = ~flow.pre /\ m.manage]]

\* Release: [ok, s, flow].
nfp_modify_flow_metadata(s, flow) ==
    LET m == nfp_check_mask_remove(s, HashOf(flow))
        s1 == IF flow.pre THEN s ELSE m.s
        fl1 == [flow EXCEPT !.mid = IF flow.pre THEN 0 ELSE m.id,
                            !.manage = ~flow.pre /\ m.manage]
    IN  [ok |-> StatsSpace(s), flow |-> fl1,
         s |-> nfp_release_stats_entry(DropContext(s1, flow.sid), flow.sid)]

-----------------------------------------------------------------------------
(***************************************************************************)
(* Messages to the firmware.  Its table has one entry for the key of each  *)
(* rule; a merge flow has the key of sub_flow1.  The lengths are converted *)
(* to long words before the message is allocated, and back after it.       *)
(***************************************************************************)
nfp_flower_xmit_flow(s, fid, flow, mtype, sent) ==
    LET k == KeyOf(fid)
        known == CASE ~flow.manage -> s.fwmasks
                   [] flow.manage /\ mtype = "del" -> s.fwmasks \ {flow.mid}
                   [] OTHER -> s.fwmasks \cup {flow.mid}
    IN  IF ~sent
        THEN [s |-> [s EXCEPT !.stray = @ \cup {k}], flow |-> [flow EXCEPT !.shift = @ + 1]]
        ELSE [s |-> [s EXCEPT !.fwmasks = known, !.stray = @ \ {k},
                              !.hw = IF mtype = "del" THEN Without(@, k)
                                     ELSE (k :> [sid |-> flow.sid, mid |-> flow.mid]) @@ @],
              flow |-> flow]

nfp_tunnel_add_ipv4_off(s, oom) ==
    IF oom /\ s.v4 = 0 THEN [s EXCEPT !.v4short = @ + 1] ELSE [s EXCEPT !.v4 = @ + 1]

nfp_tunnel_del_ipv4_off(s) ==
    IF s.v4 = 0 THEN [s EXCEPT !.v4short = @ - 1] ELSE [s EXCEPT !.v4 = @ - 1]

TunnelPuts(s, flow) ==
    CASE flow.tun = "v4" -> nfp_tunnel_del_ipv4_off(s)
      [] flow.tun = "v6" -> [s EXCEPT !.v6 = @ - 1]
      [] OTHER -> s

CompileTunnelMatch(s, flow, f) ==
    CASE flow.tun = "v4" -> nfp_tunnel_add_ipv4_off(s, f = "addr")
      [] flow.tun = "v6" -> [s EXCEPT !.v6 = @ + 1]
      [] OTHER -> s

\* err_destroy_flow: only the IPv6 address is put.
DestroyFlow(s, flow) ==
    CASE flow.tun = "v6" -> [s EXCEPT !.v6 = @ - 1]
      [] flow.tun = "v4" -> [s EXCEPT !.v4leaks = @ + 1]
      [] OTHER -> s

nfp_flower_allocate_new(r, shift) ==
    [mask |-> r.mask, shift |-> shift, tun |-> r.tun, pre |-> r.pre,
     sid |-> None, mid |-> 0, manage |-> FALSE, in_hw |-> FALSE]

InTable(s, fid, flow) == [s EXCEPT !.flows = (fid :> flow) @@ @]

Starts(s, f) == [s EXCEPT !.ops = @ + 1, !.faults = IF f = "none" THEN @ ELSE @ + 1]

-----------------------------------------------------------------------------
(***************************************************************************)
(* Adding and deleting a rule.                                             *)
(***************************************************************************)
nfp_flower_add_offload(c, f) ==
    LET flow == nfp_flower_allocate_new(RuleOf[c], 0)
        s1 == CompileTunnelMatch(Starts(fl, f), flow, f)
        r == nfp_compile_flow_metadata(s1, c, flow, f)
        x == nfp_flower_xmit_flow(r.s, c, r.flow, "add", f # "xmit")
        done == [x.flow EXCEPT !.in_hw = TRUE]
    IN  fl' = CASE f = "action" -> DestroyFlow(s1, flow)
                [] f # "action" /\ ~r.ok -> DestroyFlow(r.s, flow)
                [] r.ok /\ f = "rhash" ->
                      DestroyFlow(nfp_modify_flow_metadata(r.s, r.flow).s, flow)
                [] r.ok /\ f = "xmit" /\ ~flow.pre ->
                      DestroyFlow([nfp_modify_flow_metadata(x.s, x.flow).s EXCEPT !.stray = fl.stray], flow)
                [] r.ok /\ f = "xmit" /\ flow.pre ->
                      DestroyFlow(nfp_modify_flow_metadata(r.s, r.flow).s, flow)
                [] r.ok /\ f \notin {"action", "rhash", "xmit"} /\ flow.pre ->
                      [InTable(r.s, c, [r.flow EXCEPT !.in_hw = TRUE]) EXCEPT !.pretun = @ \cup {c}]
                [] OTHER -> InTable(x.s, c, done)

LinkedTo(s, c) == SelectSeq(s.order, LAMBDA m : c \in {m[1], m[2]})

NoRevert(s, o, bad) == [s EXCEPT !.flows[o].in_hw = TRUE]

\* The rule that the merge flow had overwritten is written again.
RevertOrigin(s, o, bad) ==
    LET r == nfp_flower_xmit_flow(s, o, [s.flows[o] EXCEPT !.manage = FALSE], "mod", o \notin bad)
    IN  [r.s EXCEPT !.flows[o] = [r.flow EXCEPT !.in_hw = TRUE]]

\* bad: the flows whose message cannot be allocated.
nfp_flower_remove_merge_flow(s, c, m, bad) ==
    LET o == m[1]
        r == nfp_modify_flow_metadata(s, s.flows[m])
        del == nfp_flower_xmit_flow(r.s, m, r.flow, "del", m \notin bad).s
        s1 == CASE ~r.ok -> [r.s EXCEPT !.stray = @ \cup {o}]
                [] r.ok /\ o = c -> del
                [] OTHER -> RevertOrigin(r.s, o, bad)
    IN  [s1 EXCEPT !.flows = Without(@, m), !.order = SelectSeq(@, LAMBDA n : n # m),
                   !.merged = @ \ {<<s.flows[m[1]].sid, s.flows[m[2]].sid>>}]

nfp_flower_del_linked_merge_flows(s, c, bad) ==
    FoldLeft(LAMBDA t, m : nfp_flower_remove_merge_flow(t, c, m, bad), s, LinkedTo(s, c))

nfp_flower_del_offload(c, bad) ==
    LET flow == fl.flows[c]
        s0 == [fl EXCEPT !.ops = @ + 1, !.faults = @ + Cardinality(bad)]
        r == nfp_modify_flow_metadata(s0, flow)
        s1 == TunnelPuts(r.s, flow)
        s2 == CASE ~r.ok -> IF flow.in_hw /\ ~flow.pre THEN [r.s EXCEPT !.stray = @ \cup {c}] ELSE r.s
                [] r.ok /\ ~flow.in_hw -> s1
                [] r.ok /\ flow.in_hw /\ flow.pre -> [s1 EXCEPT !.pretun = IF c \in bad THEN @ ELSE @ \ {c}]
                [] OTHER -> nfp_flower_xmit_flow(s1, c, r.flow, "del", c \notin bad).s
        s3 == nfp_flower_del_linked_merge_flows(s2, c, bad)
    IN  /\ c \in DOMAIN fl.flows
        /\ fl' = [s3 EXCEPT !.flows = Without(@, c)]

-----------------------------------------------------------------------------
(***************************************************************************)
(* A merge hint names two stats contexts.  It may be late: the ids may     *)
(* belong to other flows by now.                                           *)
(***************************************************************************)
nfp_flower_merge_offloaded_flows(a, b, f) ==
    LET m == <<a, b>>
        s0 == Starts(fl, f)
        flow == nfp_flower_allocate_new([mask |-> fl.flows[a].mask, tun |-> "no", pre |-> FALSE],
                                        fl.flows[a].shift)
        parent_ctx == <<fl.flows[a].sid, fl.flows[b].sid>>
        r == nfp_compile_flow_metadata(s0, m, flow, f)
        x == nfp_flower_xmit_flow(r.s, m, r.flow, "mod", f # "xmit")
    IN  /\ a # b /\ parent_ctx \notin fl.merged
        /\ fl' = CASE ~r.ok -> r.s
                   [] r.ok /\ f = "rhash" -> nfp_modify_flow_metadata(r.s, r.flow).s
                   [] r.ok /\ f = "xmit" ->
                         [nfp_modify_flow_metadata(x.s, x.flow).s EXCEPT !.stray = fl.stray]
                   [] OTHER ->
                         [InTable(x.s, m, [x.flow EXCEPT !.in_hw = TRUE]) EXCEPT
                             !.flows[a].in_hw = FALSE, !.merged = @ \cup {parent_ctx},
                             !.order = Append(@, m)]

nfp_flower_cmsg_merge_hint_rx(sid1, sid2, f) ==
    /\ {sid1, sid2} \subseteq DOMAIN fl.ctx
    /\ fl.ctx[sid1] \in Cookies /\ fl.ctx[sid2] \in Cookies
    /\ nfp_flower_merge_offloaded_flows(fl.ctx[sid1], fl.ctx[sid2], f)

-----------------------------------------------------------------------------
(***************************************************************************)
(* Statistics.  stats[id] is the set of flows whose packets are counted    *)
(* there and not yet reported; a credit is late when the flow was gone     *)
(* before the message was handled.                                         *)
(***************************************************************************)
FirmwareCounts(c) ==
    /\ c \in DOMAIN fl.hw /\ fl.inflight = {} /\ fl.counts < MaxCounts
    /\ LET sid == fl.hw[c].sid
       IN  fl' = [fl EXCEPT !.counts = @ + 1, !.inflight = {[sid |-> sid, late |-> sid \notin DOMAIN fl.ctx,
                            of |-> IF sid \in DOMAIN fl.ctx THEN fl.ctx[sid] ELSE c]}]

nfp_flower_rx_flow_stats ==
    \E m \in fl.inflight :
        fl' = [fl EXCEPT !.inflight = @ \ {m},
                         !.stats[m.sid] = @ \cup {[of |-> m.of, late |-> m.late]}]

nfp_flower_update_merge_stats(s, c) ==
    LET Spread(t, m) ==
            LET sid == t.flows[m].sid
                new == t.stats[sid]
                subs == {t.flows[m[1]].sid, t.flows[m[2]].sid}
            IN  [t EXCEPT !.stats = [i \in StatsIds |->
                    CASE i = sid -> {} [] i \in subs -> t.stats[i] \cup new [] OTHER -> t.stats[i]]]
    IN  FoldLeft(Spread, s, LinkedTo(s, c))

nfp_flower_get_stats(c) ==
    /\ c \in DOMAIN fl.flows
    /\ fl' = [nfp_flower_update_merge_stats(fl, c) EXCEPT !.stats[fl.flows[c].sid] = {}]

-----------------------------------------------------------------------------
Faults(names) == {"none"} \cup (IF fl.faults < MaxFaults THEN names ELSE {})

FlowInit == fl = nfp_flower_metadata_init

RuleStep ==
    \/ \E c \in Cookies, f \in Faults({"addr", "action", "ctx", "mask", "rhash", "xmit"}) :
          nfp_flower_add_offload(c, f)
    \/ \E c \in Cookies, bad \in SUBSET Fids :
          /\ Cardinality(bad) + fl.faults <= MaxFaults /\ bad \subseteq DOMAIN fl.flows
          /\ nfp_flower_del_offload(c, bad)
    \/ \E s1, s2 \in StatsIds, f \in Faults({"ctx", "rhash", "xmit"}) :
          nfp_flower_cmsg_merge_hint_rx(s1, s2, f)

FlowNext ==
    \/ fl.ops < MaxRuleOps /\ RuleStep
    \/ \E c \in Cookies : FirmwareCounts(c) \/ nfp_flower_get_stats(c)
    \/ nfp_flower_rx_flow_stats
    \/ MaskCools

-----------------------------------------------------------------------------
(***************************************************************************)
(* Properties.                                                             *)
(***************************************************************************)
Unalloc(s) == {i \in StatsIds : i[1] < s.unalloc - 1 \/ (i[1] = s.unalloc - 1 /\ i[2] >= s.unit)}
Users(s, h) == {fid \in DOMAIN s.flows : ~s.flows[fid].pre /\ s.flows[fid].mask = h[1]}
InBytes(s, mask) == mask \notin s.stuck /\ \A fid \in DOMAIN s.flows : s.flows[fid].mask = mask => s.flows[fid].shift = 0

\* Every stats id is in exactly one place: never used, on the free list once,
\* or owned by the one flow whose context entry it is (metadata.c:45-103).
IdsAccounted ==
    LET s == fl
        free == Range(s.free)
        owned == DOMAIN s.ctx
    IN  /\ Len(s.free) = Cardinality(free)
        /\ owned \cap free = {} /\ owned \cap Unalloc(s) = {} /\ free \cap Unalloc(s) = {}
        /\ owned \cup free \cup Unalloc(s) \cup s.lost = StatsIds
        /\ \A i \in owned : s.ctx[i] \in DOMAIN s.flows /\ s.flows[s.ctx[i]].sid = i
        /\ \A fid \in DOMAIN s.flows : s.flows[fid].sid \in owned

\* A mask entry counts its flows exactly, flows whose key length an error path
\* left converted excepted, and two masks never share an id (metadata.c:269-308).
MasksAccounted ==
    LET s == fl
    IN  /\ \A h \in DOMAIN s.masks :
              /\ InBytes(s, h[1]) => s.masks[h].ref = Cardinality(Users(s, h))
              /\ s.masks[h].id \notin Range(s.mfree)
              /\ \A g \in DOMAIN s.masks : g # h => s.masks[g].id # s.masks[h].id
        /\ s.v4 = Cardinality({c \in DOMAIN s.flows : s.flows[c].tun = "v4"}) + s.v4leaks - s.v4short

\* Unless the last message for its key was lost, an entry of the firmware is
\* that of a flow in the driver's table, and a flow marked in_hw has an entry
\* (offload.c:850-2013); the firmware knows the entry's mask.
HwMatchesTable ==
    LET s == fl
    IN  /\ \A c \in DOMAIN s.hw \ s.stray :
                  /\ s.hw[c].sid \in DOMAIN s.ctx /\ KeyOf(s.ctx[s.hw[c].sid]) = c
                  /\ s.stuck = {} => s.hw[c].mid \in s.fwmasks
        /\ \A fid \in DOMAIN s.flows :
              s.flows[fid].in_hw /\ ~s.flows[fid].pre /\ KeyOf(fid) \notin s.stray
                  => KeyOf(fid) \in DOMAIN s.hw

\* What TC is told of a rule are packets of the rule and of merge flows made
\* of it; a count that comes after its flow was deleted is the exception.
OwnPackets ==
    \A fid \in DOMAIN fl.flows : \A p \in fl.stats[fl.flows[fid].sid] :
        p.late \/ p.of = fid \/ (p.of \in Pairs /\ fid \in {p.of[1], p.of[2]})

\* "Maximum number of allowed stats ids" (main.h): all of them can be given back.
StatsIdsReturn == fl.lost = {}

\* "Convert back to bytes as software expects lengths in units of bytes":
\* the mask of a flow that is gone is released (offload.c:153).
MasksReturn == fl.stuck = {}

=============================================================================

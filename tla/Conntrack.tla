------------------------------ MODULE Conntrack ------------------------------
(***************************************************************************)
(* Connection tracking offload (flower/conntrack.c).  The firmware knows no *)
(* conntrack: the driver collects the TC rules before (pre_ct) and after   *)
(* (post_ct) a ct action and netfilter's flows (nft), and offloads every   *)
(* combination pre, nft, post of a zone that fits together as one flow.  A *)
(* post_ct rule that sends packets to a further zone makes a pre_ct entry  *)
(* of its own for each combination it ends.                                *)
(*                                                                         *)
(* A flow entry is named by the cookie of its rule, or <<"next", t>> when  *)
(* it was made of combination t.  A combination is <<pre, post, nft>>.     *)
(* Matching works bit by bit, so a rule matches and mangles one bit of the *)
(* header: m is 0, 1 or AnyBit, g the value it is set to or AnyBit.              *)
(*                                                                         *)
(* TC's operations hold nfp_fl_lock; netfilter calls back with the flow    *)
(* table's flow_block_lock held for reading and tries nfp_fl_lock until    *)
(* it gets it.  Deregistering the callback takes flow_block_lock for       *)
(* writing while nfp_fl_lock is held.                                      *)
(***************************************************************************)
EXTENDS Integers, Sequences, FiniteSets, TLC, FiniteSetsExt

CONSTANTS
    CtRules,        \* cookies of TC rules and netfilter flows
    CtRuleOf,       \* a rule's [kind, zone, next, chain, goto, dev, m, g, nat, est, mark, act, vlan]
    NatField,       \* the bit belongs to an address or a port
    MaxRecirc,      \* NFP_MAX_RECIRC_CT_ZONES
    MaxCtOps,       \* bound: rules and flows added and deleted
    MaxCtFaults,    \* bound: failures
    MaxHits         \* bound: packets that hit an offloaded flow

ASSUME CtConstants == MaxRecirc \in Nat \ {0} /\ MaxCtOps \in Nat /\ MaxHits \in Nat

AnyBit == 2
Pop == 3
Mpls == 4
Wild == "wild"                              \* ct_zone_wc
CtZones == {CtRuleOf[c].zone : c \in CtRules} \cup {CtRuleOf[c].next : c \in CtRules}
CtDrop(fn, x) == [y \in DOMAIN fn \ {x} |-> fn[y]]

NoCallback == [z |-> "none", c |-> "none", cmd |-> "none"]

VARIABLES ct,           \* the tables of flower-priv, by zone
          holder,       \* of nfp_fl_lock: "free", "tc", "nft"
          cb,           \* netfilter's callback: idle, or the zone, flow and command
          closing       \* zones whose callback is being deregistered
ctvars == <<ct, holder, cb, closing>>

CtInit ==
    /\ ct = [nft |-> {}, reg |-> {}, shut |-> {}, entries |-> <<>>, tcm |-> {}, nftm |-> <<>>, hw |-> <<>>,
             hits |-> [c \in CtRules |-> 0], told |-> [c \in CtRules |-> 0],
             ub |-> FALSE, missing |-> {}, ops |-> 0, faults |-> 0, seen |-> 0]
    /\ holder = "free" /\ cb = NoCallback /\ closing = {}

CtEntryRule(e) == IF e \in CtRules THEN CtRuleOf[e] ELSE CtRuleOf[e[2][2]]
Prev(s, e) == s.entries[e].prev
PreCount(s, z) == Cardinality({e \in DOMAIN s.entries : s.entries[e].type = "pre" /\ s.entries[e].zone = z})
OfType(s, ty, z) == {e \in DOMAIN s.entries : s.entries[e].type = ty /\ s.entries[e].zone = z}

\* The rules of a combination in the order a packet meets them.
CtRuleList(s, t) ==
    LET before == [i \in 1 .. 2 * Len(Prev(s, t[1])) |->
                      LET q == Prev(s, t[1])[(i + 1) \div 2]
                      IN  IF i % 2 = 1 THEN q[1] ELSE q[3]]
    IN  before \o <<t[1], t[3], t[2]>>

-----------------------------------------------------------------------------
(***************************************************************************)
(* May two entries be merged?  Bits that both match must agree, with e1's  *)
(* mangling applied to what e1 matches.                                    *)
(***************************************************************************)
get_mangled_key(r) == IF r.g = AnyBit THEN r.m ELSE r.g

nfp_ct_merge_check_cannot_skip(r1, ty2) == ~(r1.nat /\ ty2 = "post")

nfp_ct_merge_check(r1, r2, ty2) ==
    /\ r1.dev = "none" \/ r2.dev = "none" \/ r1.dev = r2.dev
    /\ \/ r1.m = AnyBit \/ r2.m = AnyBit
       \/ NatField /\ ~nfp_ct_merge_check_cannot_skip(r1, ty2)
       \/ get_mangled_key(r1) = r2.m

\* act: the vlan id a rule pushes or sets; vlan: the id it matches.
nfp_ct_check_vlan_merge(act, r) ==
    /\ r.vlan # Pop                     \* a second tag: cvlan
    /\ r.vlan = AnyBit \/ (act # Pop /\ act = r.vlan)

nfp_ct_merge_act_check(pre, post, nft) ==
    /\ pre.act = AnyBit \/ (pre.act # Mpls /\ nfp_ct_check_vlan_merge(pre.act, post))
    /\ nft.act = AnyBit

nfp_ct_check_meta(post, nft) ==
    IF post.est THEN post.mark = AnyBit \/ post.mark = nft.mark
    ELSE nft.g # AnyBit

nfp_ct_merge_extra_check(s, pre, nft) ==
    \/ Prev(s, pre) = <<>>
    \/ nfp_ct_merge_check(CtRuleOf[Prev(s, pre)[Len(Prev(s, pre))][3]], CtRuleOf[nft], "nft")

CtMergeable(s, pre, post, nft) ==
    LET a == CtEntryRule(pre)
        b == CtRuleOf[post]
        n == CtRuleOf[nft]
    IN  /\ nfp_ct_merge_act_check(a, b, n)
        /\ nfp_ct_merge_check(a, n, "nft")
        /\ nfp_ct_merge_check(n, b, "post")
        /\ nfp_ct_check_meta(b, n)
        /\ nfp_ct_merge_extra_check(s, pre, nft)

-----------------------------------------------------------------------------
(***************************************************************************)
(* The offloaded flow of a combination: its key and mask take each rule's  *)
(* bits that no earlier rule has claimed.                                  *)
(***************************************************************************)
CompileBit(acc, r) == IF acc # AnyBit THEN acc ELSE r.m
MergedBit(s, t) ==
    LET l == CtRuleList(s, t)
        b[i \in 0 .. Len(l)] == IF i = 0 THEN AnyBit ELSE CompileBit(b[i - 1], CtEntryRule(l[i]))
    IN  b[Len(l)]

nfp_fl_ct_add_offload(s, t) == [s EXCEPT !.hw = (t :> 0) @@ @]

\* What was counted for the flow and not yet asked for goes with it.
nfp_fl_ct_del_offload(s, t) == [s EXCEPT !.hw = CtDrop(@, t)]

-----------------------------------------------------------------------------
(***************************************************************************)
(* Adding.  f: "none"; "callback": netfilter refuses the registration; a   *)
(* post_ct cookie: the offload of combinations that end with it fails.     *)
(***************************************************************************)
nfp_fl_ct_add_flow(s, e, z, ty, prev) ==
    [s EXCEPT !.entries = (e :> [zone |-> z, type |-> ty, prev |-> prev, cnt |-> 0]) @@ @]

RECURSIVE nfp_fl_ct_handle_pre_ct(_, _, _, _, _)
RECURSIVE nfp_ct_do_tc_merge(_, _, _, _)

nfp_fl_create_new_pre_ct(s, t, f) ==
    LET prev == Prev(s, t[1])
    IN  IF Len(prev) >= MaxRecirc - 1 \/ CtRuleOf[t[2]].next = "none" THEN s
        ELSE nfp_fl_ct_handle_pre_ct(s, <<"next", t>>, CtRuleOf[t[2]].next, Append(prev, t), f)

\* A combination whose offload fails is freed and stays in nft_merge_tb.
nfp_ct_do_nft_merge(s, t, f) ==
    CASE ~CtMergeable(s, t[1], t[2], t[3]) -> s
      [] CtMergeable(s, t[1], t[2], t[3]) /\ t \in DOMAIN s.nftm ->
            IF s.nftm[t] = "freed" THEN [s EXCEPT !.ub = TRUE] ELSE s
      [] OTHER ->
            LET s1 == [s EXCEPT !.nftm = (t :> "live") @@ @]
            IN  CASE CtRuleOf[t[2]].goto > 0 -> nfp_fl_create_new_pre_ct(s1, t, f)
                  [] CtRuleOf[t[2]].goto = 0 /\ f = t[2] ->
                        [s1 EXCEPT !.nftm[t] = "freed", !.missing = @ \cup {t}]
                  [] OTHER -> nfp_fl_ct_add_offload(s1, t)

nfp_ct_do_tc_merge(s, pre, post, f) ==
    IF \/ CtRuleOf[post].chain # CtEntryRule(pre).goto
       \/ ~nfp_ct_merge_check(CtEntryRule(pre), CtRuleOf[post], "post")
       \/ <<pre, post>> \in s.tcm
    THEN s
    ELSE FoldSet(LAMBDA n, acc : nfp_ct_do_nft_merge(acc, <<pre, post, n>>, f),
                 [s EXCEPT !.tcm = @ \cup {<<pre, post>>}],
                 OfType(s, "nft", s.entries[pre].zone))

\* An entry meets the other kind's entries of a zone.
nfp_ct_merge_tc_entries(s, e, z, f) ==
    LET pre == s.entries[e].type = "pre"
    IN  FoldSet(LAMBDA x, acc : nfp_ct_do_tc_merge(acc, IF pre THEN e ELSE x,
                                                   IF pre THEN x ELSE e, f),
                s, OfType(s, IF pre THEN "post" ELSE "pre", z))

\* zt->nft is set before the registration that may fail.
nfp_fl_ct_handle_pre_ct(s, e, z, prev, f) ==
    LET s1 == IF z \in s.nft THEN s
              ELSE [s EXCEPT !.nft = @ \cup {z}, !.reg = IF f = "callback" THEN @ ELSE @ \cup {z}]
        s2 == nfp_fl_ct_add_flow(s1, e, z, "pre", prev)
    IN  IF z \notin s.nft /\ f = "callback" THEN s1
        ELSE nfp_ct_merge_tc_entries(nfp_ct_merge_tc_entries(s2, e, z, f), e, Wild, f)

OwnZone(z) == {z}
PostZones(z) == IF z = Wild THEN CtZones ELSE {z}

nfp_fl_ct_handle_post_ct(s, c, f) ==
    LET z == CtRuleOf[c].zone
    IN  FoldSet(LAMBDA x, acc : nfp_ct_merge_tc_entries(acc, c, x, f),
                nfp_fl_ct_add_flow(s, c, z, "post", <<>>), PostZones(z))

nfp_ct_merge_nft_with_tc(s, c, f) ==
    FoldSet(LAMBDA p, acc : nfp_ct_do_nft_merge(acc, <<p[1], p[2], c>>, f),
            s, {p \in s.tcm : s.entries[p[1]].zone = CtRuleOf[c].zone})

\* Netfilter may ask for the same flow again.
NftReplace(s, c, f) ==
    IF c \in DOMAIN s.entries THEN s
    ELSE nfp_ct_merge_nft_with_tc(nfp_fl_ct_add_flow(s, c, CtRuleOf[c].zone, "nft", <<>>), c, f)

-----------------------------------------------------------------------------
(***************************************************************************)
(* Deleting.  A walk over a list keeps a pointer to the next element: when *)
(* the nested deletions free an element of the list being walked, the      *)
(* behaviour is undefined from there on (ub).  f = "delete": the firmware  *)
(* cannot be told, the combination stays in lists whose owner is freed.    *)
(***************************************************************************)
RECURSIVE nfp_fl_ct_del_flow(_, _, _)

cleanup_nft_merge_entry(s, t, f) ==
    IF t \in DOMAIN s.hw /\ f = "delete" THEN [s EXCEPT !.ub = TRUE]
    ELSE LET s1 == IF t \in DOMAIN s.hw THEN nfp_fl_ct_del_offload(s, t) ELSE s
             s2 == [s1 EXCEPT !.nftm = CtDrop(@, t), !.missing = @ \ {t}]
         IN  IF <<"next", t>> \in DOMAIN s.entries THEN nfp_fl_ct_del_flow(s2, <<"next", t>>, f) ELSE s2

Live(s) == {t \in DOMAIN s.nftm : s.nftm[t] = "live"}

nfp_free_nft_merge_children(s, ts, f) ==
    FoldSet(LAMBDA t, acc : CASE acc.ub -> acc
                              [] ~acc.ub /\ t \notin DOMAIN acc.nftm -> [acc EXCEPT !.ub = TRUE]
                              [] OTHER -> cleanup_nft_merge_entry(acc, t, f),
            s, ts)

nfp_del_tc_merge_entry(s, p, f) ==
    nfp_free_nft_merge_children([s EXCEPT !.tcm = @ \ {p}],
                                {t \in Live(s) : t[1] = p[1] /\ t[2] = p[2]}, f)

nfp_free_tc_merge_children(s, ps, f) ==
    FoldSet(LAMBDA p, acc : CASE acc.ub -> acc
                              [] ~acc.ub /\ p \notin acc.tcm -> [acc EXCEPT !.ub = TRUE]
                              [] OTHER -> nfp_del_tc_merge_entry(acc, p, f),
            s, ps)

nfp_fl_ct_clean_flow_entry(s, e, f) ==
    [(IF s.entries[e].type = "nft"
      THEN nfp_free_nft_merge_children(s, {t \in Live(s) : t[3] = e}, f)
      ELSE nfp_free_tc_merge_children(s, {p \in s.tcm : e \in {p[1], p[2]}}, f))
     EXCEPT !.entries = CtDrop(@, e), !.missing = {t \in @ : e \notin {t[1], t[2], t[3]}}]

nfp_fl_ct_clean_nft_entries(s, z, f) ==
    FoldSet(LAMBDA c, acc : nfp_fl_ct_del_flow(acc, c, f), s, OfType(s, "nft", z))

ForgetNft(s, z) == [s EXCEPT !.nft = @ \ {z}]

\* The last pre_ct entry of a zone takes the zone's netfilter flows with it.
ZoneUnused(s, type, z, f) ==
    IF type = "pre" /\ ~s.ub /\ PreCount(s, z) = 0 /\ z \in s.nft
    THEN nfp_fl_ct_clean_nft_entries([ForgetNft(s, z) EXCEPT !.shut = @ \cup ({z} \cap s.reg)], z, f)
    ELSE s

nfp_fl_ct_del_flow(s, e, f) ==
    ZoneUnused(nfp_fl_ct_clean_flow_entry(s, e, f), s.entries[e].type, s.entries[e].zone, f)

-----------------------------------------------------------------------------
(***************************************************************************)
(* Statistics.  The firmware counts for a combination; whoever asks first  *)
(* collects the count for all its rules, in the caches of the others.      *)
(***************************************************************************)
Occurs(l, e) == Cardinality({i \in 1 .. Len(l) : l[i] = e})

\* A post_ct rule that led on to a further zone was met too.
CtMembers(s, t) ==
    LET posts == [i \in 1 .. Len(Prev(s, t[1])) |-> Prev(s, t[1])[i][2]]
    IN  CtRuleList(s, t) \o posts

ClearedCount(s, t) == [s EXCEPT !.hw[t] = 0]

\* flow_stats_update() of every rule of the combination, the count reset.
nfp_fl_ct_sub_stats(s, t) ==
    ClearedCount([s EXCEPT !.entries = [e \in DOMAIN s.entries |->
                      [s.entries[e] EXCEPT !.cnt = @ + s.hw[t] * Occurs(CtMembers(s, t), e)]]], t)

nfp_fl_ct_stats(s, c) ==
    LET s1 == FoldSet(LAMBDA t, acc : nfp_fl_ct_sub_stats(acc, t), s,
                      {t \in DOMAIN s.hw : c \in {t[1], t[2], t[3]}})
    IN  [s1 EXCEPT !.told[c] = @ + s1.entries[c].cnt, !.entries[c].cnt = 0]

\* A packet hits an offloaded flow.
FirmwareHits ==
    \E t \in DOMAIN ct.hw :
        /\ ~ct.ub /\ ct.seen < MaxHits
        /\ ct' = [ct EXCEPT !.hw[t] = @ + 1, !.seen = @ + 1,
                            !.hits = [c \in CtRules |-> @[c] + Occurs(CtMembers(ct, t), c)]]
        /\ UNCHANGED <<holder, cb, closing>>

-----------------------------------------------------------------------------
(***************************************************************************)
(* Who runs when.                                                          *)
(***************************************************************************)
CtFaults == {"none", "callback", "delete"} \cup {c \in CtRules : CtRuleOf[c].kind = "post"}
Counted(s, c) ==
    [s EXCEPT !.ops = @ + 1, !.hits[c] = IF c \in DOMAIN s.entries THEN @ ELSE 0,
              !.told[c] = IF c \in DOMAIN s.entries THEN @ ELSE 0]

CtCommand(s, c, cmd, f) ==
    CASE cmd = "stats" -> nfp_fl_ct_stats(s, c)
      [] cmd = "del" -> nfp_fl_ct_del_flow(Counted(s, c), c, f)
      [] cmd = "add" /\ CtRuleOf[c].kind = "nft" -> NftReplace(Counted(s, c), c, f)
      [] cmd = "add" /\ CtRuleOf[c].kind = "post" -> nfp_fl_ct_handle_post_ct(Counted(s, c), c, f)
      [] OTHER -> nfp_fl_ct_handle_pre_ct(Counted(s, c), c, CtRuleOf[c].zone, <<>>, f)

\* Runs a command under nfp_fl_lock, up to the deregistrations it asks for.
Run(c, cmd, who) ==
    \E after \in {[f \in CtFaults |-> CtCommand(ct, c, cmd, f)]}, f \in CtFaults :
        /\ f # "none" => ct.faults < MaxCtFaults /\ cmd # "stats" /\ after[f] # after["none"]
        /\ ct' = [after[f] EXCEPT !.shut = {}, !.faults = IF f = "none" THEN @ ELSE @ + 1]
        /\ closing' = after[f].shut
        /\ holder' = IF after[f].shut = {} THEN "free" ELSE who
        /\ cb' = IF after[f].shut = {} /\ who = "nft" THEN NoCallback ELSE cb

TcCommand ==
    \E c \in CtRules, cmd \in {"add", "del", "stats"} :
        /\ ~ct.ub /\ holder = "free" /\ CtRuleOf[c].kind # "nft"
        /\ (cmd = "add") = (c \notin DOMAIN ct.entries)
        /\ cmd # "stats" => ct.ops < MaxCtOps
        /\ Run(c, cmd, "tc")

\* nfp_fl_ct_handle_nft_flow(): called with the table's lock held for reading.
NftEnter ==
    \E c \in CtRules, cmd \in {"add", "del", "stats"} :
        /\ ~ct.ub /\ CtRuleOf[c].kind = "nft" /\ CtRuleOf[c].zone \in ct.reg /\ cb.z = "none"
        /\ cmd # "stats" => ct.ops < MaxCtOps
        /\ cb' = [z |-> CtRuleOf[c].zone, c |-> c, cmd |-> cmd]
        /\ UNCHANGED <<ct, holder, closing>>

\* mutex_trylock() got the lock; what is gone is not found.
NftRun ==
    /\ ~ct.ub /\ cb.z # "none" /\ holder = "free"
    /\ IF cb.cmd # "add" /\ cb.c \notin DOMAIN ct.entries
       THEN cb' = NoCallback /\ UNCHANGED <<ct, holder, closing>>
       ELSE Run(cb.c, cb.cmd, "nft")

\* It did not, and the zone's table is being given up.
NftGivesUp ==
    /\ cb.z # "none" /\ holder = "tc" /\ cb.z \notin ct.nft
    /\ cb' = NoCallback
    /\ UNCHANGED <<ct, holder, closing>>

\* nf_flow_table_offload_del_cb(): waits until nobody is in the callback.
CtDeregister ==
    \E z \in closing :
        /\ cb.z # z
        /\ closing' = closing \ {z}
        /\ ct' = [ct EXCEPT !.reg = @ \ {z}]
        /\ holder' = IF closing = {z} THEN "free" ELSE holder
        /\ cb' = IF closing = {z} /\ holder = "nft" THEN NoCallback ELSE cb

CtNext == TcCommand \/ NftEnter \/ NftRun \/ NftGivesUp \/ CtDeregister \/ FirmwareHits

-----------------------------------------------------------------------------
(***************************************************************************)
(* Properties.                                                             *)
(***************************************************************************)
\* The combinations that the installed rules and flows ask for.
Wanted(s) ==
    {t \in (DOMAIN s.entries) \X (DOMAIN s.entries \cap CtRules) \X (DOMAIN s.entries \cap CtRules) :
        LET z == s.entries[t[1]].zone
        IN  /\ s.entries[t[1]].type = "pre" /\ s.entries[t[2]].type = "post" /\ s.entries[t[3]].type = "nft"
            /\ s.entries[t[3]].zone = z /\ s.entries[t[2]].zone \in {z, Wild}
            /\ CtRuleOf[t[2]].chain = CtEntryRule(t[1]).goto /\ CtRuleOf[t[2]].goto = 0
            /\ nfp_ct_merge_check(CtEntryRule(t[1]), CtRuleOf[t[2]], "post")
            /\ CtMergeable(s, t[1], t[2], t[3])}

\* In whatever order rules and netfilter flows come and go, over any number of
\* zones, the firmware holds exactly the combinations of those that are there
\* now, but for the ones whose offload failed (nfp_ct_do_nft_merge(),
\* cleanup_nft_merge_entry(), nfp_fl_ct_del_flow()).
CombinationsOffloaded == ~ct.ub => DOMAIN ct.hw = Wanted(ct) \ ct.missing

\* Every packet a rule handled in the firmware is in exactly one place: reported
\* to whoever asked for the rule, in the rule's cache, or still in the count of
\* a combination; no request counts it twice (nfp_fl_ct_sub_stats(),
\* nfp_fl_ct_stats()).  A combination that goes takes its count with it.
PacketsCountedOnce ==
    ~ct.ub => \A c \in DOMAIN ct.entries \cap CtRules :
        LET pending(t, n) == n + ct.hw[t] * Occurs(CtMembers(ct, t), c)
        IN  ct.told[c] + ct.entries[c].cnt + FoldSet(pending, 0, DOMAIN ct.hw) <= ct.hits[c]

\* Deregistering a callback under nfp_fl_lock never waits for a callback that
\* waits for nfp_fl_lock: it is not called from the table's own callback, and a
\* callback that tries for the lock sees zt->nft cleared and returns
\* (nfp_fl_ct_handle_nft_flow(), nfp_fl_ct_del_flow()).
NoCallbackCycle ==
    \A z \in closing : cb.z = z => holder = "tc" /\ z \notin ct.nft

\* What software does with a packet whose bit is p, along the combination.
SoftwareForwards(s, t, p) ==
    LET l == CtRuleList(s, t)
        r(i) == CtEntryRule(l[i])
        v[i \in 0 .. Len(l)] == IF i = 0 THEN p ELSE IF r(i).g = AnyBit THEN v[i - 1] ELSE r(i).g
    IN  \A i \in 1 .. Len(l) : r(i).m \in {AnyBit, v[i - 1]}

Sound(s, t) == \A p \in {0, 1} : MergedBit(s, t) \in {AnyBit, p} => SoftwareForwards(s, t, p)
Covered(s, t) == \A i \in 1 .. Len(CtRuleList(s, t)) :
    LET r == CtEntryRule(CtRuleList(s, t)[i]) IN r.m = AnyBit => r.g = AnyBit

\* A packet that the offloaded flow matches is one that software would have
\* taken through every rule of the combination, with their rewrites in between:
\* within one zone, when rules rewrite only bits they match
\* (nfp_ct_merge_check(), nfp_fl_ct_add_offload()).
OffloadIsSound ==
    ~ct.ub => \A t \in DOMAIN ct.hw : Len(CtRuleList(ct, t)) = 3 /\ Covered(ct, t) => Sound(ct, t)

\* The same over several zones: "previous checks has already filtered out flows
\* that has different values for the different layers" (conntrack.c).
ZonesAgree == ~ct.ub => \A t \in DOMAIN ct.hw : Covered(ct, t) => Sound(ct, t)
=============================================================================

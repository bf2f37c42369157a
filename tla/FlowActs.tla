----------------------------- MODULE FlowActs ------------------------------
(***************************************************************************)
(* How the actions of a TC flower rule become the action list of the       *)
(* firmware (nfp_flower_compile_action), and how the lists of two rules    *)
(* become the list of one (nfp_flower_can_merge, nfp_flower_merge_action). *)
(*                                                                         *)
(* Both are pure functions, so the state is a job and what became of it.   *)
(* They are compared with a reference: RunTc is what TC does with a packet *)
(* (external), RunFw what the firmware does with an action list (external, *)
(* as the code in src/ describes it).  A packet is a record of its header  *)
(* fields, "old" or "new", with the checksums that no longer fit it.       *)
(*                                                                         *)
(* The output devices are "p" and "q" (representors), "bond" (a LAG        *)
(* master), "vx" (a VXLAN netdev), "gr" (a GRE netdev), "int" (an internal *)
(* port of Open vSwitch) and "eth0" (some other netdev).                   *)
(***************************************************************************)
EXTENDS Integers, Sequences, FiniteSets, SequencesExt

CONSTANTS
    ActJobs,    \* records [l1, l2, m1, m2]: action lists and match masks
    MaxActLw    \* NFP_FL_MAX_A_SIZ in long words

VARIABLES
    ajob,       \* the rule or the pair of rules at hand
    acomp,      \* the compiled rules, once they have been handled
    adone       \* whether they have
actvars == <<ajob, acomp, adone>>

-----------------------------------------------------------------------------
(* Firmware actions.  sizeof() in long words. *)

ActLw(a) ==
    CASE a.op \in {"pop_vlan", "pop_mpls"} -> 1
      [] a.op \in {"output", "push_vlan", "pre_lag", "push_mpls", "meter"} -> 2
      [] a.op = "set_mpls"   -> 3
      [] a.op = "pre_tunnel" -> 5
      [] a.op = "set_tunnel" -> 7
      [] a.op = "set_eth"    -> 7
      [] a.op = "set_ip"     -> 5
      [] a.op = "set_l4"     -> 3

Lw(acts) == FoldLeft(LAMBDA n, a : n + ActLw(a), 0, acts)

Fw(op) == [op |-> op, arg |-> "no", last |-> FALSE]

\* The actions, but for the values they carry.
nfp_fl_mpls(op) == Fw(op)                   \* push_mpls, pop_mpls, set_mpls
nfp_fl_pop_vlan == Fw("pop_vlan")
nfp_fl_push_vlan == Fw("push_vlan")
nfp_fl_set_tun == Fw("set_tunnel")
nfp_fl_set_eth == Fw("set_eth")
nfp_fl_set_ip == Fw("set_ip")
nfp_fl_set_tport == Fw("set_l4")
nfp_fl_meter == Fw("meter")

\* the walk over the TC list: compiled actions, shortcut, bookkeeping
Start == [ok |-> TRUE, acts |-> <<>>, short |-> "no", csum |-> {},
          tun |-> "no", tunOut |-> 0, outs |-> 0, host |-> FALSE,
          pre |-> FALSE, pend |-> {}]

Stop(c, bad) == [c EXCEPT !.ok = @ /\ ~bad]

\* an action after a check that it fits
Append1(c, a, short) ==
    [Stop(c, Lw(c.acts) + ActLw(a) > MaxActLw)
        EXCEPT !.acts = Append(@, a), !.short = short]

-----------------------------------------------------------------------------
(* mirred and redirect *)

nfp_fl_netdev_is_tunnel_type(dev, tun) ==
    \/ tun = "vxlan" /\ dev = "vx"
    \/ tun = "gre" /\ dev = "gr"

nfp_fl_output(c, dev, last) ==
    LET out == [op |-> "output", arg |-> dev, last |-> last]
        sent == [c EXCEPT !.acts = Append(@, out), !.short = dev]
    IN CASE c.tun # "no" ->
              [Stop(sent, ~nfp_fl_netdev_is_tunnel_type(dev, c.tun) \/ c.tunOut > 0)
                  EXCEPT !.tunOut = @ + 1]
         [] c.tun = "no" /\ dev = "int" ->
              [Stop(c, c.pre \/ ~c.host)
                  EXCEPT !.pre = TRUE,
                         !.acts = Append(@, [out EXCEPT !.last = FALSE])]
         [] OTHER -> Stop(sent, dev \notin {"p", "q", "bond"})

\* the pre-action moves in front of everything compiled so far
nfp_fl_pre_lag(c, dev) ==
    IF dev # "bond" THEN c
    ELSE [Stop(c, Lw(c.acts) + 2 > MaxActLw)
             EXCEPT !.acts = <<Fw("pre_lag")>> \o @, !.short = "null"]

ChecksumsLoose(c) == FALSE

ChecksumsPending(c) == c.csum # {}

nfp_flower_output_action(c, dev, last) ==
    [Stop(nfp_fl_pre_lag(nfp_fl_output(Stop(c, \/ ChecksumsPending(c)
                                               \/ Lw(c.acts) + 2 > MaxActLw), dev, last),
                         dev),
          dev = "bond" /\ (~last \/ c.outs > 0))
     EXCEPT !.outs = @ + 1]

-----------------------------------------------------------------------------
(* tunnels *)

IsOut(a) == a.id \in {"redirect", "mirred"}

\* nfp_fl_get_tun_from_act: GRE when the next output device is one
nfp_fl_get_tun_from_act(list, i) ==
    LET outs == {j \in (i + 1)..Len(list) : IsOut(list[j])}
        next == CHOOSE j \in outs : \A k \in outs : j =< k
    IN IF outs # {} /\ list[next].arg = "gr" THEN "gre" ELSE "vxlan"

nfp_fl_pre_tunnel(c) == <<Fw("pre_tunnel")>> \o c.acts

TunnelEncap(c, list, i) ==
    LET pre == [Stop(c, Lw(c.acts) + 12 > MaxActLw)
                   EXCEPT !.acts = nfp_fl_pre_tunnel(c)]
    IN [pre EXCEPT !.acts = Append(@, nfp_fl_set_tun), !.short = "null",
                   !.tun = nfp_fl_get_tun_from_act(list, i)]

-----------------------------------------------------------------------------
(* pedit: consecutive mangles are gathered and committed at the end *)

\* Hardware fixes the checksums; the filter of these rules names no IP
\* protocol, so both TCP and UDP may be touched ("l4").
CsumUpdated(f) == CASE f = "eth" -> {} [] f = "ip" -> {"ip", "l4"}
                    [] f = "l4" -> {"l4"}

nfp_fl_commit_mangle(c) ==
    LET in(f, a) == IF f \in c.pend THEN <<a>> ELSE <<>>
    IN [c EXCEPT !.acts = @ \o in("eth", nfp_fl_set_eth) \o in("ip", nfp_fl_set_ip)
                            \o in("l4", nfp_fl_set_tport),
                 !.csum = @ \cup UNION {CsumUpdated(f) : f \in c.pend},
                 !.pend = {}]

\* nfp_fl_check_mangle_end.  Of the last entry the code reads the one behind
\* the list; what it finds there does not matter to an output before it.
EndsMangles(list, i) ==
    /\ list[i].id = "mangle"
    /\ i < Len(list) => list[i + 1].id # "mangle"

nfp_fl_pedit(c, field) == [c EXCEPT !.pend = @ \cup {field}]

Flags(arg) == IF arg = "both" THEN {"ip", "l4"} ELSE {arg}

-----------------------------------------------------------------------------
(* the list *)

nfp_flower_loop_action(c, list, i) ==
    LET a == list[i] IN
    CASE a.id = "drop"     -> [c EXCEPT !.short = "drop"]
      [] a.id = "redirect" -> nfp_flower_output_action(c, a.arg, TRUE)
      [] a.id = "mirred"   -> nfp_flower_output_action(c, a.arg, FALSE)
      [] a.id = "pop"      -> Append1(c, nfp_fl_pop_vlan, "popv")
      [] a.id = "push"     -> Append1(c, nfp_fl_push_vlan, "null")
      [] a.id = "encap"    -> TunnelEncap(c, list, i)
      [] a.id = "decap"    -> c
      [] a.id = "mangle"   -> nfp_fl_pedit(c, a.arg)
      [] a.id = "csum"     ->
            [Stop(c, ~(Flags(a.arg) \subseteq c.csum))
                EXCEPT !.csum = @ \ Flags(a.arg)]
      [] a.id = "mpls"     -> Append1(c, nfp_fl_mpls(a.arg), "null")
      [] a.id = "ptype"    -> [c EXCEPT !.host = TRUE]
      [] a.id = "police"   -> Append1(c, nfp_fl_meter, c.short)
      [] OTHER             -> Stop(c, TRUE)

MangleEnd(c, list, i) == IF EndsMangles(list, i) THEN nfp_fl_commit_mangle(c) ELSE c

\* a shortcut is only kept for a list of one action
nfp_flower_compile_action(list) ==
    [FoldLeft(LAMBDA c, i : MangleEnd(nfp_flower_loop_action(c, list, i), list, i),
              Start, [i \in DOMAIN list |-> i])
     EXCEPT !.short = IF Len(list) > 1 THEN "null" ELSE @]

-----------------------------------------------------------------------------
(* nfp_flower_can_merge *)

\* nfp_flower_update_merge_with_actions: the fields known after an action
KnownAfter(known, a) ==
    CASE a.op = "push_vlan"  -> known \cup {"tci"}
      [] a.op = "pop_vlan"   -> known \ {"tci"}
      [] a.op = "set_tunnel" -> known \cup {"eth", "ip", "l4"}
      [] a.op \in {"set_eth", "set_ip", "set_l4"} ->
            known \cup {CASE a.op = "set_eth" -> "eth" [] a.op = "set_ip" -> "ip"
                          [] a.op = "set_l4" -> "l4"}
      [] OTHER -> known

Mergeable(a) == a.op \notin {"push_mpls", "pop_mpls", "set_mpls", "meter"}

\* populate_merge_match refuses layers beyond NFP_FLOWER_MERGE_FIELDS
nfp_flower_can_merge(acts1, m1, m2) ==
    LET outs == {i \in DOMAIN acts1 : acts1[i].op = "output"} IN
    /\ "other" \notin m2
    /\ \A i \in DOMAIN acts1 : Mergeable(acts1[i])
    /\ outs = {Len(acts1)}
    /\ m2 \subseteq FoldLeft(KnownAfter, m1, acts1)

-----------------------------------------------------------------------------
(* nfp_flower_merge_action *)

IsPre(a) == a.op \in {"pre_tunnel", "pre_lag"}

\* nfp_flower_copy_pre_actions: the pre-actions at the head of the list
PreActions(acts) ==
    LET rest == {i \in DOMAIN acts : ~IsPre(acts[i])}
        n == IF rest = {} THEN Len(acts)
             ELSE (CHOOSE i \in rest : \A j \in rest : i =< j) - 1
    IN SubSeq(acts, 1, n)

After(acts, pre) == SubSeq(acts, Len(pre) + 1, Len(acts))

nfp_fl_verify_post_tun_acts(acts) ==
    /\ \A i \in DOMAIN acts :
           acts[i].op = "output" \/ (acts[i].op = "push_vlan" /\ i = 1)
    /\ acts # <<>> /\ acts[1].op = "push_vlan" => Len(acts) > 1

nfp_fl_push_vlan_after_tun(acts) ==
    LET tuns == {i \in DOMAIN acts : acts[i].op = "set_tunnel"}
        first == CHOOSE i \in tuns : \A j \in tuns : i =< j
    IN [acts EXCEPT ![first].arg = "vlan"]

nfp_flower_merge_action(acts1, acts2) ==
    LET sub1 == SubSeq(acts1, 1, Len(acts1) - 1)
        pre1 == PreActions(sub1)
        pre2 == PreActions(acts2)
        rest1 == After(sub1, pre1)
        rest2 == After(acts2, pre2)
        tunnel == \E i \in DOMAIN pre1 : pre1[i].op = "pre_tunnel"
        vlan == tunnel /\ rest2 # <<>> /\ rest2[1].op = "push_vlan"
    IN [ok |-> /\ acts2 # <<>>
               /\ Lw(sub1) + Lw(acts2) =< MaxActLw
               /\ tunnel => nfp_fl_verify_post_tun_acts(rest2)
               /\ vlan => \E i \in DOMAIN rest1 : rest1[i].op = "set_tunnel",
        acts |-> pre1 \o pre2
                   \o (IF vlan THEN nfp_fl_push_vlan_after_tun(rest1) ELSE rest1)
                   \o (IF vlan THEN Tail(rest2) ELSE rest2)]

-----------------------------------------------------------------------------
(* The two machines that run the lists (external). *)

\* tags: the VLAN tags, outermost first; tun: what it will be wrapped in at
\* its output; wrapped: already encapsulated; ovlan: a tag outside the tunnel
Packet == [eth |-> "old", ip |-> "old", l4 |-> "old", mpls |-> <<>>,
           tags |-> <<"t1", "t2">>, tun |-> FALSE, wrapped |-> FALSE,
           ovlan |-> FALSE, stale |-> {}]

Pushed(p) == IF p.wrapped THEN [p EXCEPT !.ovlan = TRUE]
             ELSE [p EXCEPT !.tags = <<"rule">> \o @]

Popped(p) == [p EXCEPT !.tags = IF @ = <<>> THEN @ ELSE Tail(@)]

Leaves(p) == [p EXCEPT !.wrapped = @ \/ p.tun, !.tun = FALSE]

TcStep(s, a) ==
    IF s.over THEN s ELSE
    CASE a.id = "drop"     -> [s EXCEPT !.over = TRUE]
      [] IsOut(a)          -> [s EXCEPT !.out = Append(@, <<a.arg, Leaves(s.p)>>),
                                        !.over = a.id = "redirect"]
      [] a.id = "pop"      -> [s EXCEPT !.p = Popped(@)]
      [] a.id = "push"     -> [s EXCEPT !.p = Pushed(@)]
      [] a.id = "encap"    -> [s EXCEPT !.p.tun = TRUE]
      [] a.id = "mangle"   -> [s EXCEPT !.p[a.arg] = "new",
                                        !.p.stale = @ \cup CsumUpdated(a.arg)]
      [] a.id = "csum"     -> [s EXCEPT !.p.stale = @ \ Flags(a.arg)]
      [] a.id = "mpls"     -> [s EXCEPT !.p.mpls = Append(@, a.arg)]
      [] OTHER             -> s

RunTc(list, p) ==
    FoldLeft(TcStep, [p |-> p, out |-> <<>>, over |-> FALSE], list).out

FwStep(s, a) ==
    IF s.over THEN s ELSE
    CASE a.op = "output"     -> [s EXCEPT !.out = Append(@, <<a.arg, Leaves(s.p)>>),
                                          !.over = a.last]
      [] a.op = "pop_vlan"   -> [s EXCEPT !.p = Popped(@)]
      [] a.op = "push_vlan"  -> [s EXCEPT !.p = Pushed(@)]
      [] a.op = "set_tunnel" -> [s EXCEPT !.p.tun = TRUE,
                                          !.p.ovlan = @ \/ a.arg = "vlan"]
      [] a.op = "set_eth"    -> [s EXCEPT !.p.eth = "new"]
      [] a.op = "set_ip"     -> [s EXCEPT !.p.ip = "new"]
      [] a.op = "set_l4"     -> [s EXCEPT !.p.l4 = "new"]
      [] a.op \in {"push_mpls", "pop_mpls", "set_mpls"} ->
                                [s EXCEPT !.p.mpls = Append(@, a.op)]
      [] OTHER               -> s

RunFw(acts, p) ==
    FoldLeft(FwStep, [p |-> p, out |-> <<>>, over |-> FALSE], acts).out

\* a rule with a shortcut does just that
RunRule(c, p) ==
    IF c.short \in {"no", "null", "popv"} THEN RunFw(c.acts, p)
    ELSE IF c.short = "drop" THEN <<>> ELSE <<<<c.short, p>>>>

-----------------------------------------------------------------------------
Handle ==
    /\ ~adone
    /\ adone' = TRUE
    /\ \E j \in ActJobs :
          /\ ajob' = j
          /\ acomp' = [list \in {j.l1, j.l2} |-> nfp_flower_compile_action(list)]

ActInit ==
    /\ ajob = [l1 |-> <<>>, l2 |-> <<>>, m1 |-> {}, m2 |-> {}]
    /\ acomp = <<>> /\ adone = FALSE

ActNext == Handle

ActSpec == ActInit /\ [][ActNext]_actvars

-----------------------------------------------------------------------------
(* Properties *)

C1 == acomp[ajob.l1]
C2 == acomp[ajob.l2]

Offloaded(c) == c.ok /\ ~c.pre

\* nothing follows a drop
DropLast(list) == \A i \in DOMAIN list : list[i].id = "drop" => i = Len(list)

(* An offloaded rule does to every packet what the TC rule does: the same  *)
(* copies leave by the same ports in the same order, with correct          *)
(* checksums in both cases or in neither, and the pre-actions come first.  *)
SameEffect ==
    adone /\ Offloaded(C1) /\ DropLast(ajob.l1) =>
        /\ RunRule(C1, Packet) = RunTc(ajob.l1, Packet)
        /\ \A i \in DOMAIN C1.acts : IsPre(C1.acts[i]) => i =< Len(PreActions(C1.acts))

(* The same of every list TC accepts.  A drop is only a shortcut, and the  *)
(* code says of shortcuts "We optimise when the action list is small": so  *)
(* losing the shortcut must not change what the rule does.                 *)
ShortcutOnlyOptimises ==
    adone /\ Offloaded(C1) => RunRule(C1, Packet) = RunTc(ajob.l1, Packet)

\* the packets that hit the first rule like Packet does
Alike(m1) ==
    {p \in {[Packet EXCEPT !.eth = e, !.ip = i, !.l4 = l, !.tags = <<t, u>>] :
               e, i, l \in {"old", "other"}, t, u \in {"t1", "t2"}} :
       /\ \A f \in m1 \cap {"eth", "ip", "l4"} : p[f] = Packet[f]
       /\ "tci" \in m1 => p.tags[1] = Packet.tags[1]}

\* p and q agree on the fields of m
AgreeOn(m, p, q) ==
    /\ \A f \in m \cap {"eth", "ip", "l4"} : p[f] = q[f]
    /\ "tci" \in m => SubSeq(p.tags, 1, 1) = SubSeq(q.tags, 1, 1)

(* What nfp_flower_can_merge promises: "every packet that hits sub_flow1   *)
(* and recirculates is guaranteed to hit sub_flow2", that is, the fields   *)
(* the second rule matches on are the same in all packets that hit the     *)
(* first.  And nfp_flower_merge_action makes of the two lists one that     *)
(* does what they do one after the other.                                  *)
MergeSound ==
    adone /\ Offloaded(C1) /\ nfp_flower_can_merge(C1.acts, ajob.m1, ajob.m2) =>
        LET merged == nfp_flower_merge_action(C1.acts, C2.acts)
            after(p) == RunFw(C1.acts, p)[1][2]
        IN /\ \A p \in Alike(ajob.m1) :
                  ~after(p).wrapped => AgreeOn(ajob.m2, after(p), after(Packet))
           /\ Offloaded(C2) /\ merged.ok =>
                  RunFw(merged.acts, Packet) = RunFw(C2.acts, after(Packet))
=============================================================================

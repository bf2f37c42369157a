------------------------------ MODULE MCFlows ------------------------------
(***************************************************************************)
(* The flower application's flow rules: the flow, mask and statistics      *)
(* tables with merged flows and tunnels (FlowTable), the flows put         *)
(* together from connection tracking rules (Conntrack), the match key of   *)
(* a rule (FlowKey) and its action list (FlowActs).                        *)
(*                                                                         *)
(* The four share no state: a behaviour is one of one of them.  Three      *)
(* flows compete for three statistics contexts and two mask ids.  Two      *)
(* zones are tracked one after the other, the first with address           *)
(* translation.  FlowKey and FlowActs take one step for each of their      *)
(* inputs.                                                                 *)
(***************************************************************************)
EXTENDS FlowTable, Conntrack, FlowKey, FlowActs

CONSTANTS fa, fb, fc, pr1, post1, post0, mid1, far1, n1, n2

VARIABLE part

FlowRule(m, t, p) == [mask |-> m, tun |-> t, pre |-> p]
MCRules ==
    fa :> FlowRule("m1", "v4", FALSE) @@
    fb :> FlowRule("m1", "v6", FALSE) @@
    fc :> FlowRule("m2", "no", TRUE)

CtRule(k, z, nx, ch, go, m, g, nat, est) ==
    [kind |-> k, zone |-> z, next |-> nx, chain |-> ch, goto |-> go,
     dev |-> IF k = "nft" THEN "none" ELSE "d",
     m |-> m, g |-> g, nat |-> nat, est |-> est,
     mark |-> IF k = "nft" THEN 1 ELSE AnyBit, act |-> AnyBit, vlan |-> AnyBit]

MCCtRules ==
    pr1 :> CtRule("pre", "z1", "none", 0, 1, 0, AnyBit, TRUE, FALSE) @@
    post1 :> CtRule("post", "z1", "none", 1, 0, 1, AnyBit, FALSE, FALSE) @@
    post0 :> CtRule("post", "z1", "none", 1, 0, 0, AnyBit, FALSE, FALSE) @@
    mid1 :> CtRule("post", "z1", "z2", 1, 2, AnyBit, AnyBit, FALSE, TRUE) @@
    far1 :> CtRule("post", "wild", "none", 2, 0, 1, AnyBit, FALSE, TRUE) @@
    n1 :> CtRule("nft", "z1", "none", 0, 0, 0, 1, FALSE, FALSE) @@
    n2 :> CtRule("nft", "z2", "none", 0, 0, 1, AnyBit, FALSE, FALSE)

\* Rules with or without a tunnel: the inner match, the outer one.
KeyRulesOf(tuns, ports, devs, v6s, optlens) ==
    [l2: {"no", "mpls"}, vlan: {"no", "pcp"}, cvlan: BOOLEAN, tun: tuns,
     encport: ports, netdev: devs, v6: v6s, exact: {TRUE}, opts: optlens,
     nproto: {"no", "ip", "ipv6", "mpls"}, ips: {"no", "ip", "ipv6"},
     ipproto: {"no", "tp"}, l4: BOOLEAN, tcp: {"no", "ok"}, ctl: {"no"}]
MCKeyRules ==
    KeyRulesOf({FALSE}, {"none"}, {"gre"}, {FALSE}, {-1})
    \cup KeyRulesOf({TRUE}, {"none", "vxlan", "geneve", "other"},
                    {"gre", "vxlan", "geneve"}, BOOLEAN, {-1, 2, 8})
MCKeyFeats == {{"qinq", "pcp", "geneve", "geneve_opt", "v6tun"}, {"pcp"}}

Act(i, x) == [id |-> i, arg |-> x]
AllActs ==
    {Act("drop", "no"), Act("redirect", "p"), Act("mirred", "q"),
     Act("redirect", "bond"), Act("mirred", "bond"), Act("redirect", "vx"),
     Act("redirect", "gr"), Act("redirect", "int"), Act("mirred", "eth0"),
     Act("pop", "no"), Act("push", "no"), Act("encap", "no"),
     Act("mangle", "eth"), Act("mangle", "ip"), Act("mangle", "l4"),
     Act("csum", "both"), Act("csum", "l4"), Act("mpls", "push_mpls"),
     Act("ptype", "no"), Act("police", "no")}
SomeActs ==
    {Act("pop", "no"), Act("push", "no"), Act("encap", "no"),
     Act("mangle", "ip"), Act("csum", "both"), Act("mirred", "q"),
     Act("redirect", "p"), Act("redirect", "vx"), Act("redirect", "bond")}
Lists(S, n) == UNION {[1 .. i -> S] : i \in 0 .. n}
Ends == {<<Act("redirect", "p")>>, <<Act("redirect", "vx")>>}
Firsts == {x \o y : x \in Lists(SomeActs, 2), y \in Ends}
\* One list alone; two lists to merge; two matches to merge.
MCActJobs ==
    [l1: Lists(AllActs, 3) \cup [1 .. 4 -> SomeActs],
     l2: {<<>>}, m1: {{}}, m2: {{}}]
    \cup [l1: Firsts, l2: Lists(SomeActs, 2), m1: {{}}, m2: {{}}]
    \cup [l1: Firsts, l2: {<<>>}, m1: SUBSET {"eth", "ip", "tci"},
          m2: SUBSET {"eth", "ip", "tci", "other"}]

MCInit ==
    /\ FlowInit /\ CtInit /\ ActInit
    /\ \/ part = "key" /\ KeyInit
       \/ part \in {"flow", "ct", "act"} /\ krule = [l2 |-> "no"] /\ kfeat = {} /\ kls = "new"

MCNext ==
    \/ part = "flow" /\ FlowNext /\ UNCHANGED <<ctvars, keyvars, actvars, part>>
    \/ part = "ct" /\ CtNext /\ UNCHANGED <<flvars, keyvars, actvars, part>>
    \/ part = "key" /\ KeyNext /\ UNCHANGED <<flvars, ctvars, actvars, part>>
    \/ part = "act" /\ ActNext /\ UNCHANGED <<flvars, ctvars, keyvars, part>>

MCSpec == MCInit /\ [][MCNext]_<<flvars, ctvars, keyvars, actvars, part>>

-----------------------------------------------------------------------------
\* Through installs, deletions, merges, failed sends and late hints, every
\* statistics context and every mask id is either free once or used by the
\* flows that reference it (metadata.c).
FlowIdsAccounted == part = "flow" => IdsAccounted /\ MasksAccounted

\* What the firmware holds is what the flow table says it holds, including
\* the flow shortened when a merge replaced it, and a flow reports only
\* packets that it counted itself (offload.c).
FlowsAgree == part = "flow" => HwMatchesTable /\ OwnPackets

\* A flow merged from tracked rules forwards exactly the packets that the
\* rules one after the other forward, and every combination the rules allow
\* is offloaded or was refused; statistics of a merged flow reach each of its
\* rules once, and no callback of a zone stays registered that would wait for
\* itself (conntrack.c).
TrackedFlowsSound ==
    part = "ct" => OffloadIsSound /\ CombinationsOffloaded /\ PacketsCountedOnce /\ NoCallbackCycle

\* The key built for a rule fills exactly the length computed for it and
\* loses no field the rule matches (offload.c, match.c).
KeySound == part = "key" => KeyFits /\ MatchKept

\* The compiled action list does to a packet what the rule's actions do,
\* and a merge of two flows does what the two do in turn (action.c).
ActionsSound == part = "act" => SameEffect /\ MergeSound

=============================================================================

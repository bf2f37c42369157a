------------------------------ MODULE FlowKey ------------------------------
(***************************************************************************)
(* How a TC flower rule becomes the key the firmware matches on.           *)
(* nfp_flower_calculate_key_layers decides which layers the key has and how *)
(* many bytes to allocate, or refuses the rule; nfp_flower_compile_flow_match *)
(* then writes the layers one after the other into the allocated buffers;  *)
(* nfp_fl_calc_key_layers_sz computes, for a merged connection tracking    *)
(* rule, the offset of every layer.                                        *)
(*                                                                         *)
(* These are pure functions of the rule, so the state is one rule and what *)
(* became of it.  A rule is a record that says of every dissector key      *)
(* whether it is used and, where the code looks at its value, which of the *)
(* cases it is.  Sizes are in long words of four bytes, as in              *)
(* NFP_FLOWER_KEY_MAX_LW.                                                  *)
(***************************************************************************)
EXTENDS Integers, Sequences, FiniteSets, SequencesExt

CONSTANTS
    KeyRules,    \* the rules TC may hand over, records as described above
    KeyFeats     \* the sets of firmware features considered

VARIABLES
    krule,       \* the rule being offloaded
    kfeat,       \* the firmware's flower_ext_feats
    kls          \* "new", "refused" or the layers and size calculated
keyvars == <<krule, kfeat, kls>>

-----------------------------------------------------------------------------
(* sizeof() of the layer structures *)

LayerLw(layer, v6) ==
    CASE layer \in {"meta_tci", "ext_meta", "in_port", "tp"} -> 1
      [] layer = "qinq"      -> 2
      [] layer = "mac"       -> 4
      [] layer = "ipv4"      -> 3
      [] layer = "ipv6"      -> 10
      [] layer = "udp_tun"   -> IF v6 THEN 11 ELSE 5
      [] layer = "gre"       -> IF v6 THEN 12 ELSE 6
      [] layer = "geneve_op" -> 8

\* key_layer |= layer; key_size += sizeof(layer)
AddLayer(k, layer, v6) ==
    [k EXCEPT !.layers = @ \cup {layer}, !.size = @ + LayerLw(layer, v6)]

\* the same, only when the layer is not there yet
AddOnce(k, layer, v6) ==
    IF layer \in k.layers THEN k ELSE AddLayer(k, layer, v6)

Refuse(k, bad) == [k EXCEPT !.ok = @ /\ ~bad]

-----------------------------------------------------------------------------
(* nfp_flower_calculate_key_layers *)

MacLayer(r, k) == IF r.l2 = "no" THEN k ELSE AddLayer(k, "mac", FALSE)

QinqLayer(k) ==
    IF "qinq" \in k.layers
    THEN k ELSE AddLayer(AddLayer(k, "ext_meta", FALSE), "qinq", FALSE)

VlanLayers(r, feats, k) ==
    LET outer == Refuse(k, r.vlan = "pcp" /\ "pcp" \notin feats)
        v == IF r.vlan # "no" /\ "qinq" \in feats
             THEN QinqLayer(outer) ELSE outer
    IN IF r.cvlan THEN QinqLayer(Refuse(v, "qinq" \notin feats)) ELSE v

nfp_flower_calc_opt_layer(r, k) ==
    LET checked == Refuse(k, r.opts > 8 \/ (r.v6 /\ r.opts > 2))
    IN IF r.opts > 0 THEN AddLayer(checked, "geneve_op", r.v6) ELSE checked

\* -1 long words of options: FLOW_DISSECTOR_KEY_ENC_OPTS is not used
nfp_flower_calc_udp_tun_layer(r, feats, k) ==
    LET udp(c) == AddLayer(c, "udp_tun", r.v6) IN
    CASE r.encport = "vxlan" ->
           Refuse(udp(IF r.v6 THEN AddLayer(k, "ext_meta", FALSE) ELSE k),
                  r.opts >= 0)
      [] r.encport = "geneve" ->
           LET g == udp(AddLayer(Refuse(k, "geneve" \notin feats),
                                 "ext_meta", FALSE))
           IN IF r.opts < 0 THEN g
              ELSE nfp_flower_calc_opt_layer(r,
                       Refuse(g, "geneve_opt" \notin feats))
      [] OTHER -> Refuse(k, TRUE)

TunnelLayers(r, feats, k) ==
    LET t == Refuse(k, ~r.exact \/ (r.v6 /\ "v6tun" \notin feats)) IN
    IF r.tun = FALSE THEN k
    ELSE IF r.encport = "none"
    THEN Refuse(AddLayer(AddLayer(t, "ext_meta", FALSE), "gre", r.v6),
                r.netdev # "gre" \/ r.opts >= 0)
    ELSE Refuse(nfp_flower_calc_udp_tun_layer(r, feats, t),
                r.netdev # r.encport)

nfp_flower_check_higher_than_mac(r) == r.ips # "no" \/ r.l4

nfp_flower_check_higher_than_l3(r) == r.l4

NetworkLayer(r, k) ==
    CASE r.nproto = "ip"   -> AddLayer(k, "ipv4", FALSE)
      [] r.nproto = "ipv6" -> AddLayer(k, "ipv6", FALSE)
      [] r.nproto = "mpls" -> AddOnce(k, "mac", FALSE)
      [] r.nproto = "8021q" -> k
      [] r.nproto \in {"arp", "other"} -> Refuse(k, TRUE)
      [] r.nproto = "no" -> Refuse(k, nfp_flower_check_higher_than_mac(r))

TransportLayer(r, k) ==
    LET t == IF r.ipproto = "tp" THEN AddLayer(k, "tp", FALSE) ELSE k
    IN Refuse(t, "tp" \notin t.layers /\ nfp_flower_check_higher_than_l3(r))

\* TCP flags live in the IPv4 or the IPv6 layer, which the network layer
\* has added whenever the EtherType is one of the two.  basic.key exists
\* when the EtherType or the IP protocol is matched.
TcpFlags(r, k) ==
    IF r.tcp = "no" THEN k
    ELSE Refuse(k, \/ r.tcp = "bad"
                   \/ r.nproto = "no" /\ r.ipproto = "no"
                   \/ k.layers \cap {"ipv4", "ipv6"} = {})

\* a control flag outside NFP_FLOWER_SUPPORTED_CTLFLAGS, a dissector key
\* outside the white list, and half a tunnel match are refused
nfp_flower_calculate_key_layers(r, feats) ==
    LET k0 == [ok |-> r.ctl # "bad", layers |-> {"meta_tci", "in_port"},
               size |-> 2, v6 |-> r.tun /\ r.v6]
    IN TcpFlags(r, TransportLayer(r, NetworkLayer(r,
           TunnelLayers(r, feats, VlanLayers(r, feats, MacLayer(r, k0))))))

-----------------------------------------------------------------------------
(* the order in which the layers are laid out *)

nfp_flower_compile_flow_match ==
    << "meta_tci", "ext_meta", "in_port", "mac", "tp", "ipv4", "ipv6", "qinq",
       "gre", "udp_tun", "geneve_op" >>

MapQinqFirst ==
    << "meta_tci", "ext_meta", "in_port", "qinq", "mac", "tp", "ipv4", "ipv6",
       "gre", "udp_tun", "geneve_op" >>

nfp_fl_calc_key_layers_sz ==
    << "meta_tci", "ext_meta", "in_port", "mac", "tp", "ipv4", "ipv6", "qinq",
       "gre", "udp_tun", "geneve_op" >>

\* The dissector keys that the function filling a layer copies into it.
nfp_flower_compile_meta_tci(feats) == IF "qinq" \in feats THEN {} ELSE {"vlan"}

nfp_flower_compile_mac == {"eth"}

nfp_flower_compile_mpls == {"mpls", "mpls_type"}

nfp_flower_compile_vlan == {"vlan", "cvlan"}

nfp_flower_compile_tport == {"ports"}

nfp_flower_compile_ip_ext == {"ipproto", "tos_ttl", "tcp", "frag"}

nfp_flower_compile_ipv4 == {"ip"} \cup nfp_flower_compile_ip_ext

nfp_flower_compile_ipv6 == {"ipv6"} \cup nfp_flower_compile_ip_ext

nfp_flower_compile_geneve_opt == {"enc_opts"}

nfp_flower_compile_tun_ip_ext == {"enc_ip"}

nfp_flower_compile_tun_key == {"enc_keyid"}

nfp_flower_compile_tun_addrs(v6) == IF v6 THEN {"enc_ipv6"} ELSE {"enc_ipv4"}

nfp_flower_compile_tun(v6) ==
    nfp_flower_compile_tun_addrs(v6) \cup nfp_flower_compile_tun_ip_ext
        \cup nfp_flower_compile_tun_key

Carried(layer, k, feats) ==
    CASE layer = "meta_tci"  -> nfp_flower_compile_meta_tci(feats)
      [] layer = "mac"       -> nfp_flower_compile_mac \cup nfp_flower_compile_mpls
      [] layer = "tp"        -> nfp_flower_compile_tport
      [] layer = "ipv4"      -> nfp_flower_compile_ipv4
      [] layer = "ipv6"      -> nfp_flower_compile_ipv6
      [] layer = "qinq"      -> nfp_flower_compile_vlan
      [] layer \in {"gre", "udp_tun"} -> nfp_flower_compile_tun(k.v6)
      [] layer = "geneve_op" -> nfp_flower_compile_geneve_opt
      [] OTHER               -> {}

\* the long words that the layers of k among those of the sequence take
Laid(k, order) ==
    FoldLeft(LAMBDA n, l : n + (IF l \in k.layers THEN LayerLw(l, k.v6) ELSE 0),
             0, order)

\* where layer l begins
Offset(k, order, l) ==
    LET i == CHOOSE j \in DOMAIN order : order[j] = l
    IN Laid(k, SubSeq(order, 1, i - 1))

\* ext_len: the options are written at ext, which is not advanced past them
CheckedLength(k) ==
    Laid([k EXCEPT !.layers = @ \ {"geneve_op"}], nfp_flower_compile_flow_match)

NFP_FLOWER_KEY_MAX_LW == 32

\* nfp_flower_add_offload: the layers, the buffers, the key
OffloadKey ==
    /\ kls = "new"
    /\ LET k == nfp_flower_calculate_key_layers(krule, kfeat)
       IN kls' = IF k.ok /\ CheckedLength(k) =< NFP_FLOWER_KEY_MAX_LW
                 THEN "offloaded" ELSE "refused"
    /\ UNCHANGED <<krule, kfeat>>

\* TC hands over any rule, the firmware has any of the feature sets
KeyInit == krule \in KeyRules /\ kfeat \in KeyFeats /\ kls = "new"

KeyNext == OffloadKey

KeySpec == KeyInit /\ [][KeyNext]_keyvars

-----------------------------------------------------------------------------
(* Properties *)

Layers == nfp_flower_calculate_key_layers(krule, kfeat)

(* The buffers hold the key: the layers that nfp_flower_compile_flow_match *)
(* writes, the Geneve options included, never need more bytes than         *)
(* calculate_key_layers counted, and the offsets conntrack computes for a  *)
(* merged rule are those at which the match code writes the layers.        *)
KeyFits ==
    kls = "offloaded" =>
        /\ Laid(Layers, nfp_flower_compile_flow_match) =< Layers.size
        /\ \A l \in Layers.layers :
               Offset(Layers, nfp_fl_calc_key_layers_sz, l)
                   = Offset(Layers, nfp_flower_compile_flow_match, l)

\* a rule whose address, port and flag keys go with its EtherType, which is
\* what the dissector of the kernel produces
Coherent(r) ==
    /\ r.ips # "no" => r.nproto \in {"no", r.ips}
    /\ r.l4 \/ r.tcp # "no" => r.nproto \in {"no", "ip", "ipv6"}
    /\ r.ipproto # "no" \/ r.ctl # "no" => r.nproto \in {"ip", "ipv6"}

\* the keys rule r uses, beyond the EtherType itself
UsedKeys(r) ==
    UNION { IF r.l2 = "no" THEN {} ELSE {r.l2},
            IF r.vlan = "no" THEN {} ELSE {"vlan"},
            IF r.cvlan THEN {"cvlan"} ELSE {},
            IF r.nproto = "mpls" THEN {"mpls_type"} ELSE {},
            IF r.ips = "no" THEN {} ELSE {r.ips, "tos_ttl"},
            IF r.ipproto = "no" THEN {} ELSE {"ipproto"},
            IF r.l4 THEN {"ports"} ELSE {},
            IF r.tcp = "no" THEN {} ELSE {"tcp"},
            IF r.ctl = "no" THEN {} ELSE {"frag"},
            IF r.tun THEN {"enc_keyid", "enc_ip",
                           IF r.v6 THEN "enc_ipv6" ELSE "enc_ipv4"} ELSE {},
            IF r.tun /\ r.opts > 0 THEN {"enc_opts"} ELSE {} }

(* Nothing the user matches on is dropped silently: every dissector key    *)
(* that an offloaded rule uses is copied into some layer of the key.       *)
MatchKept ==
    kls = "offloaded" /\ Coherent(krule) =>
        UsedKeys(krule) \subseteq
            UNION {Carried(l, Layers, kfeat) : l \in Layers.layers}

(* The firmware takes keys of at most NFP_FLOWER_KEY_MAX_LW long words:     *)
(* "Check that the flow key does not exceed the maximum limit."             *)
KeyWithinLimit ==
    kls = "offloaded" =>
        Laid(Layers, nfp_flower_compile_flow_match) =< NFP_FLOWER_KEY_MAX_LW
=============================================================================

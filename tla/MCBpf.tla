------------------------------- MODULE MCBpf --------------------------------
(***************************************************************************)
(* The BPF offload: the code emitted for an instruction (BpfJit and, for   *)
(* loads and stores, BpfMem), the passes before it (BpfOpt), frames, calls *)
(* and branches of the whole program (BpfLink), the verifier's hooks       *)
(* (BpfVerifier), offloaded maps and the life of programs (BpfOffload).    *)
(*                                                                         *)
(* The parts share no state: a behaviour is one of one of them.  Off marks *)
(* the variables of the other parts.                                       *)
(***************************************************************************)
EXTENDS BpfJit, BpfMem, BpfOpt, BpfLink, BpfVerifier, BpfOffload

CONSTANTS u1, u2, r1

VARIABLE part

\* BpfJit: bytes of two bits, so that every boundary of a register is near.
MCValues == {0, 1, 2, 5, 127, 128, 130, 254, 255, 256, 32767, 32768, 65535, 21930}
MCImms == {-128, -127, -2, -1, 0, 1, 2, 3, 7, 11, 14, 18, 64, 85, 127}
MCLengths == {5, 6, 20}

\* BpfMem: every size at every offset around the ends of the windows through
\* which the stack, the packet cache and a copy are reached.
AccSizes == {1, 2, 4, 8}
AccOffs == 0 .. 12 \cup 24 .. 36 \cup 54 .. 74 \cup 90 .. 100
StackI == {[MemInsn EXCEPT !.kind = k, !.ptr = "stack", !.size = s, !.zext = z, !.at = a, !.seen = a] :
              k \in {"ldx", "stx"}, s \in AccSizes, z \in BOOLEAN, a \in AccOffs}
VaryI == {[MemInsn EXCEPT !.kind = k, !.ptr = "stack", !.size = s, !.zext = z, !.at = a, !.seen = 4 * b + (a % 4), !.vary = TRUE] :
              k \in {"ldx", "stx"}, s \in AccSizes, z \in {TRUE}, a \in AccOffs, b \in {0, 20}}
DataI == {[MemInsn EXCEPT !.kind = k, !.ptr = p, !.size = s, !.zext = z, !.at = a] :
              k \in {"ldx", "stx", "st"}, p \in {"packet", "map"}, s \in AccSizes, z \in BOOLEAN, a \in {0, 3}}
         \cup {[MemInsn EXCEPT !.kind = "abs", !.size = s, !.at = 3] : s \in {1, 2, 4}}
CacheI == {i \in {[MemInsn EXCEPT !.size = s, !.zext = z, !.at = a, !.cache = [start |-> c, end |-> c + n, init |-> t]] :
                     s \in AccSizes, z \in {TRUE}, a \in 0 .. 66, c \in {0, 3}, n \in {1, 7, 8, 33, 63, 64}, t \in BOOLEAN} :
              i.at >= i.cache.start /\ i.at + i.size <= i.cache.end}
CopyI == {i \in {[MemInsn EXCEPT !.size = s, !.at = a, !.to = t, !.len = d * s * n] :
                     s \in AccSizes, a \in {5}, t \in {0, 3, 200}, d \in {-1, 1}, n \in 2 .. 128} : i.len \in -128 .. 128}
MCInsns == StackI \cup VaryI \cup DataI \cup CacheI \cup CopyI

\* BpfOpt: copies by loads and stores in every order and distance, packet
\* loads around what ends a cached range, masks and shifts behind a load.
LdAt(o, z, t) == [OptInsn EXCEPT !.k = "ldx", !.d = 2, !.s = 1, !.size = z, !.off = o, !.t = t]
StAt(o, z, id, p) == [OptInsn EXCEPT !.k = "stx", !.d = 3, !.s = 2, !.size = z, !.off = o, !.id = id, !.poff = p]
CopyPairs(ld, d, z, t, id, p) == FlattenSeq([k \in 1 .. Len(ld) |-> <<LdAt(ld[k], z, t), StAt(ld[k] + d, z, id, p)>>])
OptOp(k) == <<[OptInsn EXCEPT !.k = k]>>
OptJmp(to) == <<[OptInsn EXCEPT !.k = "jmp", !.to = to]>>
OptAt(k, o, z) == <<[OptInsn EXCEPT !.k = k, !.d = 2, !.size = z, !.off = o]>>
OptAnd(n) == <<[OptInsn EXCEPT !.k = "and", !.imm = n]>>
CopyOrders == {<<2, o>> : o \in 0 .. 4} \cup {<<2, 4, 6>>, <<4, 2, 0>>, <<2, 4, 2>>, <<2, 3, 4>>, <<4, 3, 2>>, <<3, 4, 3>>}
CopyProgs ==
    {CopyPairs(l, d, z, "packet", i[1], i[2]) \o e : l \in CopyOrders, d \in -3 .. 3, z \in {1, 2},
        i \in {<<0, 0>>, <<0, 1>>, <<1, 0>>}, e \in {OptOp("exit"), OptOp("other") \o OptOp("exit")}}
    \cup {OptJmp(to) \o CopyPairs(l, 3, 2, "map", 0, 0) \o OptOp("other") \o OptOp("exit") :
        l \in {<<0, 2, 4>>, <<4, 2, 0>>, <<0, 2, 4, 6>>}, to \in 2 .. 8}
PacketLoads == {<<LdAt(o, 2, "packet")>> : o \in {-2, 0, 2, 5}}
               \cup {<<[LdAt(0, 1, "packet") EXCEPT !.d = 3, !.poff = 1]>>, <<[LdAt(0, 1, "packet") EXCEPT !.id = 1, !.d = 0]>>}
Between == PacketLoads \cup {<<LdAt(0, 2, "map")>>, <<[StAt(1, 2, 0, 0) EXCEPT !.s = 3]>>,
                             OptAt("st", 0, 2), OptOp("call"), OptAt("abs", 0, 4), OptOp("other")}
CacheProgs == {j \o x \o y \o z \o OptOp("other") \o OptOp("exit") :
                  j \in {<<>>, OptJmp(3), OptJmp(4)}, x \in PacketLoads, y \in Between, z \in PacketLoads}
MaskProgs == {j \o p \o OptAt("abs", 1, z) \o x \o y \o OptOp("exit") :
                  j \in {<<>>, OptJmp(3), OptJmp(4)}, p \in {<<>>, OptOp("xor") \o OptOp("mov61")}, z \in {1, 4},
                  x, y \in {OptAnd(1), OptAnd(4), OptOp("lsh"), OptOp("rsh")}}
MCOptPrograms == CopyProgs \cup CacheProgs \cup MaskProgs

\* BpfLink: a main program (1 to 6), a function from 7 and one from 12.
LinkOp(k) == [LinkInsn EXCEPT !.k = k]
LinkCall(to) == [LinkInsn EXCEPT !.k = "call", !.to = to]
LinkJmp(to, b) == [LinkInsn EXCEPT !.k = "jmp", !.to = to, !.br = b]
LinkKey(o, up) == [LinkInsn EXCEPT !.k = "map", !.off = o, !.up = up]
LinkSet(r) == [LinkOp("set") EXCEPT !.reg = r]
Removed(i) == [i EXCEPT !.gone = TRUE]
MainPairs == {<<LinkOp("spill"), LinkOp("fill")>>}
             \cup ({LinkJmp(5, 0), LinkJmp(4, 1), LinkJmp(6, 2), Removed(LinkOp("use"))} \X {LinkOp("perf"), LinkCall(12)})
             \cup ({LinkKey(1, FALSE), LinkKey(2, FALSE)} \X {LinkOp("use")})
Mains == {<<LinkOp("set"), p[1], LinkCall(7), p[2], LinkOp("use"), LinkOp("exit")>> : p \in MainPairs}
FuncPairs == {<<LinkOp("spill"), LinkOp("fill")>>, <<LinkCall(12), LinkOp("use")>>, <<LinkJmp(11, 1), LinkOp("use")>>,
              <<LinkOp("use"), LinkKey(1, FALSE)>>, <<LinkCall(12), LinkKey(2, TRUE)>>}
Funcs == {<<x, p[1], p[2], y, LinkOp("exit")>> :
             x \in {LinkOp("set"), Removed(LinkOp("use"))}, p \in FuncPairs, y \in {LinkCall(12), LinkSet(9)}}
Leaves == {<<LinkOp("spill"), LinkOp("fill"), LinkOp("exit")>>, <<LinkSet(8), LinkOp("use"), LinkOp("exit")>>}
Outcomes(s) == IF \E n \in 1 .. Len(s) : s[n].k = "jmp" THEN {0, 1, 2} ELSE {0}
OnStack(s) == \E n \in 1 .. Len(s) : s[n].k \in {"spill", "fill", "map"}
Depths(m, f, g) == {d \in [0 .. 2 -> {0, 1, 2, 5}] :
                       /\ d[0] \in (IF OnStack(m) \/ OnStack(f) THEN {2, 5} ELSE {0, 5})
                       /\ d[1] = (IF OnStack(f) THEN 1 ELSE 0) /\ d[2] = (IF OnStack(g) THEN 1 ELSE 0)}
MCLinkPrograms == UNION {{[insns |-> m \o f \o g, depth |-> d, start |-> 5, taken |-> t] :
                              d \in Depths(m, f, g), t \in Outcomes(m \o f)} : m \in Mains, f \in Funcs, g \in Leaves}

\* BpfVerifier: every operation, in groups of those that share a record.
Site(o, off, size, k) == [op |-> o, off |-> off, size |-> size, k |-> k]
MCSites == <<Site("head", 0, 0, FALSE), Site("ld", 0, 4, FALSE), Site("xadd", 0, 4, FALSE), Site("update", 0, 0, FALSE),
             Site("key", 0, 0, FALSE), Site("ld", 2, 4, FALSE), Site("st", 0, 4, FALSE), Site("mul", 0, 0, FALSE),
             Site("perf", 0, 0, FALSE), Site("div", 0, 0, FALSE), Site("alu", 0, 0, TRUE), Site("mul", 0, 0, TRUE),
             Site("div", 0, 0, TRUE), Site("head", 0, 0, FALSE), Site("st", 4, 4, FALSE), Site("exit", 0, 0, FALSE)>>
PtrVisits == {[Visit EXCEPT !.t = "stack", !.off = o, !.frame = f] : o \in {-8, -3}, f \in {0, 1}}
             \cup {[Visit EXCEPT !.t = t] : t \in {"packet", "ctx", "scalar"}}
             \cup {[Visit EXCEPT !.t = "map", !.off = o, !.const = c] : o \in {0, 4}, c \in BOOLEAN}
AddVisits == {[Visit EXCEPT !.t = "map", !.off = o, !.val = v, !.mask = m] : o \in {0, 4}, v \in {0, 4}, m \in {0, 2, 8}}
             \cup {[Visit EXCEPT !.t = "packet"]}
NumVisits == {[Visit EXCEPT !.min = x[1], !.max = x[2], !.smin = y[1], !.smax = y[2]] :
                 x \in {<<0, 3>>, <<2, 9>>}, y \in {<<1, 1>>, <<2, 2>>, <<1, 9>>}}
ArgVisits == {[Visit EXCEPT !.t = "stack", !.off = o, !.const = c] : o \in {-8, -3}, c \in BOOLEAN}
MCVisits ==
    "head" :> ({[Visit EXCEPT !.val = v, !.const = c] : v \in {-3, -2, 1, 2, 3}, c \in BOOLEAN} \cup {[Visit EXCEPT !.t = "packet"]})
    @@ "ld" :> PtrVisits @@ "st" :> PtrVisits @@ "xadd" :> AddVisits
    @@ "key" :> ArgVisits @@ "update" :> {[v EXCEPT !.nz = z] : v \in ArgVisits, z \in {{}, {0}, {0, 1}}}
    @@ "perf" :> PtrVisits @@ "exit" :> {[Visit EXCEPT !.val = v, !.const = c] : v \in {0, 2, 8}, c \in BOOLEAN}
    @@ [o \in {"alu", "mul", "div"} |-> NumVisits]
MCGroups == {{1, 14}, {2, 3, 4}, {3, 4, 6}, {5}, {7}, {15}, {8}, {9}, {10}, {11}, {12}, {13}, {16}}

MCJumps == [j \in {2, 4} |-> 6]

\* Maps: every call on a word that no program counts in; a counter that
\* programs or late requests change; a word whose use is still open.
Play(ops, keys, vals, calls, writes, late, type) ==
    [ops |-> ops, keys |-> keys, vals |-> vals, calls |-> calls, writes |-> writes, late |-> late,
     type |-> type, full |-> type # "unused"]
MCPlays == {Play(MapOps, {1, 2}, {1}, 3, 0, FALSE, "read"),
            Play({"update", "lookup", "getfirst"}, {1, 2}, {1}, 3, 1, FALSE, "atomic"),
            Play({"update", "lookup", "getfirst"}, {1, 2}, {1}, 3, 0, TRUE, "atomic"),
            Play({"update", "lookup"}, {1}, {0, 1}, 2, 1, FALSE, "unused")}

\* Programs: two programs record the same maps in opposite orders.
Prog(t, m, r) == [type |-> t, maps |-> m, reach |-> r, fits |-> TRUE]
MCProgs == "a" :> Prog("tc", <<"m", "n">>, 1) @@ "b" :> Prog("tc", <<"n", "m">>, 3)
           @@ "c" :> Prog("xdp", <<"n">>, 2) @@ "d" :> Prog("xdp", <<>>, 3)
MCOffMaps == "x" :> 1 @@ "y" :> 2 @@ "z" :> 3

-----------------------------------------------------------------------------
Off == 0
MCInit ==
    /\ part \in {"jit", "mem", "opt", "link", "ver", "rw", "maps", "progs"}
    /\ IF part = "jit" THEN JitInit ELSE jinsn = Off /\ jregs = Off /\ jcode = Off /\ jm = Off /\ jpc = Off
    /\ IF part = "mem" THEN MemInit ELSE mi = Off /\ mcode = Off /\ mm = Off /\ mpc = Off
    /\ IF part = "opt" THEN OptInit ELSE oprog = Off /\ ometas = Off /\ owalk = Off /\ opass = Off
    /\ IF part = "link" THEN LinkInit
       ELSE lp = Off /\ lmetas = Off /\ lsub = Off /\ lcode = Off /\ ltgt = Off /\ lcpu = Off /\ lpc = Off
    /\ IF part = "ver" THEN VerifierInit ELSE vmetas = Off /\ vprog = Off /\ vuse = Off /\ vhist = Off /\ vpc = Off
    /\ IF part = "rw" THEN RwInit ELSE rlist = Off /\ rwired = Off /\ rgone = Off /\ rdst = Off /\ rpc = Off
    /\ IF part = "maps" THEN MapsInit ELSE fwmap = Off /\ nmap = Off /\ mcalls = Off /\ mlate = Off /\ mhist = Off
    /\ IF part = "progs" THEN ProgsInit
       ELSE /\ pstate = Off /\ precs = Off /\ preaders = Off /\ pforget = Off
            /\ pvnic = Off /\ pfilters = Off /\ pplay = Off /\ pmaps = Off

MCNext ==
    /\ \/ part = "jit" /\ JitNext /\ UNCHANGED <<memVars, optVars, linkVars, verVars, rwVars, mapVars, progVars>>
       \/ part = "mem" /\ MemNext /\ UNCHANGED <<jitVars, optVars, linkVars, verVars, rwVars, mapVars, progVars>>
       \/ part = "opt" /\ OptNext /\ UNCHANGED <<jitVars, memVars, linkVars, verVars, rwVars, mapVars, progVars>>
       \/ part = "link" /\ LinkNext /\ UNCHANGED <<jitVars, memVars, optVars, verVars, rwVars, mapVars, progVars>>
       \/ part = "ver" /\ VerifierNext /\ UNCHANGED <<jitVars, memVars, optVars, linkVars, rwVars, mapVars, progVars>>
       \/ part = "rw" /\ RwNext /\ UNCHANGED <<jitVars, memVars, optVars, linkVars, verVars, mapVars, progVars>>
       \/ part = "maps" /\ MapsNext /\ UNCHANGED <<jitVars, memVars, optVars, linkVars, verVars, rwVars, progVars>>
       \/ part = "progs" /\ ProgsNext /\ UNCHANGED <<jitVars, memVars, optVars, linkVars, verVars, rwVars, mapVars>>
    /\ UNCHANGED part

-----------------------------------------------------------------------------
\* The code emitted for a BPF instruction does to the registers, the packet,
\* the stack and the map what the instruction does (jit.c).
InstructionsSound == /\ part = "jit" => CodeSound
                     /\ part = "mem" => MemSound

\* The passes over a program before its translation keep its meaning, and so
\* do the frames, calls, branches and relocations behind it (jit.c,
\* verifier.c nfp_bpf_finalize()).
ProgramSound == /\ part = "opt" => OptSound
                /\ part = "link" => LinkSound

\* Whatever the order of the verifier's visits and rewrites, what the driver
\* remembers is true of every visit (verifier.c).
VisitsSound == /\ part = "ver" => VerifierSound
               /\ part = "rw" => RewriteSound

\* A call to an offloaded map is answered with what the map held while the
\* call was made, and a counter is kept in the byte order of the hardware
\* (cmsg.c, offload.c).
MapAnswersSound == part = "maps" => MapsSound

\* An event reaches a live record, and a vNIC runs the program its user
\* attached, within the reach of the firmware (offload.c, main.c).
ProgramsAttached == part = "progs" => ProgramsSound

\* A chain of loads and stores is made into one copy only if no load of it
\* reads what an earlier store of it wrote (jit.c, cross_mem_access()).
CopiesKept == part = "opt" => CopiesReadOld
=============================================================================

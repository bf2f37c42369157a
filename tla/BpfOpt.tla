------------------------------- MODULE BpfOpt -------------------------------
(***************************************************************************)
(* The passes the translator makes over a BPF program before it emits code *)
(* (bpf/jit.c, nfp_bpf_jit_prepare() and nfp_bpf_optimize()): which        *)
(* instructions it skips, which loads and stores it gathers into copies,   *)
(* which loads it serves from one cached read of the packet.               *)
(*                                                                         *)
(* A program is straight-line code after at most one conditional jump.     *)
(* Register values are tuples of eight byte tokens.  nfp_bpf_opt_neg_add_  *)
(* sub(), which changes arithmetic only, is in BpfJit.                     *)
(***************************************************************************)
EXTENDS Integers, Sequences, SequencesExt, FiniteSets, TLC

CONSTANTS
    OptPrograms,    \* the programs, see OptInsn
    GatherMax,      \* 128: the bytes one copy command moves
    CacheMax        \* 64: the bytes one cached read fetches

VARIABLES
    oprog,      \* the program as the kernel handed it over
    ometas,     \* nfp_prog->insns: what the passes make of it
    owalk,      \* the local variables of the running pass
    opass       \* the running pass
optVars == <<oprog, ometas, owalk, opass>>

\* k      "jmp" (to: the instruction it may go to), "xor", "mov61", "abs",
\*        "and", "lsh", "rsh", "ldx", "stx", "st", "call", "other", "exit"
\* d, s   registers of a load or store: destination and source
\* t, id, poff    the type, id and constant offset of the pointer register
OptInsn == [k |-> "other", to |-> 0, d |-> 0, s |-> 0, size |-> 0, off |-> 0, imm |-> 0,
            t |-> "packet", id |-> 0, poff |-> 0]
Meta(i) == [insn |-> i, dst |-> FALSE, skip |-> FALSE, len |-> 0, pair |-> 0,
            init |-> FALSE, start |-> 0, end |-> 0]
NInsns == Len(ometas)
M(n) == ometas[n]
I(n) == ometas[n].insn

is_mbpf_load(i) == i.k = "ldx"
is_mbpf_store(i) == i.k = "stx"
is_mbpf_load_pkt(i) == is_mbpf_load(i) /\ i.t = "packet"
is_mbpf_store_pkt(i) == is_mbpf_store(i) /\ i.t = "packet"
is_mbpf_classic_load(i) == i.k = "abs"
is_mbpf_classic_store_pkt(i) == i.k = "st" /\ i.t = "packet"

OptInit ==
    /\ oprog \in OptPrograms
    /\ ometas = [n \in 1 .. Len(oprog) |-> Meta(oprog[n])]
    /\ owalk = [i |-> 1] /\ opass = "prepare"

Go(pass, walk) == opass' = pass /\ owalk' = walk /\ UNCHANGED oprog
First == [i |-> 1]

\* nfp_bpf_jit_prepare(): the destinations of jumps.
OptPrepare ==
    /\ opass = "prepare"
    /\ ometas' = [n \in 1 .. NInsns |-> [M(n) EXCEPT !.dst = \E j \in 1 .. NInsns : I(j).k = "jmp" /\ I(j).to = n]]
    /\ Go("reg_init", First)

\* nfp_bpf_opt_reg_init(): the leading XORs and R6 = R1.
Leading(n) == \A j \in 1 .. n : I(j).k \in {"xor", "mov61"}
OptRegInit ==
    /\ opass = "reg_init"
    /\ ometas' = [n \in 1 .. NInsns |-> [M(n) EXCEPT !.skip = @ \/ (Leading(n) /\ I(n).k = "mov61")]]
    /\ Go("ld_mask", First)

\* nfp_bpf_opt_ld_mask(): a mask of the width just loaded into R0.
Masks(i) == i.k = "and" /\ i.d = 0 /\ i.s = 0
OptLdMask ==
    /\ opass = "ld_mask"
    /\ ometas' = [n \in 1 .. NInsns |->
                    [M(n) EXCEPT !.skip = @ \/ (n > 1 /\ is_mbpf_classic_load(I(n - 1)) /\ Masks(I(n))
                                                /\ I(n).imm = I(n - 1).size /\ ~M(n).dst)]]
    /\ Go("ld_shift", First)

\* nfp_bpf_opt_ld_shift(): two shifts by 32 bits after a word was loaded.
ShiftPair(n) ==
    /\ n > 1 /\ n < NInsns
    /\ is_mbpf_classic_load(I(n - 1)) /\ I(n - 1).size = 4
    /\ {I(n).k, I(n + 1).k} = {"lsh", "rsh"}
    /\ I(n).d = 0 /\ I(n + 1).d = 0
    /\ ~M(n).dst /\ ~M(n + 1).dst
OptLdShift ==
    /\ opass = "ld_shift"
    /\ ometas' = [n \in 1 .. NInsns |-> [M(n) EXCEPT !.skip = @ \/ ShiftPair(n) \/ (n > 1 /\ ShiftPair(n - 1))]]
    /\ Go("gather", [i |-> 1, head |-> 0, prev |-> 0, count |-> 0])

-----------------------------------------------------------------------------
\* nfp_bpf_opt_ldst_gather(): n and n + 1 are a load and a store; 0 is NULL.
curr_pair_is_memcpy(n) ==
    /\ is_mbpf_load(I(n)) /\ is_mbpf_store(I(n + 1))
    /\ I(n).t \in {"packet", "map"}
    /\ I(n + 1).t = "packet"
    /\ I(n).size = I(n + 1).size
    /\ I(n).d = I(n + 1).s
    /\ ~M(n + 1).dst
curr_pair_chain_with_previous(n, p) ==
    \/ p = 0
    \/ /\ I(n).d = I(p).d
       /\ I(n).s = I(p).s /\ I(n + 1).d = I(p + 1).d
       /\ I(n).size = I(p).size
       /\ ~M(n).dst
       /\ \/ I(p).off + I(p).size = I(n).off /\ I(p + 1).off + I(p).size = I(n + 1).off
          \/ I(n).off + I(n).size = I(p).off /\ I(n + 1).off + I(n).size = I(p + 1).off
cross_mem_access(n, head) ==
    LET head_ld_off == I(head).off + I(head).poff
        head_st_off == I(head + 1).off + I(head + 1).poff
        ld_off == I(n).off + I(head).poff
    IN  /\ I(head).t = I(head + 1).t
        /\ \/ I(head).id # I(head + 1).id
           \/ ld_off > head_ld_off /\ head_ld_off < head_st_off /\ ld_off >= head_st_off
           \/ ld_off < head_ld_off /\ head_ld_off > head_st_off /\ ld_off <= head_st_off
GatherBreaks(n, w) ==
    \/ ~curr_pair_is_memcpy(n)
    \/ ~curr_pair_chain_with_previous(n, w.prev)
    \/ w.head # 0 /\ (cross_mem_access(n, w.head) \/ M(w.head).len >= GatherMax)

\* What the end of a chain leaves in its first load and store.
GatherEnded(w) ==
    LET down == I(w.prev).off < I(w.head).off
    IN  IF w.count > 1
        THEN [ometas EXCEPT ![w.head] = [@ EXCEPT !.pair = w.head + 1,
                                                  !.len = IF down THEN -@ ELSE @,
                                                  !.insn.off = IF down THEN I(w.prev).off ELSE @],
                            ![w.head + 1] = [@ EXCEPT !.skip = TRUE,
                                                      !.insn.off = IF down THEN I(w.prev + 1).off ELSE @]]
        ELSE [ometas EXCEPT ![w.head].len = 0]
GatherIgnore ==
    /\ GatherBreaks(owalk.i, owalk) /\ owalk.count = 0
    /\ UNCHANGED ometas
    /\ Go("gather", [owalk EXCEPT !.i = @ + 1])
GatherEnd ==
    LET n == owalk.i IN
    /\ GatherBreaks(n, owalk) /\ owalk.count # 0
    /\ IF curr_pair_is_memcpy(n)
       THEN /\ ometas' = [GatherEnded(owalk) EXCEPT ![n].len = I(n).size]
            /\ Go("gather", [i |-> n + 2, head |-> n, prev |-> n, count |-> 1])
       ELSE /\ ometas' = GatherEnded(owalk)
            /\ Go("gather", [i |-> n + 1, head |-> 0, prev |-> 0, count |-> 0])
GatherTake ==
    LET n == owalk.i
        head == IF owalk.head = 0 THEN n ELSE owalk.head
        taken == [ometas EXCEPT ![head].len = @ + I(n).size]
    IN  /\ ~GatherBreaks(n, owalk)
        /\ ometas' = IF head = n THEN taken ELSE [taken EXCEPT ![n].skip = TRUE, ![n + 1].skip = TRUE]
        /\ Go("gather", [i |-> n + 2, head |-> head, prev |-> n, count |-> owalk.count + 1])
OptGather ==
    /\ opass = "gather"
    /\ \/ owalk.i < NInsns /\ (GatherIgnore \/ GatherEnd \/ GatherTake)
       \/ /\ owalk.i >= NInsns
          /\ UNCHANGED ometas
          /\ Go("cache", [i |-> 1, node |-> 0, start |-> 0, end |-> 0, avail |-> FALSE])

-----------------------------------------------------------------------------
\* nfp_bpf_opt_pkt_cache(), first loop: node is the load that reads a range.
CacheForgets(m) ==
    \/ is_mbpf_store_pkt(m.insn) \/ m.insn.k = "call"
    \/ is_mbpf_classic_store_pkt(m.insn) \/ is_mbpf_classic_load(m.insn)
    \/ is_mbpf_load(m.insn) /\ (m.insn.t # "packet" \/ m.len # 0)
CacheExtended(w, m) == [start |-> IF m.insn.off < w.start THEN m.insn.off ELSE w.start,
                        end |-> IF m.insn.off + m.insn.size > w.end THEN m.insn.off + m.insn.size ELSE w.end]
CacheJoins(w, m) ==
    LET new == CacheExtended(w, m) IN
    /\ m.insn.id = I(w.node).id /\ m.insn.poff = I(w.node).poff
    /\ new.end - new.start <= CacheMax
CacheInstalled(metas, w) ==
    IF w.node = 0 THEN metas
    ELSE [metas EXCEPT ![w.node].start = w.start, ![w.node].end = w.end]
CacheScan ==
    LET n == owalk.i
        w == [owalk EXCEPT !.avail = @ /\ ~M(n).dst, !.i = n + 1]
        new == CacheExtended(w, M(n))
    IN  /\ n <= NInsns
        /\ CASE M(n).skip -> UNCHANGED ometas /\ Go("cache", w)
             [] ~M(n).skip /\ CacheForgets(M(n)) -> UNCHANGED ometas /\ Go("cache", [w EXCEPT !.avail = FALSE])
             [] ~M(n).skip /\ ~CacheForgets(M(n)) /\ ~is_mbpf_load(I(n)) -> UNCHANGED ometas /\ Go("cache", w)
             [] ~M(n).skip /\ ~CacheForgets(M(n)) /\ is_mbpf_load(I(n)) ->
                    IF w.avail /\ CacheJoins(w, M(n))
                    THEN UNCHANGED ometas /\ Go("cache", [w EXCEPT !.start = new.start, !.end = new.end])
                    ELSE /\ ometas' = [CacheInstalled(ometas, w) EXCEPT ![n].init = TRUE]
                         /\ Go("cache", [w EXCEPT !.avail = TRUE, !.node = n, !.start = I(n).off,
                                                  !.end = I(n).off + I(n).size])
\* The second loop: the other loads use the range of the last reading load.
Cached(m) == ~m.skip /\ is_mbpf_load_pkt(m.insn) /\ m.len = 0
CacheSpread(metas) ==
    LET reader(n) == {j \in 1 .. n : Cached(metas[j]) /\ metas[j].init}
        last(n) == CHOOSE j \in reader(n) : \A x \in reader(n) : x <= j
        range(n) == IF reader(n) = {} THEN owalk ELSE metas[last(n)]
    IN  [n \in 1 .. Len(metas) |->
            IF ~Cached(metas[n]) \/ metas[n].init THEN metas[n]
            ELSE [metas[n] EXCEPT !.start = range(n).start, !.end = range(n).end]]
OptCache ==
    /\ opass = "cache"
    /\ \/ CacheScan
       \/ /\ owalk.i > NInsns
          /\ ometas' = CacheSpread(CacheInstalled(ometas, owalk))
          /\ Go("done", First)

OptNext == OptPrepare \/ OptRegInit \/ OptLdMask \/ OptLdShift \/ OptGather \/ OptCache

-----------------------------------------------------------------------------
\* What a program does: the bytes of packet and registers.  A conditional
\* jump goes where taken says; pointers of id 0 point to the start of the
\* packet, the others base bytes further.
Token(a) == 100 + a
MapToken(a) == 300 + a
Addr(i, base) == (IF i.id = 0 THEN 0 ELSE base) + i.poff + i.off
Bytes(n, F(_)) == [b \in 1 .. 8 |-> IF b <= n THEN F(b - 1) ELSE 0]
Begin == [r |-> [n \in 0 .. 3 |-> [b \in 1 .. 8 |-> 10 * n + b]], mem |-> [a \in -16 .. 32 |-> Token(a)], read |-> <<>>]
Junk == <<>>
FromRead(s, a) == IF a \in DOMAIN s.read THEN s.read[a] ELSE -1

\* A copy that was gathered from a chain, and the load it leaves for last.
CopyDone(m, s, base) ==
    LET len == IF m.len < 0 THEN -m.len ELSE m.len
        from == Addr(m.insn, base)
        st == I(m.pair)
        to == Addr(st, base)
        last == IF m.len < 0 THEN from ELSE from + len - m.insn.size
        src(a) == IF m.insn.t = "map" THEN MapToken(a) ELSE s.mem[a]
    IN  [r |-> [s.r EXCEPT ![m.insn.d] = Bytes(m.insn.size, LAMBDA b : src(last + b))],
         mem |-> [a \in DOMAIN s.mem |-> IF a - to \in 0 .. len - 1 THEN src(from + a - to) ELSE s.mem[a]],
         read |-> Junk]
OptLoaded(m, s, base) ==
    LET i == m.insn
        a == Addr(i, base)
        lo == a - i.off + m.start
        read == IF m.init THEN [x \in lo .. lo + (m.end - m.start) - 1 |-> s.mem[x]] ELSE s.read
    IN  CASE i.t = "map" -> [s EXCEPT !.r[i.d] = Bytes(i.size, LAMBDA b : MapToken(a + b)), !.read = Junk]
          [] i.t # "map" /\ m.end # 0 ->
                [s EXCEPT !.r[i.d] = Bytes(i.size, LAMBDA b : FromRead([read |-> read], a + b)), !.read = read]
          [] OTHER -> [s EXCEPT !.r[i.d] = Bytes(i.size, LAMBDA b : s.mem[a + b]), !.read = Junk]
Written(s, a, n, F(_)) == [s EXCEPT !.mem = [x \in DOMAIN s.mem |-> IF x - a \in 0 .. n - 1 THEN F(x - a) ELSE @[x]]]
InsnDone(m, s, base) ==
    LET i == m.insn
        r0 == s.r[0]
    IN  CASE m.len # 0 -> CopyDone(m, s, base)
          [] m.len = 0 /\ i.k = "ldx" -> OptLoaded(m, s, base)
          [] i.k = "stx" -> Written(s, Addr(i, base), i.size, LAMBDA b : s.r[i.s][b + 1])
          [] i.k = "st" -> Written(s, Addr(i, base), i.size, LAMBDA b : 500 + b)
          [] i.k = "abs" -> [s EXCEPT !.r[0] = Bytes(i.size, LAMBDA b : s.mem[i.off + i.size - 1 - b]), !.read = Junk]
          [] i.k = "and" -> [s EXCEPT !.r[0] = Bytes(IF i.imm = 4 THEN 8 ELSE i.imm, LAMBDA b : r0[b + 1])]
          [] i.k = "lsh" -> [s EXCEPT !.r[0] = [b \in 1 .. 8 |-> IF b > 4 THEN r0[b - 4] ELSE 0]]
          [] i.k = "rsh" -> [s EXCEPT !.r[0] = [b \in 1 .. 8 |-> IF b <= 4 THEN r0[b + 4] ELSE 0]]
          [] i.k = "xor" -> [s EXCEPT !.r[i.d] = [b \in 1 .. 8 |-> 0]]
          [] i.k = "call" -> [s EXCEPT !.r[0] = [b \in 1 .. 8 |-> 600 + b], !.read = Junk]
          [] OTHER -> s
RECURSIVE Outcome(_, _, _, _, _)
Outcome(metas, n, s, taken, base) ==
    IF n > Len(metas) THEN [r |-> s.r, mem |-> s.mem]
    ELSE LET m == metas[n]
             next == IF m.insn.k = "jmp" /\ taken THEN m.insn.to ELSE n + 1
         IN  Outcome(metas, next, IF m.skip THEN s ELSE InsnDone(m, s, base), taken, base)

\* The n-th load starts a gathered chain: its store is known, its offsets go
\* one way and no load of it reads what an earlier store of it wrote.
ChainPairs(n) == {n + 2 * k : k \in 0 .. ((IF M(n).len < 0 THEN -M(n).len ELSE M(n).len) \div I(n).size) - 1}
Ordered(n) == \/ \A p \in ChainPairs(n) \ {n} : oprog[p].off > oprog[p - 2].off
              \/ \A p \in ChainPairs(n) \ {n} : oprog[p].off < oprog[p - 2].off
Crosses(n) ==
    \E p, q \in ChainPairs(n) :
        LET ld == oprog[p]
            st == oprog[q + 1]
            gap == ld.off + ld.poff - st.off - st.poff
        IN  q < p /\ ld.t = st.t /\ ld.id = st.id /\ gap > -ld.size /\ gap < ld.size
\* No load of a gathered copy "might load the value from previous store"
\* (comment of cross_mem_access()).
CopiesReadOld == opass = "done" => \A n \in 1 .. NInsns : M(n).len # 0 => ~Crosses(n)

CopyFaithful(n) == M(n).pair # 0 /\ Ordered(n) /\ ~Crosses(n)

\* A load that was gathered knows its store, chains only pairs in one order
\* and none of which a later load reads what an earlier store wrote.
CopiesFaithful == opass = "done" => \A n \in 1 .. NInsns : M(n).len # 0 => CopyFaithful(n)

\* Known exceptions, see the README: a chain that is no copy, and shifts that
\* clear a loaded word instead of its upper half.
ShiftsClear == \E n \in 2 .. NInsns - 1 : ShiftPair(n) /\ I(n).k = "rsh"
OptExcused == ShiftsClear \/ ~CopiesFaithful

\* The program that skips, copies and caches does what the program handed over
\* does, whichever way its jump goes and wherever its pointers point.
OptSound ==
    opass = "done" /\ ~OptExcused =>
        \A taken \in BOOLEAN, base \in {-1, 0, 2} :
            Outcome(ometas, 1, Begin, taken, base)
                = Outcome([n \in 1 .. Len(oprog) |-> Meta(oprog[n])], 1, Begin, taken, base)
=============================================================================

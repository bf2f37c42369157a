------------------------------- MODULE BpfMem -------------------------------
(***************************************************************************)
(* The translation of BPF loads and stores (bpf/jit.c): the stack in local *)
(* memory, reached through pointers LM0 and LM3, packet and map data       *)
(* through the memory bus and the transfer registers, the packet cache and *)
(* the copies made of gathered load and store pairs.                       *)
(*                                                                         *)
(* A register is a tuple of four bytes and a byte is a number that says    *)
(* where it came from, so a wrong, lost or misplaced byte shows.  The code *)
(* has no branches: MemRun runs one instruction of it.  What the processor *)
(* does is external: a pointer may be used three instructions after it was *)
(* set, the index of an LM3 access is ORed into the pointer.               *)
(***************************************************************************)
EXTENDS Integers, Sequences, SequencesExt, FiniteSets, TLC

CONSTANTS
    MemInsns        \* the loads and stores to translate, see MemInsn

VARIABLES
    mi,         \* the instruction
    mcode,      \* its translation, as far as it has not run
    mm,         \* the machine
    mpc         \* "new", "run", "refused", "done"
memVars == <<mi, mcode, mm, mpc>>

\* kind  "ldx", "stx", "st" or "abs"        ptr   "stack", "packet" or "map"
\* size  in bytes; zext  FLAG_INSN_DO_ZEXT  at    the address: pointer + off
\* vary  ptr_not_const or a caller's stack  seen  the address last verified
\* cache [start, end, init]: pkt_cache      reg, ptrreg   BPF registers
\* len   ldst_gather_len; to  where the paired stores write
MemInsn == [kind |-> "ldx", ptr |-> "packet", size |-> 1, zext |-> TRUE, at |-> 0, vary |-> FALSE, seen |-> 0,
            cache |-> [start |-> 0, end |-> 0, init |-> FALSE], reg |-> 0, ptrreg |-> 1, len |-> 0, to |-> 0]

RegWidth == 4
LmIdxMax == 7       \* RE_REG_LM_IDX_MAX
Min2(a, b) == IF a < b THEN a ELSE b
Max2(a, b) == IF a > b THEN a ELSE b
RoundUp(n, k) == ((n + k - 1) \div k) * k
RoundDown(n, k) == (n \div k) * k

\* Operands and instructions.
gpr(n) == <<"r", n>>
tmp == <<"r", 21>>
xfer(n) == <<"x", n>>
lm(p, n) == <<p, n>>
mov(d, s) == <<[i |-> "mov", d |-> d, s |-> s]>>
\* the bytes of mask, of s moved up by n bytes
field(d, mask, s, n, zero) == <<[i |-> "ldf", d |-> d, mask |-> mask, s |-> s, n |-> n, zero |-> zero]>>
clear(d) == <<[i |-> "zero", d |-> d]>>
nops(n) == [k \in 1 .. n |-> [i |-> "nop"]]
set_lm3(at) == <<[i |-> "lm3", at |-> at]>>
\* A command holds a length of three bits; an override has five.
command(op, at, x, length) == <<[i |-> op, at |-> at, x |-> x, n |-> (length % 8) + 1]>>
command_indir(op, at, x, length) == <<[i |-> op, at |-> at, x |-> x, n |-> (length % 32) + 1]>>
zext(i, reg) == IF i.zext THEN clear(gpr(reg + 1)) ELSE <<>>
subpart(d, s, len, off) == field(d, 0 .. len - 1, s, -off, TRUE)
or_subpart(d, s, len, off) == field(d, off .. off + len - 1, s, off, FALSE)
Refused == <<[i |-> "bad"]>>

-----------------------------------------------------------------------------
\* The stack.  One step moves a slice that lies within a word on both sides.
LmOf(lm3, idx) == lm(IF lm3 THEN "lm3" ELSE "lm0", idx)
wrp_lmem_load(dst, byte, off, size, first, new_gpr, last, lm3, needs_inc) ==
    LET inc == needs_inc /\ new_gpr /\ ~last
        idx == off \div 4
        near == idx <= LmIdxMax
        reg == IF near THEN LmOf(lm3, idx) ELSE tmp
    IN  CASE byte + size > 4 \/ (off % 4) + size > 4 -> Refused
          [] byte + size <= 4 /\ (off % 4) + size <= 4 /\ size = 4 ->
                mov(gpr(dst), IF inc THEN lm("lm3++", 0) ELSE LmOf(lm3, idx))
          [] byte + size <= 4 /\ (off % 4) + size <= 4 /\ size # 4 /\ lm3 /\ ~near -> Refused
          [] OTHER -> (IF ~near /\ (first \/ ~new_gpr) THEN mov(reg, lm("lm0", idx)) ELSE <<>>)
                      \o field(gpr(dst), byte .. byte + size - 1, reg, byte - (off % 4), new_gpr)
                      \o (IF inc THEN mov(<<"none", 0>>, lm("lm3++", 0)) ELSE <<>>)
wrp_lmem_store(src, byte, off, size, first, new_gpr, last, lm3, needs_inc) ==
    LET inc == needs_inc /\ new_gpr /\ ~last
        idx == off \div 4
        near == idx <= LmIdxMax
        reg == IF near THEN LmOf(lm3, idx) ELSE tmp
    IN  CASE byte + size > 4 \/ (off % 4) + size > 4 -> Refused
          [] byte + size <= 4 /\ (off % 4) + size <= 4 /\ size = 4 ->
                mov(IF inc THEN lm("lm3++", 0) ELSE LmOf(lm3, idx), gpr(src))
          [] byte + size <= 4 /\ (off % 4) + size <= 4 /\ size # 4 /\ lm3 /\ ~near -> Refused
          [] OTHER -> (IF ~near /\ (first \/ last) THEN mov(reg, lm("lm0", idx)) ELSE <<>>)
                      \o field(reg, (off % 4) .. (off % 4) + size - 1, gpr(src), (off % 4) - byte, FALSE)
                      \o (IF (new_gpr \/ last) /\ ~near THEN mov(lm("lm0", idx), reg) ELSE <<>>)
                      \o (IF inc THEN mov(<<"none", 0>>, lm("lm3++", 0)) ELSE <<>>)

RECURSIVE Slices(_, _, _, _, _, _, _, _)
Slices(i, size, off, reg, byte, prev, lm3, needs_inc) ==
    IF size = 0 THEN <<>>
    ELSE LET most == Min2(size, 4 - byte)
             slice == Min2(off + most, RoundUp(off + 1, 4)) - off
             at == IF needs_inc THEN off % 4 ELSE off
             first == prev = 255
             step == IF i.kind = "ldx"
                     THEN wrp_lmem_load(reg, byte, at, slice, first, reg # prev, slice = size, lm3, needs_inc)
                     ELSE wrp_lmem_store(reg, byte, at, slice, first, reg # prev, slice = size, lm3, needs_inc)
             carry == byte + slice >= 4
         IN  step \o Slices(i, size - slice, at + slice, IF carry THEN reg + 1 ELSE reg,
                            (byte + slice) % 4, reg, lm3, needs_inc)

narrow_ld(i) == i.kind = "ldx" /\ i.size < 8
nop_cnt(i) == IF narrow_ld(i) /\ i.zext THEN 2 ELSE 3
mem_op_stack(i) ==
    LET off == i.seen
        zexts == IF narrow_ld(i) THEN zext(i, 2 * i.reg) ELSE <<>>
        setup(at) == set_lm3(at) \o nops(nop_cnt(i)) \o zexts
        run(o, lm3, inc) == Slices(i, i.size, o, 2 * i.reg, 0, 255, lm3, inc)
    IN  CASE i.vary -> setup(i.at) \o run(off, TRUE, TRUE)
          [] ~i.vary /\ off + i.size <= 64 -> zexts \o run(off, FALSE, FALSE)
          [] ~i.vary /\ off + i.size > 64 /\ RoundDown(off, 32) = RoundDown(off + i.size - 1, 32) ->
                setup(RoundDown(off, 32)) \o run(off % 32, TRUE, FALSE)
          [] OTHER -> setup(RoundDown(off, 4)) \o run(off, TRUE, TRUE)

-----------------------------------------------------------------------------
\* Packet and map data.  read8 fills a transfer register from its top byte,
\* the swapping commands from its lowest.
mem_data_ld(i) ==
    LET reg == 2 * i.reg IN
    command("read8", i.at, 0, Max2(i.size, 4) - 1)
    \o (IF i.size < 4 THEN field(gpr(reg), 0 .. i.size - 1, xfer(0), i.size - 4, TRUE) ELSE mov(gpr(reg), xfer(0)))
    \o zext(i, reg)
mem_data_ld_host_order(i) ==
    LET reg == 2 * i.reg IN
    command("read32", i.at, 0, Max2(i.size, 4) \div 4 - 1)
    \o (CASE i.size < 4 -> field(gpr(reg), 0 .. i.size - 1, xfer(0), 0, TRUE)
          [] i.size = 4 -> mov(gpr(reg), xfer(0))
          [] i.size = 8 -> mov(gpr(reg), xfer(0)) \o mov(gpr(reg + 1), xfer(1)))
    \o (IF i.size < 8 THEN zext(i, reg) ELSE <<>>)
data_stx_host_order(i) ==
    mov(xfer(0), gpr(2 * i.reg))
    \o (IF i.size = 8 THEN mov(xfer(1), gpr(2 * i.reg + 1)) ELSE <<>>)
    \o command("write8", i.at, 0, i.size - 1)
data_st_host_order(i) ==
    <<[i |-> "immed", d |-> xfer(0), w |-> 0]>>
    \o (IF i.size = 8 THEN <<[i |-> "immed", d |-> xfer(1), w |-> 1]>> ELSE <<>>)
    \o command("write8", i.at, 0, i.size - 1)

mem_ldx_data_init_pktcache(i) ==
    LET len == i.cache.end - i.cache.start
        num == RoundUp(len, RegWidth) \div RegWidth
    IN  IF len > 8 * RegWidth THEN command_indir("read32", i.cache.start, 0, num - 1)
                              ELSE command("read32", i.cache.start, 0, num - 1)
mem_ldx_data_from_pktcache_aligned(i) ==
    LET idx == (i.at - i.cache.start) \div RegWidth
        reg == 2 * i.reg
    IN  CASE i.size < RegWidth -> subpart(gpr(reg), xfer(idx), i.size, 0) \o zext(i, reg)
          [] i.size = RegWidth -> mov(gpr(reg), xfer(idx)) \o zext(i, reg)
          [] OTHER -> mov(gpr(reg), xfer(idx)) \o mov(gpr(reg + 1), xfer(idx + 1))
mem_ldx_data_from_pktcache_unaligned(i) ==
    LET o == i.at - i.cache.start
        idx == o \div RegWidth
        off == o % RegWidth
        lo == gpr(2 * i.reg)
        hi == gpr(2 * i.reg + 1)
        len_lo == Min2(i.size, RegWidth - off)
        len_mid == IF i.size > 2 * RegWidth - off THEN RegWidth ELSE i.size - len_lo
    IN  subpart(lo, xfer(idx), len_lo, off)
        \o CASE len_mid = 0 -> zext(i, 2 * i.reg)
             [] len_mid # 0 /\ i.size <= RegWidth ->
                    or_subpart(lo, xfer(idx + 1), len_mid, len_lo) \o zext(i, 2 * i.reg)
             [] OTHER -> or_subpart(lo, xfer(idx + 1), RegWidth - len_lo, len_lo)
                         \o subpart(hi, xfer(idx + 1), len_lo, RegWidth - len_lo)
                         \o or_subpart(hi, xfer(idx + 2), RegWidth - len_lo, len_lo)
mem_ldx_data_from_pktcache(i) ==
    IF (i.at - i.cache.start) % RegWidth = 0 THEN mem_ldx_data_from_pktcache_aligned(i)
    ELSE mem_ldx_data_from_pktcache_unaligned(i)

-----------------------------------------------------------------------------
\* A copy: one read of all the bytes, one write or two, and the register that
\* the last load of the sequence would have left.
CopyWrites(i, len, num) ==
    CASE len <= 8 -> command("write8", i.to, 0, len - 1)
      [] len \in 9 .. 32 /\ len % 4 = 0 -> command("write32", i.to, 0, num - 1)
      [] len \in 9 .. 32 /\ len % 4 # 0 -> command_indir("write8", i.to, 0, len - 1)
      [] len > 32 /\ len % 4 = 0 -> command_indir("write32", i.to, 0, num - 1)
      [] len \in 33 .. 40 /\ len % 4 # 0 ->
            command("write32", i.to, 0, 7) \o command("write8", i.to + 32, 8, len - 33)
      [] OTHER -> command_indir("write32", i.to, 0, num - 2)
                  \o command("write8", (i.to + (num - 1) * 4) % 256, num - 1, (len % 4) - 1)
nfp_cpp_memcpy(i) ==
    LET len == IF i.len < 0 THEN -i.len ELSE i.len
        num == RoundUp(len, 4) \div 4
        k == CASE i.len < 0 -> 0
               [] i.len > 0 /\ i.size # 8 -> num - 1
               [] OTHER -> num - 2
        reg == 2 * i.reg
    IN  (IF len > 32 THEN command_indir("read32", i.at, 0, num - 1) ELSE command("read32", i.at, 0, num - 1))
        \o FlattenSeq([x \in 1 .. num |-> mov(xfer(x - 1), xfer(x - 1))])
        \o CopyWrites(i, len, num)
        \o (CASE i.size = 1 -> subpart(gpr(reg), xfer(k), 1, IF len % 4 = 0 THEN 3 ELSE (len % 4) - 1)
             [] i.size = 2 -> subpart(gpr(reg), xfer(k), 2, IF len % 4 = 0 THEN 2 ELSE 0)
             [] i.size = 4 -> mov(gpr(reg), xfer(0))
             [] i.size = 8 -> mov(gpr(reg), xfer(k)) \o mov(gpr(reg + 1), xfer(k + 1)))
        \o (IF i.size # 8 THEN clear(gpr(reg + 1)) ELSE <<>>)

mem_ldx(i) ==
    CASE i.len # 0 -> nfp_cpp_memcpy(i)
      [] i.len = 0 /\ i.ptr = "packet" /\ i.cache.end # 0 ->
            (IF i.cache.init THEN mem_ldx_data_init_pktcache(i) ELSE <<>>) \o mem_ldx_data_from_pktcache(i)
      [] i.len = 0 /\ i.ptr = "packet" /\ i.cache.end = 0 -> mem_data_ld_host_order(i)
      [] i.len = 0 /\ i.ptr = "stack" -> mem_op_stack(i)
      [] i.len = 0 /\ i.ptr = "map" -> mem_data_ld_host_order(i)
mem_stx(i) ==
    CASE i.ptr = "packet" -> data_stx_host_order(i)
      [] i.ptr = "stack" -> mem_op_stack(i)
      [] OTHER -> Refused
mem_st(i) == IF i.ptr = "packet" THEN data_st_host_order(i) ELSE Refused
MemCallback(i) ==
    CASE i.kind = "ldx" -> mem_ldx(i)
      [] i.kind = "stx" -> mem_stx(i)
      [] i.kind = "st" -> mem_st(i)
      [] i.kind = "abs" -> mem_data_ld(i)

-----------------------------------------------------------------------------
\* The processor.
Zero == 0
StackByte(a) == 1000 + a
RegByte(r, b) == 2000 + 4 * r + b
DataByte(a) == 4000 + a
ImmByte(b) == 6000 + b
LmSize == 108
Start == [r |-> [n \in {0, 1, 2, 3, 21} |-> [b \in 0 .. 3 |-> RegByte(n, b)]],
          lm |-> [a \in 0 .. LmSize - 1 |-> StackByte(a)],
          xin |-> [n \in 0 .. 32 |-> [b \in 0 .. 3 |-> Zero]], xout |-> [n \in 0 .. 32 |-> [b \in 0 .. 3 |-> Zero]],
          lm3 |-> 0, wait |-> 0, wr |-> <<>>, early |-> FALSE]

\* LM3 addresses words: the low bits of what is written to it are dropped.
LmWord(m, o) == IF o[1] = "lm0" THEN 4 * o[2] ELSE RoundDown(m.lm3, 32) + Max2(m.lm3 % 32, 4 * o[2])
InLm(o) == o[1] \in {"lm0", "lm3", "lm3++"}
ByLm3(o) == o[1] \in {"lm3", "lm3++"}
Get(m, o) ==
    CASE o[1] = "r" -> m.r[o[2]]
      [] o[1] = "x" -> m.xin[o[2]]
      [] OTHER -> [b \in 0 .. 3 |-> m.lm[LmWord(m, o) + b]]
Put(m, o, w) ==
    CASE o[1] = "r" -> [m EXCEPT !.r[o[2]] = w]
      [] o[1] = "x" -> [m EXCEPT !.xout[o[2]] = w]
      [] InLm(o) -> [m EXCEPT !.lm = [a \in 0 .. LmSize - 1 |->
                                        IF a - LmWord(m, o) \in 0 .. 3 THEN w[a - LmWord(m, o)] ELSE @[a]]]
      [] OTHER -> m
Bumped(m, c) ==
    [m EXCEPT !.lm3 = IF c.i = "lm3" THEN RoundDown(c.at, 4)
                      ELSE IF c.i = "mov" /\ "lm3++" \in {c.s[1], c.d[1]} THEN @ + 4 ELSE @,
              !.wait = IF c.i = "lm3" THEN 3 ELSE Max2(@ - 1, 0),
              !.early = @ \/ (m.wait > 0 /\ c.i \in {"mov", "ldf"} /\ (ByLm3(c.s) \/ ByLm3(c.d)))]
Done(m, c) ==
    CASE c.i = "mov" -> Put(m, c.d, Get(m, c.s))
      [] c.i = "ldf" ->
            LET s == Get(m, c.s)
                old(b) == IF c.zero THEN Zero ELSE Get(m, c.d)[b]
                from(b) == IF b - c.n \in 0 .. 3 THEN s[b - c.n] ELSE Zero
            IN  Put(m, c.d, [b \in 0 .. 3 |-> IF b \in c.mask THEN from(b) ELSE old(b)])
      [] c.i = "zero" -> Put(m, c.d, [b \in 0 .. 3 |-> Zero])
      [] c.i = "immed" -> Put(m, c.d, [b \in 0 .. 3 |-> ImmByte(4 * c.w + b)])
      [] c.i = "read8" -> [m EXCEPT !.xin[0] = [b \in 0 .. 3 |-> DataByte(c.at + 3 - b)]]
      [] c.i = "read32" ->
            [m EXCEPT !.xin = [n \in 0 .. 32 |-> IF n < c.n THEN [b \in 0 .. 3 |-> DataByte(c.at + 4 * n + b)] ELSE @[n]]]
      [] c.i \in {"write8", "write32"} ->
            LET bytes == IF c.i = "write8" THEN c.n ELSE 4 * c.n
            IN  [m EXCEPT !.wr = [a \in c.at .. c.at + bytes - 1 |->
                                    m.xout[c.x + (a - c.at) \div 4][(a - c.at) % 4]] @@ @]
      [] OTHER -> m

MemInit == mi \in MemInsns /\ mcode = <<>> /\ mm = Start /\ mpc = "new"
\* A load served by the cache runs after the load that filled it.
MemTranslate ==
    /\ mpc = "new"
    /\ mcode' = (IF mi.cache.end # 0 /\ ~mi.cache.init THEN mem_ldx_data_init_pktcache(mi) ELSE <<>>) \o MemCallback(mi)
    /\ mpc' = IF \E k \in 1 .. Len(mcode') : mcode'[k].i = "bad" THEN "refused" ELSE "run"
    /\ UNCHANGED <<mi, mm>>
MemRun ==
    /\ mpc = "run" /\ mcode # <<>>
    /\ mm' = Bumped(Done(mm, Head(mcode)), Head(mcode))
    /\ mcode' = Tail(mcode)
    /\ UNCHANGED <<mi, mpc>>
MemEnd ==
    /\ mpc = "run" /\ mcode = <<>>
    /\ mpc' = "done"
    /\ UNCHANGED <<mi, mcode, mm>>
MemNext == MemTranslate \/ MemRun \/ MemEnd

-----------------------------------------------------------------------------
\* What a load leaves in the register and a store in memory.
Supported(i) ==
    CASE i.kind = "ldx" -> TRUE
      [] i.kind = "stx" -> i.ptr # "map"
      [] i.kind = "st" -> i.ptr = "packet"
      [] i.kind = "abs" -> TRUE
Loaded(i, k) ==
    CASE i.kind = "abs" -> DataByte(i.at + i.size - 1 - k)
      [] i.ptr = "stack" -> StackByte(i.at + k)
      [] i.len > 0 -> DataByte(i.at + i.len - i.size + k)
      [] OTHER -> DataByte(i.at + k)
RegisterByte(n, k) == mm.r[2 * n + k \div 4][k % 4]
Register(i) ==
    \A k \in 0 .. (IF i.zext \/ i.size = 8 THEN 7 ELSE 3) :
        RegisterByte(i.reg, k) = IF k < i.size THEN Loaded(i, k) ELSE Zero
Stored(i) == [k \in 0 .. i.size - 1 |-> IF i.kind = "st" THEN ImmByte(k) ELSE RegByte(2 * i.reg + k \div 4, k % 4)]
OnlyStack(i) == mm.lm = [a \in 0 .. LmSize - 1 |-> IF a - i.at \in 0 .. i.size - 1 THEN Stored(i)[a - i.at] ELSE StackByte(a)]

\* Known exceptions, see the README.
OffsetTruncated(i) == LET len == IF i.len < 0 THEN -i.len ELSE i.len IN
                      len > 40 /\ len % 4 # 0 /\ i.to + RoundDown(len, 4) > 255
ReloadWrong(i) == i.len # 0 /\ (i.size = 4 \/ (i.len < 0 /\ i.size < 4))

\* After a copy the register of the loads holds what the last load of the
\* sequence read (comment in nfp_cpp_memcpy()).
CopyReloads == mpc = "done" /\ mi.len # 0 => Register(mi)

\* A supported load leaves the bytes it names in its register and zeroes the
\* rest, a store changes the bytes it names and no other, a copy moves all its
\* bytes; no local memory pointer is used before it is valid.
MemSound ==
    /\ mpc = "refused" => ~Supported(mi)
    /\ mpc = "done" =>
        /\ Supported(mi) /\ ~mm.early
        /\ mi.kind \in {"ldx", "abs"} /\ ~ReloadWrong(mi) => Register(mi)
        /\ IF mi.kind \in {"stx", "st"} /\ mi.ptr = "stack" THEN OnlyStack(mi) ELSE mm.lm = Start.lm
        /\ mi.kind \in {"stx", "st"} /\ mi.ptr = "packet" =>
              mm.wr = [a \in mi.at .. mi.at + mi.size - 1 |-> Stored(mi)[a - mi.at]]
        /\ mi.kind \in {"stx", "st"} => mm.r = [Start.r EXCEPT ![21] = mm.r[21]]
        /\ mi.len # 0 /\ ~OffsetTruncated(mi) =>
              LET len == IF mi.len < 0 THEN -mi.len ELSE mi.len
              IN  mm.wr = [a \in mi.to .. mi.to + len - 1 |-> DataByte(mi.at + a - mi.to)]
=============================================================================

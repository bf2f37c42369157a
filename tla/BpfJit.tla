------------------------------- MODULE BpfJit -------------------------------
(***************************************************************************)
(* The translation of the arithmetic, the jumps, the packet loads, the     *)
(* helpers and the atomic addition of BPF into code for the flow processor *)
(* (bpf/jit.c), and the run of the emitted code.  A 64 bit BPF register is *)
(* the pair of general registers 2r and 2r+1.                              *)
(*                                                                         *)
(* An instruction i is a record:                                           *)
(*   cls  "alu64", "alu", "jmp", "jmp32", ...   op    the operation        *)
(*   x    the source is a register, not imm     imm   the s32 immediate    *)
(*   dst, src   BPF registers                   zext  FLAG_INSN_DO_ZEXT    *)
(*   umin, umax the verifier's bounds of the source, umaxd of dst          *)
(*   neg  jump_neg_op                           hi    2nd half of ld_imm64 *)
(*                                                                         *)
(* One instruction is translated at a time: JitInit takes any instruction  *)
(* that the verifier hook accepts with any register contents, JitTranslate *)
(* applies the optimisation that rewrites negative immediates and calls    *)
(* the callback of the instruction, and every instruction of the flow      *)
(* processor is a step.                                                    *)
(***************************************************************************)
EXTENDS NfpMachine

CONSTANTS
    StackDepth,     \* nfp_prog->stack_frame_depth
    EthHlen, EthZlen,   \* ETH_HLEN, ETH_ZLEN
    OffMin, OffMax, \* bpf->adjust_head.off_min and off_max
    GuaranteedAdd, GuaranteedSub,   \* how far the head may move unchecked
    Einval,         \* EINVAL
    QueueNone,      \* NFP_NET_RXR_MAX, written for a queue that does not fit
    JitValues,      \* contents of a BPF register
    JitImms,        \* immediates
    JitLengths      \* packet lengths

VARIABLES
    jinsn,      \* the BPF instruction
    jregs,      \* [d, s: the values of dst and src; plen, pptr: the packet]
    jcode,      \* the emitted code
    jm,         \* the machine
    jpc         \* "new", "run", "done"
jitVars == <<jinsn, jregs, jcode, jm, jpc>>

Dst(i) == 2 * i.dst
Src(i) == 2 * i.src

-----------------------------------------------------------------------------
\* Moves and bitwise operations.
mov64(i) ==
    CASE i.x /\ i.src = 10 ->
            ur_load(StackDepth, imm_b)
            \o emit_alu(reg_both(Dst(i)), stack_reg, "add", ur_load_imm_any(StackDepth, imm_b))
            \o wrp_immed(reg_both(Dst(i) + 1), 0)
      [] i.x /\ i.src # 10 -> wrp_reg_mov(Dst(i), Src(i)) \o wrp_reg_mov(Dst(i) + 1, Src(i) + 1)
      [] OTHER -> wrp_immed(reg_both(Dst(i)), Low(i.imm)) \o wrp_immed(reg_both(Dst(i) + 1), High(i.imm))

wrp_alu_imm(dst, op, imm) ==
    CASE op = "and" /\ imm = 0 -> wrp_immed(reg_both(dst), 0)
      [] op = "or" /\ imm = AllOnes -> wrp_immed(reg_both(dst), AllOnes)
      [] op = "xor" /\ imm = AllOnes -> emit_alu(reg_both(dst), reg_none, "not", reg_b(dst))
      [] op = "and" /\ imm = AllOnes -> <<>>
      [] op \in {"or", "xor"} /\ imm = 0 -> <<>>
      [] OTHER -> ur_load(imm, imm_b)
                  \o emit_alu(reg_both(dst), reg_a(dst), op, ur_load_imm_any(imm, imm_b))
wrp_alu64_imm(i, op, skip) ==
    IF skip THEN <<>>
    ELSE wrp_alu_imm(Dst(i), op, Low(i.imm)) \o wrp_alu_imm(Dst(i) + 1, op, High(i.imm))
wrp_alu64_reg(i, op) ==
    emit_alu(reg_both(Dst(i)), reg_a(Dst(i)), op, reg_b(Src(i)))
    \o emit_alu(reg_both(Dst(i) + 1), reg_a(Dst(i) + 1), op, reg_b(Src(i) + 1))
logic64(i) ==
    IF i.x THEN wrp_alu64_reg(i, i.op)
    ELSE wrp_alu64_imm(i, i.op, i.imm = (IF i.op = "and" THEN -1 ELSE 0))

NoCarry64(i) ==
    IF i.x THEN wrp_alu64_reg(i, i.op)
    ELSE wrp_alu_imm(Dst(i), i.op, Low(i.imm)) \o wrp_alu_imm(Dst(i) + 1, i.op, High(i.imm))
addsub64(i) ==
    LET carry == IF i.op = "add" THEN "add_c" ELSE "sub_c" IN
    IF i.x THEN emit_alu(reg_both(Dst(i)), reg_a(Dst(i)), i.op, reg_b(Src(i)))
                \o emit_alu(reg_both(Dst(i) + 1), reg_a(Dst(i) + 1), carry, reg_b(Src(i) + 1))
    ELSE wrp_alu_imm(Dst(i), i.op, Low(i.imm)) \o wrp_alu_imm(Dst(i) + 1, carry, High(i.imm))
neg64(i) ==
    emit_alu(reg_both(Dst(i)), reg_imm(0), "sub", reg_b(Dst(i)))
    \o emit_alu(reg_both(Dst(i) + 1), reg_imm(0), "sub_c", reg_b(Dst(i) + 1))

mov32(i) ==
    (IF i.x THEN wrp_reg_mov(Dst(i), Src(i)) ELSE wrp_immed(reg_both(Dst(i)), Low(i.imm)))
    \o wrp_immed(reg_both(Dst(i) + 1), 0)
wrp_alu32(i) ==
    (IF i.x THEN emit_alu(reg_both(Dst(i)), reg_a(Dst(i)), i.op, reg_b(Src(i)))
            ELSE wrp_alu_imm(Dst(i), i.op, Low(i.imm)))
    \o wrp_zext(i.zext, Dst(i))
neg32(i) ==
    emit_alu(reg_both(Dst(i)), reg_imm(0), "sub", reg_b(Dst(i))) \o wrp_zext(i.zext, Dst(i))
imm_ld8(i) ==
    wrp_immed(reg_both(Dst(i)), Low(i.imm))
    \o (IF i.imm = i.hi THEN wrp_mov(reg_both(Dst(i) + 1), reg_a(Dst(i)))
                        ELSE wrp_immed(reg_both(Dst(i) + 1), Low(i.hi)))

-----------------------------------------------------------------------------
\* Multiplication and division.
wrp_mul_u32(hi, lo, l, r, high) ==
    emit_mul(l, "start", 0, r)
    \o emit_mul(l, "32x32", 1, r) \o emit_mul(l, "32x32", 2, r)
    \o emit_mul(l, "32x32", 3, r) \o emit_mul(l, "32x32", 4, r)
    \o emit_mul(lo, "32x32", 5, reg_none)
    \o (IF high THEN emit_mul(hi, "32x32", 6, reg_none) ELSE wrp_immed(hi, 0))
wrp_mul_u16(lo, l, r) ==
    emit_mul(l, "start", 0, r)
    \o emit_mul(l, "16x16", 1, r) \o emit_mul(l, "16x16", 2, r)
    \o emit_mul(lo, "16x16", 5, reg_none)
wrp_mul(i) ==
    LET imm == Low(i.imm)
        r == IF i.x THEN reg_b(Src(i)) ELSE ur_load_imm_any(imm, imm_b)
        rmax == IF i.x THEN i.umax ELSE imm
        lo == reg_both(Dst(i))
        l == reg_a(Dst(i))
    IN  (IF i.x THEN <<>> ELSE ur_load(imm, imm_b))
        \o (IF i.umaxd >= HalfSize \/ rmax >= HalfSize
            THEN wrp_mul_u32(reg_both(Dst(i) + 1), lo, l, r, i.cls = "alu64")
            ELSE wrp_mul_u16(lo, l, r))

\* reciprocal_value_adv(): d is at most half the word range.
CeilLog2(d) == CHOOSE l \in 0 .. WordBits : 2 ^ l >= d /\ (l = 0 \/ 2 ^ (l - 1) < d)
reciprocal_value_adv(d, prec) ==
    LET l == CeilLog2(d)
        mlow == 2 ^ (WordBits + l) \div d
        mhigh == (2 ^ (WordBits + l) + 2 ^ (WordBits + l - prec)) \div d
        \* the loop halves both bounds as long as a number lies between them
        cut == CHOOSE k \in 0 .. l :
                  /\ \A j \in 1 .. k : mlow \div 2 ^ j < mhigh \div 2 ^ j
                  /\ k = l \/ mlow \div 2 ^ (k + 1) >= mhigh \div 2 ^ (k + 1)
    IN  [m |-> (mhigh \div 2 ^ cut) % WordSize, sh |-> l - cut, exp |-> l,
         wide |-> mhigh \div 2 ^ cut > AllOnes]
TrailingZeros(n) == CHOOSE k \in 0 .. WordBits : n % 2 ^ k = 0 /\ n % 2 ^ (k + 1) # 0

shf_right(dst, n) == emit_shf(reg_both(dst), reg_none, "none", reg_a(dst), "right", n)
wrp_div_imm(dst, imm) ==
    IF imm > AllOnes THEN wrp_immed(reg_both(dst), 0)
    ELSE IF imm > WordSize \div 2
    THEN ur_load(imm, imm_b)
         \o emit_alu(reg_none, reg_a(dst), "sub", ur_load_imm_any(imm, imm_b))
         \o wrp_immed(imm_a, 0)
         \o emit_alu(reg_both(dst), imm_a, "add_c", reg_imm(0))
    ELSE LET first == reciprocal_value_adv(imm, WordBits)
             pre == IF first.wide /\ imm % 2 = 0 THEN TrailingZeros(imm) ELSE 0
             rv == IF pre = 0 THEN first ELSE reciprocal_value_adv(imm \div 2 ^ pre, WordBits - pre)
             magic == ur_load_imm_any(rv.m, imm_b)
             both == reg_both(dst)
         IN  ur_load(rv.m, imm_b)
             \o CASE imm = 2 ^ first.exp -> shf_right(dst, first.exp)
                  [] imm # 2 ^ first.exp /\ rv.wide ->
                        wrp_mul_u32(imm_both, reg_none, reg_a(dst), magic, TRUE)
                        \o emit_alu(both, reg_a(dst), "sub", imm_b)
                        \o shf_right(dst, 1)
                        \o emit_alu(both, reg_a(dst), "add", imm_b)
                        \o shf_right(dst, rv.sh - 1)
                  [] OTHER ->
                        (IF pre # 0 THEN shf_right(dst, pre) ELSE <<>>)
                        \o wrp_mul_u32(both, reg_none, reg_a(dst), magic, TRUE)
                        \o shf_right(dst, rv.sh)
div(i) == wrp_div_imm(Dst(i), IF i.x THEN i.umin ELSE i.imm)

-----------------------------------------------------------------------------
\* Shifts of a register pair by a constant.
shl_imm64(dst, n) ==
    CASE n = 0 -> <<>>
      [] n \in 1 .. WordBits - 1 ->
            emit_shf(reg_both(dst + 1), reg_a(dst + 1), "none", reg_b(dst), "dshf", WordBits - n)
            \o emit_shf(reg_both(dst), reg_none, "none", reg_b(dst), "left", n)
      [] n = WordBits -> wrp_reg_mov(dst + 1, dst) \o wrp_immed(reg_both(dst), 0)
      [] OTHER -> emit_shf(reg_both(dst + 1), reg_none, "none", reg_b(dst), "left", n - WordBits)
                  \o wrp_immed(reg_both(dst), 0)
shr_imm64(dst, n) ==
    CASE n = 0 -> <<>>
      [] n \in 1 .. WordBits - 1 ->
            emit_shf(reg_both(dst), reg_a(dst + 1), "none", reg_b(dst), "dshf", n)
            \o emit_shf(reg_both(dst + 1), reg_none, "none", reg_b(dst + 1), "right", n)
      [] n = WordBits -> wrp_reg_mov(dst, dst + 1) \o wrp_immed(reg_both(dst + 1), 0)
      [] OTHER -> emit_shf(reg_both(dst), reg_none, "none", reg_b(dst + 1), "right", n - WordBits)
                  \o wrp_immed(reg_both(dst + 1), 0)
set_sign(dst) == emit_alu(reg_none, reg_a(dst), "or", reg_imm(0))
sign_word(dst) == emit_shf(reg_both(dst), reg_none, "ashr", reg_b(dst), "right", WordBits - 1)
ashr_imm64(dst, n) ==
    CASE n = 0 -> <<>>
      [] n \in 1 .. WordBits - 1 ->
            emit_shf(reg_both(dst), reg_a(dst + 1), "none", reg_b(dst), "dshf", n)
            \o set_sign(dst + 1)
            \o emit_shf(reg_both(dst + 1), reg_none, "ashr", reg_b(dst + 1), "right", n)
      [] n = WordBits -> wrp_reg_mov(dst, dst + 1) \o sign_word(dst + 1)
      [] OTHER -> set_sign(dst + 1)
                  \o emit_shf(reg_both(dst), reg_none, "ashr", reg_b(dst + 1), "right", n - WordBits)
                  \o sign_word(dst + 1)

\* Shifts by a register: the count is set by an alu instruction first.
set_count(src) == emit_alu(reg_none, reg_a(src), "or", reg_imm(0))
shl_lt32_high(dst, src) ==
    emit_alu(imm_both, reg_imm(WordBits), "sub", reg_b(src))
    \o emit_alu(reg_none, imm_a, "or", reg_imm(0))
    \o emit_shf_indir(reg_both(dst + 1), reg_a(dst + 1), "none", reg_b(dst), "dshf")
shl_lt32_low(dst, src) ==
    set_count(src) \o emit_shf_indir(reg_both(dst), reg_none, "none", reg_b(dst), "left")
shl_ge32(dst, src) ==
    set_count(src) \o emit_shf_indir(reg_both(dst + 1), reg_none, "none", reg_b(dst), "left")
    \o wrp_immed(reg_both(dst), 0)
shr_lt32_high(dst, src) ==
    set_count(src) \o emit_shf_indir(reg_both(dst + 1), reg_none, "none", reg_b(dst + 1), "right")
shr_lt32_low(dst, src) ==
    set_count(src) \o emit_shf_indir(reg_both(dst), reg_a(dst + 1), "none", reg_b(dst), "dshf")
shr_ge32(dst, src) ==
    set_count(src) \o emit_shf_indir(reg_both(dst), reg_none, "none", reg_b(dst + 1), "right")
    \o wrp_immed(reg_both(dst + 1), 0)
ashr_lt32_high(dst, src) ==
    emit_alu(reg_none, reg_a(src), "or", reg_b(dst + 1))
    \o emit_shf_indir(reg_both(dst + 1), reg_none, "ashr", reg_b(dst + 1), "right")
ashr_ge32(dst, src) ==
    emit_alu(reg_none, reg_a(src), "or", reg_b(dst + 1))
    \o emit_shf_indir(reg_both(dst), reg_none, "ashr", reg_b(dst + 1), "right")
    \o sign_word(dst + 1)

\* Both cases, chosen by the bit of the count that says a word or more; the
\* second half of the short shift sits in the delay slots of the branch.
EitherShift(src, label_ge32, first, second, ge32) ==
    LET label_end == 1 + Len(first) + 6
        head == emit_br_bset(reg_a(src), CeilLog2(WordBits), label_ge32, 0)
                \o first \o emit_br("unc", label_end, 2) \o second
    IN  Confirmed(Confirmed(head, label_ge32, ge32), label_end, <<>>)

shl_reg64(i) ==
    LET dst == Dst(i)  src == Src(i) IN
    CASE i.umin = i.umax -> shl_imm64(dst, i.umin)
      [] i.umin # i.umax /\ i.umax < WordBits -> shl_lt32_high(dst, src) \o shl_lt32_low(dst, src)
      [] i.umin # i.umax /\ i.umax >= WordBits /\ i.umin >= WordBits -> shl_ge32(dst, src)
      [] OTHER -> EitherShift(src, 7, shl_lt32_high(dst, src), shl_lt32_low(dst, src), shl_ge32(dst, src))
shr_reg64(i) ==
    LET dst == Dst(i)  src == Src(i) IN
    CASE i.umin = i.umax -> shr_imm64(dst, i.umin)
      [] i.umin # i.umax /\ i.umax < WordBits -> shr_lt32_low(dst, src) \o shr_lt32_high(dst, src)
      [] i.umin # i.umax /\ i.umax >= WordBits /\ i.umin >= WordBits -> shr_ge32(dst, src)
      [] OTHER -> EitherShift(src, 6, shr_lt32_low(dst, src), shr_lt32_high(dst, src), shr_ge32(dst, src))
ashr_reg64(i) ==
    LET dst == Dst(i)  src == Src(i) IN
    CASE i.umin = i.umax -> ashr_imm64(dst, i.umin)
      [] i.umin # i.umax /\ i.umax < WordBits -> shr_lt32_low(dst, src) \o ashr_lt32_high(dst, src)
      [] i.umin # i.umax /\ i.umax >= WordBits /\ i.umin >= WordBits -> ashr_ge32(dst, src)
      [] OTHER -> EitherShift(src, 6, shr_lt32_low(dst, src), ashr_lt32_high(dst, src), ashr_ge32(dst, src))
shift64(i) ==
    CASE i.op = "shl" -> IF i.x THEN shl_reg64(i) ELSE shl_imm64(Dst(i), i.imm)
      [] i.op = "shr" -> IF i.x THEN shr_reg64(i) ELSE shr_imm64(Dst(i), i.imm)
      [] i.op = "ashr" -> IF i.x THEN ashr_reg64(i) ELSE ashr_imm64(Dst(i), i.imm)

\* The 32 bit shifts.
ShiftWord(dst, op, n) ==
    IF n = 0 THEN <<>>
    ELSE (IF op = "ashr" THEN set_sign(dst) ELSE <<>>)
         \o emit_shf(reg_both(dst), reg_none, IF op = "ashr" THEN "ashr" ELSE "none", reg_b(dst),
                     IF op = "shl" THEN "left" ELSE "right", n)
shift32(i) ==
    LET dst == Dst(i) IN
    (CASE ~i.x -> ShiftWord(dst, i.op, i.imm)
       [] i.x /\ i.umin = i.umax -> ShiftWord(dst, i.op, i.umin)
       [] i.x /\ i.umin # i.umax /\ i.op = "shl" -> shl_lt32_low(dst, Src(i))
       [] i.x /\ i.umin # i.umax /\ i.op = "shr" ->
            set_count(Src(i)) \o emit_shf_indir(reg_both(dst), reg_none, "none", reg_b(dst), "right")
       [] i.x /\ i.umin # i.umax /\ i.op = "ashr" ->
            emit_alu(reg_none, reg_a(Src(i)), "or", reg_b(dst))
            \o emit_shf_indir(reg_both(dst), reg_none, "ashr", reg_b(dst), "right"))
    \o wrp_zext(i.zext, dst)

-----------------------------------------------------------------------------
\* Byte order.
wrp_end32(in, out) ==
    emit_ld_field(reg_both(out), 0 .. 3, in, "rot", ByteBits)
    \o emit_ld_field(reg_both(out), {0, 2}, reg_a(out), "rot", HalfBits)
end_reg32(i) ==
    LET gpr == Dst(i) IN
    CASE i.imm = 16 ->
            emit_ld_field(reg_both(gpr), {0, 3}, reg_b(gpr), "rot", ByteBits)
            \o emit_ld_field(reg_both(gpr), {1, 2, 3}, reg_a(gpr), "right", HalfBits)
            \o wrp_immed(reg_both(gpr + 1), 0)
      [] i.imm = 32 -> wrp_end32(reg_a(gpr), gpr) \o wrp_immed(reg_both(gpr + 1), 0)
      [] i.imm = 64 -> wrp_mov(imm_a, reg_b(gpr + 1))
                       \o wrp_end32(reg_a(gpr), gpr + 1) \o wrp_end32(imm_a, gpr)

-----------------------------------------------------------------------------
\* Where a branch goes besides the labels of the code around it: the target
\* of the BPF jump, the abort target.
BrTaken == -1
GoAbort == -2

Is64(i) == i.cls = "jmp"

-----------------------------------------------------------------------------
\* Comparisons: the flags of a subtraction, in one order or the other.
jmp_code_map(op) ==
    CASE op = "jgt" -> [mask |-> "blo", swap |-> TRUE]
      [] op = "jge" -> [mask |-> "bhs", swap |-> FALSE]
      [] op = "jlt" -> [mask |-> "blo", swap |-> FALSE]
      [] op = "jle" -> [mask |-> "bhs", swap |-> TRUE]
      [] op = "jsgt" -> [mask |-> "blt", swap |-> TRUE]
      [] op = "jsge" -> [mask |-> "bge", swap |-> FALSE]
      [] op = "jslt" -> [mask |-> "blt", swap |-> FALSE]
      [] op = "jsle" -> [mask |-> "bge", swap |-> TRUE]

cmp_imm(i) ==
    LET code == jmp_code_map(i.op)
        alu == IF i.neg THEN "add" ELSE "sub"
        carry == IF i.neg THEN "add_c" ELSE "sub_c"
        one(reg, op, imm) ==
            LET t == ur_load_imm_any(imm, imm_b) IN
            ur_load(imm, imm_b)
            \o (IF code.swap THEN emit_alu(reg_none, t, op, reg_a(reg))
                             ELSE emit_alu(reg_none, reg_a(reg), op, t))
    IN  one(Dst(i), alu, Low(i.imm))
        \o (IF Is64(i) THEN one(Dst(i) + 1, carry, High(i.imm)) ELSE <<>>)
        \o emit_br(code.mask, BrTaken, 0)
cmp_reg(i) ==
    LET code == jmp_code_map(i.op)
        l == IF code.swap THEN Src(i) ELSE Dst(i)
        r == IF code.swap THEN Dst(i) ELSE Src(i)
    IN  emit_alu(reg_none, reg_a(l), "sub", reg_b(r))
        \o (IF Is64(i) THEN emit_alu(reg_none, reg_a(l + 1), "sub_c", reg_b(r + 1)) ELSE <<>>)
        \o emit_br(code.mask, BrTaken, 0)

jeq_imm(i) ==
    LET lo == Low(i.imm)  hi == High(i.imm)
        or1 == IF lo # 0 THEN imm_a ELSE reg_a(Dst(i))
        or2 == IF hi # 0 THEN imm_b ELSE reg_b(Dst(i) + 1)
    IN  (IF lo # 0 THEN ur_load(lo, imm_b)
                        \o emit_alu(imm_a, reg_a(Dst(i)), "xor", ur_load_imm_any(lo, imm_b))
                   ELSE <<>>)
        \o (IF hi # 0 THEN ur_load(hi, imm_b)
                           \o emit_alu(imm_b, reg_a(Dst(i) + 1), "xor", ur_load_imm_any(hi, imm_b))
                      ELSE <<>>)
        \o emit_alu(reg_none, or1, "or", or2)
        \o emit_br("beq", BrTaken, 0)
jeq32_imm(i) ==
    ur_load(Low(i.imm), imm_b)
    \o emit_alu(reg_none, reg_a(Dst(i)), "xor", ur_load_imm_any(Low(i.imm), imm_b))
    \o emit_br("beq", BrTaken, 0)
jset_imm(i) ==
    ur_load(Low(i.imm), imm_b)
    \o emit_alu(imm_b, reg_a(Dst(i)), "and", ur_load_imm_any(Low(i.imm), imm_b))
    \o (IF Is64(i) /\ i.imm < 0 THEN emit_alu(reg_none, reg_a(Dst(i) + 1), "or", imm_b) ELSE <<>>)
    \o emit_br("bne", BrTaken, 0)
jne_imm(i) ==
    LET one(reg, imm) ==
            ur_load(imm, imm_b)
            \o emit_alu(reg_none, reg_a(reg), "xor", ur_load_imm_any(imm, imm_b))
            \o emit_br("bne", BrTaken, 0)
    IN  CASE i.imm = 0 /\ Is64(i) ->
                emit_alu(reg_none, reg_a(Dst(i)), "or", reg_b(Dst(i) + 1)) \o emit_br("bne", BrTaken, 0)
          [] i.imm = 0 /\ ~Is64(i) ->
                emit_alu(reg_none, reg_none, "none", reg_b(Dst(i))) \o emit_br("bne", BrTaken, 0)
          [] i.imm # 0 -> one(Dst(i), Low(i.imm)) \o (IF Is64(i) THEN one(Dst(i) + 1, High(i.imm)) ELSE <<>>)
jeq_reg(i) ==
    emit_alu(imm_a, reg_a(Dst(i)), "xor", reg_b(Src(i)))
    \o (IF Is64(i) THEN emit_alu(imm_b, reg_a(Dst(i) + 1), "xor", reg_b(Src(i) + 1))
                        \o emit_alu(reg_none, imm_a, "or", imm_b)
                   ELSE <<>>)
    \o emit_br("beq", BrTaken, 0)
\* wrp_test_reg(), for jset and jne
wrp_test_reg(i, op) ==
    LET one(d, s) == emit_alu(reg_none, reg_a(d), op, reg_b(s)) \o emit_br("bne", BrTaken, 0)
    IN  one(Dst(i), Src(i)) \o (IF Is64(i) THEN one(Dst(i) + 1, Src(i) + 1) ELSE <<>>)

Jump(i) ==
    CASE i.op = "jeq" /\ i.x -> jeq_reg(i)
      [] i.op = "jeq" /\ ~i.x /\ Is64(i) -> jeq_imm(i)
      [] i.op = "jeq" /\ ~i.x /\ ~Is64(i) -> jeq32_imm(i)
      [] i.op = "jset" -> IF i.x THEN wrp_test_reg(i, "and") ELSE jset_imm(i)
      [] i.op = "jne" -> IF i.x THEN wrp_test_reg(i, "xor") ELSE jne_imm(i)
      [] OTHER -> IF i.x THEN cmp_reg(i) ELSE cmp_imm(i)

-----------------------------------------------------------------------------
\* Packet loads of a cBPF program: the length is checked, then the data is read.
data_ld(offset, size) == emit_cmd("read8", 32, 0, pptr_reg, offset, size - 1)
construct_data_ld(i) ==
    LET off == i.imm % HalfSize IN
    ur_load(off + i.size, imm_a)
    \o emit_alu(reg_none, plen_reg, "sub", ur_load_imm_any(off + i.size, imm_a))
    \o emit_br("blo", GoAbort, 0)
    \o re_load(off, imm_b)
    \o data_ld(re_load_imm_any(off, imm_b), i.size)
construct_data_ind_ld(i) ==
    LET off == i.imm % HalfSize IN
    ur_load(off, imm_b)
    \o emit_alu(imm_both, reg_a(Src(i)), "add", ur_load_imm_any(off, imm_b))
    \o emit_alu(imm_a, imm_a, "add", reg_imm(i.size))
    \o emit_alu(reg_none, plen_reg, "sub", imm_a)
    \o emit_br("blo", GoAbort, 0)
    \o data_ld(imm_b, i.size)

\* Helpers.  The result of a helper is in r0, its argument in r2.
ReturnZero == wrp_immed(reg_both(0), 0) \o wrp_immed(reg_both(1), 0)
ReturnEinval == wrp_immed(reg_both(0), WordSize - Einval) \o wrp_immed(reg_both(1), AllOnes)
Delta == reg_a(4)
adjust_head(i) ==
    IF i.only
    THEN emit_alu(pptr_reg, Delta, "add", pptr_reg)
         \o emit_alu(plen_reg, plen_reg, "sub", Delta)
         \o emit_alu(pv_len, pv_len, "sub", Delta)
         \o ReturnZero
    ELSE LET ret_einval == 14
             end == ret_einval + 2
             body == emit_alu(imm_a, Delta, "add_2b", pptr_reg)
                     \o emit_alu(reg_none, imm_a, "sub", reg_imm(OffMin))
                     \o emit_br("blo", ret_einval, 0)
                     \o emit_alu(reg_none, reg_imm(OffMax), "sub", imm_a)
                     \o emit_br("blo", ret_einval, 0)
                     \o emit_alu(imm_b, plen_reg, "sub", Delta)
                     \o emit_alu(reg_none, imm_b, "sub", reg_imm(EthHlen))
                     \o emit_br("bmi", ret_einval, 0)
                     \o ReturnZero
                     \o emit_ld_field(pptr_reg, {0, 1}, imm_a, "none", 0)
                     \o emit_br("unc", end, 2)
                     \o emit_alu(plen_reg, plen_reg, "sub", Delta)
                     \o emit_alu(pv_len, pv_len, "sub", Delta)
         IN  Confirmed(Confirmed(body, ret_einval, ReturnEinval), end, <<>>)
adjust_tail(i) ==
    LET body == emit_alu(imm_a, plen_reg, "add", Delta)
                \o emit_br("bcc", 9, 0)
                \o emit_alu(reg_none, imm_a, "sub", reg_imm(EthHlen))
                \o emit_br("bmi", 9, 0)
                \o emit_alu(plen_reg, plen_reg, "add", Delta)
                \o emit_alu(pv_len, pv_len, "add", Delta)
                \o emit_br("unc", 11, 2)
                \o ReturnZero
    IN  Confirmed(Confirmed(body, 9, ReturnEinval), 11, <<>>)
nfp_queue_select(i) ==
    Confirmed(emit_alu(reg_none, reg_a(Src(i)), "and_not_b", reg_imm(ByteSize - 1))
              \o emit_br("beq", 5, 2)
              \o emit_shf(pv_qsel_set, pv_qsel_set, "or", reg_imm(1), "left", 4)
              \o emit_ld_field(pv_qsel_val, {0}, reg_b(Src(i)), "none", 0)
              \o emit_ld_field(pv_qsel_val, {0}, reg_imm(QueueNone), "none", 0),
              5, <<>>)

\* Atomic addition: a command with a half word immediate, one with the value
\* in transfer registers, or a choice between them when the code runs.
mem_xadd(i) ==
    LET is64 == i.cls = "xadd64"
        n(c, k) == IF c THEN k ELSE 0
        both == i.maybe16 /\ i.over16
        load == ur_load(Low(i.imm), imm_b)
        off == i.imm # 0
        start == Len(load)
        full_add == start + n(off, 2) + n(i.maybe16, 3) + n(both, 5)
        out == full_add + n(i.over16, IF is64 THEN 3 ELSE 2)
        addra == IF off THEN imma_a ELSE reg_a(Dst(i))
        addrb == IF off THEN imma_b ELSE reg_b(Dst(i) + 1)
        choose == IF both THEN wrp_immed(imm_a, HalfSize - 1)
                               \o emit_alu(reg_none, imm_a, "sub", reg_b(Src(i)))
                               \o emit_alu(reg_none, reg_imm(0), "sub_c", reg_b(Src(i) + 1))
                               \o emit_br("blo", full_add, n(off, 2))
                          ELSE <<>>
        address == IF off THEN emit_alu(imma_a, reg_a(Dst(i)), "add", ur_load_imm_any(Low(i.imm), imm_b))
                               \o emit_alu(imma_b, reg_a(Dst(i) + 1), "add_c", reg_imm(0))
                          ELSE <<>>
        short == IF i.maybe16 THEN wrp_immed(imm_a, 2 + n(is64, 1))
                                   \o wrp_reg_or_subpart(imm_a, reg_b(Src(i)), 2, 2)
                                   \o emit_cmd_any("add_imm", 40, 0, addra, addrb, 0, TRUE)
                                   \o (IF i.over16 THEN emit_br("unc", out, 0) ELSE <<>>)
                              ELSE <<>>
        long == IF i.over16 THEN emit_cmd("add", 40, 0, addra, addrb, n(is64, 4))
                                 \o wrp_mov(reg_xfer(0), reg_a(Src(i)))
                                 \o (IF is64 THEN wrp_mov(reg_xfer(1), reg_a(Src(i) + 1)) ELSE <<>>)
                            ELSE <<>>
    IN  Confirmed(Confirmed(load \o choose \o address \o short, full_add, long), out, <<>>)

-----------------------------------------------------------------------------
\* instr_cb[]
Callback(i) ==
    CASE i.cls = "alu64" /\ i.op = "mov" -> mov64(i)
      [] i.cls = "alu64" /\ i.op \in {"and", "or", "xor"} -> logic64(i)
      [] i.cls = "alu64" /\ i.op \in {"add", "sub"} -> addsub64(i)
      [] i.cls = "alu64" /\ i.op = "neg" -> neg64(i)
      [] i.cls = "alu64" /\ i.op \in {"shl", "shr", "ashr"} -> shift64(i)
      [] i.cls \in {"alu64", "alu"} /\ i.op = "mul" -> wrp_mul(i)
      [] i.cls \in {"alu64", "alu"} /\ i.op = "div" -> div(i)
      [] i.cls = "alu" /\ i.op = "mov" -> mov32(i)
      [] i.cls = "alu" /\ i.op \in {"and", "or", "xor", "add", "sub"} -> wrp_alu32(i)
      [] i.cls = "alu" /\ i.op = "neg" -> neg32(i)
      [] i.cls = "alu" /\ i.op \in {"shl", "shr", "ashr"} -> shift32(i)
      [] i.cls = "alu" /\ i.op = "end" -> end_reg32(i)
      [] i.cls = "ldimm" -> imm_ld8(i)
      [] i.cls \in {"jmp", "jmp32"} -> Jump(i)
      [] i.cls = "ldabs" -> construct_data_ld(i)
      [] i.cls = "ldind" -> construct_data_ind_ld(i)
      [] i.cls \in {"xadd", "xadd64"} -> mem_xadd(i)
      [] i.cls = "head" -> adjust_head(i)
      [] i.cls = "tail" -> adjust_tail(i)
      [] i.cls = "queue" -> nfp_queue_select(i)

\* nfp_bpf_opt_neg_add_sub(): the negation of the smallest s32 is itself.
Negated(imm) == IF imm = -(WordSize \div 2) THEN imm ELSE -imm
nfp_bpf_opt_neg_add_sub(i) ==
    CASE i.x \/ i.imm >= 0 -> i
      [] ~i.x /\ i.imm < 0 /\ i.cls \in {"jmp", "jmp32"} /\ i.op \in {"jge", "jsge", "jlt", "jslt"} ->
            [i EXCEPT !.imm = Negated(@), !.neg = TRUE]
      [] ~i.x /\ i.imm < 0 /\ i.cls \in {"alu64", "alu"} /\ i.op \in {"add", "sub"} ->
            [i EXCEPT !.imm = Negated(@), !.op = IF @ = "add" THEN "sub" ELSE "add"]
      [] OTHER -> i

\* What nfp_bpf_check_alu() left: umax and umaxd cover what the registers can hold.
RangesSeen(i) ==
    /\ i.op \in {"mul", "div"} => i.umaxd <= AllOnes
    /\ i.op = "mul" => IF i.x THEN i.umax <= AllOnes ELSE i.cls = "alu64" => i.imm >= 0
    /\ i.op = "div" => IF i.x THEN i.umin = i.umax /\ i.umax <= AllOnes ELSE i.imm >= 0

-----------------------------------------------------------------------------
\* The inputs.  A double word stands for the 64 bits of a BPF register.
DoubleSize == WordSize * WordSize
SignExtended(imm) == imm % DoubleSize
Insn(cls, op) ==
    [cls |-> cls, op |-> op, x |-> FALSE, imm |-> 0, dst |-> 0, src |-> 1, zext |-> FALSE,
     umin |-> 0, umax |-> DoubleSize - 1, umaxd |-> DoubleSize - 1, neg |-> FALSE, hi |-> 0,
     size |-> 1, only |-> FALSE, maybe16 |-> FALSE, over16 |-> FALSE]
\* With a register, which may be dst itself, or with an immediate.
Sourced(I) ==
    {[i EXCEPT !.x = TRUE, !.src = s] : i \in I, s \in {0, 1}}
    \cup {[i EXCEPT !.imm = k] : i \in I, k \in JitImms}
Zexted(I) == {[i EXCEPT !.zext = z] : i \in I, z \in BOOLEAN}
Simple == {"mov", "and", "or", "xor", "add", "sub"}
Bound(max) == {HalfSize - 1, AllOnes, DoubleSize - 1} \cap 0 .. max
ShiftRanges == {<<n, n>> : n \in 0 .. 2 * WordBits - 1}
               \cup {<<0, WordBits - 1>>, <<WordBits, 2 * WordBits - 1>>, <<0, 2 * WordBits - 1>>}
ShiftInsns ==
    {[Insn("alu64", o) EXCEPT !.imm = n] : o \in {"shl", "shr", "ashr"}, n \in 0 .. 2 * WordBits - 1}
    \cup {[Insn("alu64", o) EXCEPT !.x = TRUE, !.umin = u[1], !.umax = u[2]] :
            o \in {"shl", "shr", "ashr"}, u \in ShiftRanges}
    \cup Zexted({[Insn("alu", o) EXCEPT !.imm = n] : o \in {"shl", "shr", "ashr"}, n \in 0 .. WordBits - 1})
    \cup Zexted({[Insn("alu", o) EXCEPT !.x = TRUE, !.umin = u[1], !.umax = u[2]] :
            o \in {"shl", "shr", "ashr"}, u \in {v \in ShiftRanges : v[2] < WordBits}})
MulDivInsns ==
    {[i EXCEPT !.umaxd = d] : d \in Bound(DoubleSize),
        i \in {[Insn(c, "mul") EXCEPT !.imm = k] : c \in {"alu64", "alu"}, k \in JitImms}
              \cup {[Insn(c, "mul") EXCEPT !.x = TRUE, !.umax = u] : c \in {"alu64", "alu"}, u \in Bound(DoubleSize)}}
    \cup {[Insn("alu64", "div") EXCEPT !.imm = k, !.umaxd = d] : k \in 1 .. (WordSize \div 2) - 1, d \in {AllOnes, DoubleSize - 1}}
    \cup {[Insn("alu", "div") EXCEPT !.x = TRUE, !.umin = v, !.umax = v, !.umaxd = AllOnes] : v \in JitValues}
JumpInsns == Sourced({Insn(c, o) : c \in {"jmp", "jmp32"},
                      o \in {"jeq", "jne", "jset", "jgt", "jge", "jlt", "jle", "jsgt", "jsge", "jslt", "jsle"}})
PacketInsns ==
    {[Insn(c, "") EXCEPT !.imm = k, !.size = z] : c \in {"ldabs", "ldind"}, z \in {1, 2, 4}, k \in {0, 1, 5}}
    \cup {[Insn("head", "") EXCEPT !.dst = 2, !.only = o] : o \in BOOLEAN}
    \cup {[Insn("tail", "") EXCEPT !.dst = 2], Insn("queue", "")}
    \cup {[Insn(c, "") EXCEPT !.x = TRUE, !.imm = k, !.maybe16 = w[1], !.over16 = w[2]] :
            c \in {"xadd", "xadd64"}, k \in {0, 5, OperandMax + 5},
            w \in {<<TRUE, FALSE>>, <<FALSE, TRUE>>, <<TRUE, TRUE>>}}
JitInsns ==
    Sourced({Insn("alu64", o) : o \in Simple}) \cup Zexted(Sourced({Insn("alu", o) : o \in Simple}))
    \cup {Insn("alu64", "neg")} \cup Zexted({Insn("alu", "neg")})
    \cup {[Insn("alu64", "mov") EXCEPT !.x = TRUE, !.src = 10]}
    \cup {[Insn("alu", "end") EXCEPT !.imm = k] : k \in {16, 32, 64}}
    \cup {[Insn("ldimm", "") EXCEPT !.imm = k, !.hi = h] : k \in JitImms, h \in JitImms}
    \cup ShiftInsns \cup MulDivInsns \cup JumpInsns \cup PacketInsns

UsesPacket(i) == i.cls \in {"ldabs", "ldind", "head", "tail"}
UsesSource(i) == i.x \/ i.cls \in {"ldind", "queue"}
ToSigned(v, size) == IF v >= size \div 2 THEN v - size ELSE v
\* What the verifier and its hooks guarantee: the bounds hold, a divisor is
\* not 0, a shift count is smaller than the register (nfp_bpf_check_alu(),
\* nfp_record_adjust_head(), nfp_bpf_check_atomic()).
Accepted(i, r) ==
    /\ RangesSeen(i)
    /\ r.d <= i.umaxd
    /\ IF ~UsesSource(i) THEN r.s = 0 ELSE IF i.src = i.dst THEN r.s = r.d ELSE r.s \in i.umin .. i.umax
    /\ i.op = "div" => IF i.x THEN i.umin # 0 ELSE i.imm # 0
    /\ ~UsesPacket(i) => r.plen = EthHlen
    /\ i.only => /\ r.plen >= EthZlen
                 /\ ToSigned(r.d, DoubleSize) \in -GuaranteedSub .. GuaranteedAdd
                 /\ ToSigned(r.d, DoubleSize) <= EthZlen - EthHlen
    /\ i.cls \in {"head", "tail"} => ToSigned(r.d, DoubleSize) \in -(WordSize \div 2) .. (WordSize \div 2) - 1
    /\ i.cls = "xadd" => r.s <= AllOnes
    /\ i.cls \in {"xadd", "xadd64"} /\ r.s >= HalfSize => i.over16
    /\ i.cls \in {"xadd", "xadd64"} /\ r.s < HalfSize => i.maybe16
    /\ i.cls = "ldind" => r.s + i.imm + i.size <= AllOnes

GeneralRegs == {0, 1, 2, 3, 4, 5, 20, 21, 22}
PacketStart == HalfSize + OffMin + 1
StackBase == 3
Load(i, r) ==
    LET gpr == [k \in GeneralRegs |->
                  CASE k = Dst(i) -> r.d % WordSize
                    [] k = Dst(i) + 1 -> r.d \div WordSize
                    [] k = Src(i) /\ i.src # i.dst -> r.s % WordSize
                    [] k = Src(i) + 1 /\ i.src # i.dst -> r.s \div WordSize
                    [] OTHER -> 7]
    IN  [a |-> [gpr EXCEPT ![22] = StackBase], b |-> [gpr EXCEPT ![22] = r.plen],
         lm |-> [k \in {0, 2, 4, 6} |-> CASE k = 0 -> r.plen [] k = 2 -> PacketStart [] OTHER -> 0],
         x |-> [k \in {0, 1} |-> 0],
         c |-> TRUE, n |-> TRUE, z |-> FALSE, v |-> TRUE, pa |-> 3, pr |-> AllOnes,
         mul |-> [l |-> 0, r |-> 0, steps |-> 0], pc |-> 0, pend |-> NoBranch,
         mem |-> <<AllOnes - 2, 5>>, cmds |-> <<>>]

\* Where the machine stands before the code runs, and what it runs.
JitInit ==
    \E i \in JitInsns, r \in [d : JitValues, s : JitValues, plen : JitLengths] :
        /\ Accepted(i, r)
        /\ jinsn = i /\ jregs = r /\ jcode = <<>> /\ jm = Load(i, r) /\ jpc = "new"
JitTranslate ==
    /\ jpc = "new"
    /\ jcode' = Callback(nfp_bpf_opt_neg_add_sub(jinsn))
    /\ jpc' = IF \E k \in 1 .. Len(jcode') : jcode'[k] = Bad[1] THEN "refused" ELSE "run"
    /\ UNCHANGED <<jinsn, jregs, jm>>
JitExecute ==
    /\ jpc = "run"
    /\ jm.pc \in 0 .. Len(jcode) - 1
    /\ jm' = Execute(jm, jcode)
    /\ UNCHANGED <<jinsn, jregs, jcode, jpc>>
\* The end of the code.  The add command has read the transfer registers once
\* the instructions behind it are through.
JitEnd ==
    /\ jpc = "run"
    /\ jm.pc \notin 0 .. Len(jcode) - 1
    /\ jpc' = "done"
    /\ jm' = Pulled(jm)
    /\ UNCHANGED <<jinsn, jregs, jcode>>
JitNext == JitTranslate \/ JitExecute \/ JitEnd

-----------------------------------------------------------------------------
\* What the instructions mean, on whole registers.
Bitwise2(table, d, s) ==
    Wide(table[<<d % WordSize, s % WordSize>>], table[<<d \div WordSize, s \div WordSize>>])
Lsh(v, n, bits) == (v % 2 ^ (bits - n)) * 2 ^ n
Arsh(v, n, bits) ==
    v \div 2 ^ n + (IF v >= 2 ^ (bits - 1) THEN 2 ^ bits - 2 ^ (bits - n) ELSE 0)
Arith(op, d, s, bits) ==
    LET size == 2 ^ bits IN
    CASE op = "mov" -> s
      [] op = "and" -> Bitwise2(AndTable, d, s)
      [] op = "or" -> Bitwise2(OrTable, d, s)
      [] op = "xor" -> Bitwise2(XorTable, d, s)
      [] op = "add" -> (d + s) % size
      [] op = "sub" -> (d - s) % size
      [] op = "neg" -> (-d) % size
      [] op = "mul" -> (d * s) % size
      [] op = "div" -> d \div s
      [] op = "shl" -> Lsh(d, s, bits)
      [] op = "shr" -> d \div 2 ^ s
      [] op = "ashr" -> Arsh(d, s, bits)
Reversed(v, bytes) ==
    LET b(k) == ((v \div ByteSize ^ k) % ByteSize) * ByteSize ^ (bytes - 1 - k)
    IN  IF bytes = 2 THEN b(0) + b(1)
        ELSE b(0) + b(1) + b(2) + b(3) + (IF bytes = 8 THEN b(4) + b(5) + b(6) + b(7) ELSE 0)
Holds(op, d, s, size) ==
    CASE op = "jeq" -> d = s
      [] op = "jne" -> d # s
      [] op = "jset" -> Bitwise2(AndTable, d, s) # 0
      [] op = "jgt" -> d > s
      [] op = "jge" -> d >= s
      [] op = "jlt" -> d < s
      [] op = "jle" -> d <= s
      [] op = "jsgt" -> ToSigned(d, size) > ToSigned(s, size)
      [] op = "jsge" -> ToSigned(d, size) >= ToSigned(s, size)
      [] op = "jslt" -> ToSigned(d, size) < ToSigned(s, size)
      [] op = "jsle" -> ToSigned(d, size) <= ToSigned(s, size)

BpfReg(m, n) == Wide(m.a[2 * n], m.a[2 * n + 1])
Source == IF jinsn.x THEN jregs.s ELSE SignExtended(jinsn.imm)
Meant ==
    LET i == jinsn IN
    CASE i.cls = "alu64" /\ i.src = 10 -> StackBase + StackDepth
      [] i.cls = "alu64" /\ i.src # 10 -> Arith(i.op, jregs.d, Source, 2 * WordBits)
      [] i.cls = "alu" /\ i.op # "end" -> Arith(i.op, jregs.d % WordSize, Source % WordSize, WordBits)
      [] i.cls = "alu" /\ i.op = "end" -> Reversed(jregs.d, i.imm \div 8)
      [] i.cls = "ldimm" -> Wide(Low(i.imm), Low(i.hi))

\* The words that do not belong to the result keep their values, in both banks.
OthersKept(changed) ==
    \A k \in GeneralRegs \ ({20, 21, 22} \cup changed) :
        jm.a[k] = Load(jinsn, jregs).a[k] /\ jm.b[k] = Load(jinsn, jregs).b[k]
BanksAgree == \A k \in GeneralRegs \ {20, 21, 22} : jm.a[k] = jm.b[k]
LengthIs(n) == jm.b[22] = n /\ jm.lm[0] = n

ArithmeticDone ==
    LET got == BpfReg(jm, jinsn.dst) IN
    /\ IF jinsn.cls = "alu" /\ jinsn.op \in {"and", "or", "xor", "add", "sub", "neg", "shl", "shr", "ashr"} /\ ~jinsn.zext
       THEN got % WordSize = Meant ELSE got = Meant
    /\ jm.pc = Len(jcode)
    /\ OthersKept({Dst(jinsn), Dst(jinsn) + 1})
JumpDone ==
    LET size == IF jinsn.cls = "jmp" THEN DoubleSize ELSE WordSize IN
    /\ jm.pc = IF Holds(jinsn.op, jregs.d % size, Source % size, size) THEN BrTaken ELSE Len(jcode)
    /\ OthersKept({})
LoadDone ==
    LET off == jinsn.imm + (IF jinsn.cls = "ldind" THEN jregs.s ELSE 0) IN
    IF off + jinsn.size > jregs.plen THEN jm.pc = GoAbort
    ELSE jm.pc = Len(jcode) /\ Len(jm.cmds) = 1 /\ jm.cmds[1].l = PacketStart /\ jm.cmds[1].r = off
AddDone ==
    LET at == jregs.d + jinsn.imm IN
    /\ jm.pc = Len(jcode) /\ OthersKept({})
    /\ Len(jm.cmds) = 1 /\ Wide(jm.cmds[1].l, jm.cmds[1].r) = at % DoubleSize
    /\ jm.mem = Plus(<<AllOnes - 2, 5>>, jregs.s % WordSize, jregs.s \div WordSize, jinsn.cls = "xadd64")
AdjustDone ==
    LET delta == ToSigned(jregs.d, DoubleSize)
        head == jinsn.cls = "head"
        len == IF head THEN jregs.plen - delta ELSE jregs.plen + delta
        allowed == /\ len >= EthHlen
                   /\ IF head THEN OffMin + 1 + delta \in OffMin .. OffMax ELSE delta < 0
    IN  /\ jm.pc = Len(jcode) /\ OthersKept({0, 1})
        /\ IF allowed THEN BpfReg(jm, 0) = 0 /\ LengthIs(len) /\ jm.lm[2] = PacketStart + (IF head THEN delta ELSE 0)
           ELSE BpfReg(jm, 0) = DoubleSize - Einval /\ LengthIs(jregs.plen) /\ jm.lm[2] = PacketStart
QueueDone ==
    LET q == jregs.s % WordSize IN
    /\ jm.pc = Len(jcode) /\ OthersKept({})
    /\ jm.lm[4] = 2 ^ 4 /\ jm.lm[6] = IF q < ByteSize THEN q ELSE QueueNone

\* Known exceptions, see the README: the smallest immediate is its own
\* negation; a right shift by no bits is encoded as an indirect shift.
SmallestImm ==
    /\ ~jinsn.x /\ jinsn.imm = -(WordSize \div 2)
    /\ \/ jinsn.cls = "alu64" /\ jinsn.op \in {"add", "sub"}
       \/ jinsn.cls \in {"jmp", "jmp32"} /\ jinsn.op \in {"jsge", "jslt"}
       \/ jinsn.cls = "jmp" /\ jinsn.op \in {"jge", "jlt"}
ShiftByNothing ==
    /\ jinsn.op = "div"
    /\ \E k \in 1 .. Len(jcode) : jcode[k].i = "shf" /\ jcode[k].n = 0
JitExcused == SmallestImm \/ ShiftByNothing

\* An accepted instruction is translated, and the code computes what the
\* instruction means whatever the registers hold, changes no other BPF
\* register and leaves both register banks the same.
CodeSound ==
    /\ jpc # "refused"
    /\ jpc = "done" /\ ~JitExcused =>
        /\ BanksAgree
        /\ jinsn.cls \in {"alu64", "alu", "ldimm"} => ArithmeticDone
        /\ jinsn.cls \in {"jmp", "jmp32"} => JumpDone
        /\ jinsn.cls \in {"ldabs", "ldind"} => LoadDone
        /\ jinsn.cls \in {"xadd", "xadd64"} => AddDone
        /\ jinsn.cls \in {"head", "tail"} => AdjustDone
        /\ jinsn.cls = "queue" => QueueDone
=============================================================================

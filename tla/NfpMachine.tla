----------------------------- MODULE NfpMachine -----------------------------
(***************************************************************************)
(* The instructions of the flow processor that the BPF translator emits    *)
(* (nfp_asm.c and the emitters and wrappers at the head of bpf/jit.c).     *)
(* An emitter returns the sequence of instructions it pushes; an operand   *)
(* combination the encoders refuse gives Bad, which stands for             *)
(* nfp_prog->error, and so does an operand they only complain about.       *)
(*                                                                         *)
(* A word has four bytes of ByteBits bits.  The hardware has 8; the code   *)
(* depends on the number only through the constants below.                 *)
(*                                                                         *)
(* The second half of the module is what the processor does with them.     *)
(***************************************************************************)
EXTENDS Integers, Sequences, Bitwise

CONSTANTS
    ByteBits,       \* bits of a byte
    OperandMax      \* the largest immediate operand, UR_REG_IMM_MAX; a
                    \* restricted one (RE_REG_IMM_MAX) has a bit less

ASSUME NfpAsmAssumption == ByteBits \in Nat \ {0} /\ OperandMax \in Nat

WordBits == 4 * ByteBits
HalfBits == 2 * ByteBits
WordSize == 2 ^ WordBits
HalfSize == 2 ^ HalfBits
ByteSize == 2 ^ ByteBits
AllOnes == WordSize - 1
Complement(x) == AllOnes - x
\* imm & ~0U and imm >> 32 of the sign extended immediate
Low(imm) == imm % WordSize
High(imm) == IF imm < 0 THEN AllOnes ELSE imm \div WordSize

-----------------------------------------------------------------------------
\* Operands: general registers of bank a, b or both, transfer registers, local
\* memory through pointer 0, 1 or 3, immediates.
swreg(t, v) == [t |-> t, v |-> v]
reg_a(n) == swreg("a", n)
reg_b(n) == swreg("b", n)
reg_both(n) == swreg("both", n)
reg_imm(n) == swreg("imm", n)
reg_xfer(n) == swreg("xfer", n)
reg_lm(p, n) == swreg(CASE p = 0 -> "lm0" [] p = 1 -> "lm1" [] p = 3 -> "lm3", n)
reg_none == swreg("none", 0)

LocalMemory == {"lm0", "lm1", "lm3", "lm3++"}
imm_a == reg_a(21)
imm_b == reg_b(21)
imm_both == reg_both(21)
imma_a == reg_a(20)
imma_b == reg_b(20)
stack_reg == reg_a(22)
plen_reg == reg_b(22)
pv_len == reg_lm(1, 0)
pptr_reg == reg_lm(1, 2)
pv_qsel_set == reg_lm(1, 4)
pv_qsel_val == reg_lm(1, 6)

SameType(l, r) == l.t # "none" /\ (l.t = r.t \/ {l.t, r.t} \subseteq LocalMemory)
Swapped(l, r) == l.t = "b" \/ r.t = "a"
UnreFits(o) == (o.t = "imm" => o.v \in 0 .. OperandMax) /\ (o.t \in LocalMemory => o.v < 16)
RestFits(o, max) == (o.t = "imm" => o.v \in 0 .. max) /\ (o.t \in LocalMemory => o.v < 8 /\ o.t # "lm3++")
swreg_to_unrestricted(d, l, r) ==
    d.t # "imm" /\ ~SameType(l, r) /\ \A o \in {d, l, r} : UnreFits(o)
swreg_to_restricted(d, l, r, max) ==
    d.t # "imm" /\ ~SameType(l, r) /\ \A o \in {d, l, r} : RestFits(o, max)
RestrictedMax == OperandMax \div 2

Bad == <<[i |-> "bad"]>>
IfFits(c, insn) == IF c THEN <<insn>> ELSE Bad

-----------------------------------------------------------------------------
\* The emitters.
emit_alu(d, l, op, r) ==
    IfFits(swreg_to_unrestricted(d, l, r), [i |-> "alu", d |-> d, l |-> l, op |-> op, r |-> r])
emit_immed(d, val, wide, inv, shift) ==
    IfFits(swreg_to_unrestricted(d, d, reg_imm(0)),
           [i |-> "immed", d |-> d, val |-> val, wide |-> wide, inv |-> inv, shift |-> shift])
\* A left shift is encoded as the word size minus the count; a count of 0 says
\* that the previous instruction gives it.
emit_shf(d, l, op, r, sc, n) ==
    IfFits(swreg_to_restricted(d, l, r, OperandMax) /\ n < WordBits,
           [i |-> "shf", d |-> d, l |-> l, op |-> op, r |-> r, sc |-> sc,
            n |-> IF sc = "left" /\ n # 0 THEN WordBits - n ELSE n])
emit_shf_indir(d, l, op, r, sc) == IF sc = "rot" THEN Bad ELSE emit_shf(d, l, op, r, sc, 0)
emit_mul(l, type, step, r) ==
    IF type = "start" /\ step # 0 THEN Bad
    ELSE IfFits(IF step \in {5, 6} THEN swreg_to_unrestricted(l, reg_none, r)
                                   ELSE swreg_to_unrestricted(reg_none, l, r),
                [i |-> "mul", l |-> l, type |-> type, step |-> step, r |-> r])
emit_ld_field_any(d, mask, s, sc, n, zero) ==
    IfFits(swreg_to_restricted(d, d, s, OperandMax),
           [i |-> "ldf", d |-> d, mask |-> mask, s |-> s, sc |-> sc, n |-> n, zero |-> zero])
emit_ld_field(d, mask, s, sc, n) == emit_ld_field_any(d, mask, s, sc, n, FALSE)
emit_br(mask, to, defer) ==
    IfFits(~(mask = "unc" /\ defer > 2), [i |-> "br", mask |-> mask, to |-> to, defer |-> defer])
emit_br_bset(s, bit, to, defer) ==
    IfFits(swreg_to_restricted(reg_none, s, reg_imm(bit + 1), RestrictedMax),
           [i |-> "brbit", s |-> s, bit |-> bit, to |-> to, defer |-> defer])
emit_cmd_any(op, mode, xfer, l, r, size, indir) ==
    IfFits(swreg_to_restricted(reg_none, l, r, RestrictedMax) /\ ~Swapped(l, r) /\ l.t # "lm3" /\ r.t # "lm3",
           [i |-> "cmd", op |-> op, mode |-> mode, xfer |-> xfer, l |-> l, r |-> r, size |-> size, indir |-> indir])
emit_cmd(op, mode, xfer, l, r, size) == emit_cmd_any(op, mode, xfer, l, r, size, FALSE)

\* nfp_prog_confirm_current_offset()
Confirmed(code, off, rest) == IF Len(code) = off THEN code \o rest ELSE Bad

-----------------------------------------------------------------------------
\* pack_immed(): the shift with which a value fits an instruction, 9 if none.
pack_immed(imm) ==
    CASE imm < HalfSize -> 0
      [] imm % ByteSize = 0 /\ imm < HalfSize * ByteSize -> 1
      [] imm % HalfSize = 0 -> 2
      [] OTHER -> 9
Packed(imm) == imm \div (ByteSize ^ pack_immed(imm))

wrp_immed(d, imm) ==
    CASE pack_immed(imm) # 9 -> emit_immed(d, Packed(imm), FALSE, FALSE, pack_immed(imm))
      [] pack_immed(imm) = 9 /\ pack_immed(Complement(imm)) # 9 ->
             emit_immed(d, Packed(Complement(imm)), FALSE, TRUE, pack_immed(Complement(imm)))
      [] OTHER -> emit_immed(d, imm % HalfSize, FALSE, FALSE, 0)
                  \o emit_immed(d, imm \div HalfSize, TRUE, FALSE, 2)
wrp_zext(zext, dst) == IF zext THEN wrp_immed(reg_both(dst + 1), 0) ELSE <<>>

\* ur_load_imm_any(), re_load_imm_any(): the operand, and the code that loads
\* it where it is too large to be one.
ur_load_imm_any(imm, tmp) == IF imm <= OperandMax THEN reg_imm(imm) ELSE tmp
ur_load(imm, tmp) == IF imm <= OperandMax THEN <<>> ELSE wrp_immed(tmp, imm)
re_load_imm_any(imm, tmp) == IF imm <= RestrictedMax THEN reg_imm(imm) ELSE tmp
re_load(imm, tmp) == IF imm <= RestrictedMax THEN <<>> ELSE wrp_immed(tmp, imm)

wrp_mov(d, s) == emit_alu(d, reg_none, "none", s)
wrp_reg_mov(dst, src) == wrp_mov(reg_both(dst), reg_b(src))

\* Bytes are named by their number in the word, 0 the lowest.
wrp_reg_or_subpart(d, s, len, offset) ==
    emit_ld_field(d, offset .. offset + len - 1, s, IF offset = 0 THEN "none" ELSE "left",
                  WordBits - offset * ByteBits)

-----------------------------------------------------------------------------
(***************************************************************************)
(* What the flow processor does with one instruction, as far as            *)
(* bpf/jit.c relies on it.  The processor is not part of the repository:   *)
(* every rule below is one that the translator's code or its comments      *)
(* assume.                                                                 *)
(*   - immed leaves the condition codes alone, alu and shf set them;       *)
(*   - a subtraction sets the carry when it does not borrow;               *)
(*   - an indirect shift takes its count from the A operand of the         *)
(*     previous alu or shf, an arithmetic shift takes the sign from its    *)
(*     result; a double shift takes counts up to the word size (a left     *)
(*     shift by zero in a register asks for the word size);                *)
(*   - a branch with defer n takes effect n instructions later.            *)
(* A machine is a record: banks a and b, packet vector lm, transfer        *)
(* registers x, condition codes c n z v, pa and pr (A operand and result   *)
(* of the previous instruction), mul, pc, pend (the deferred branch) and   *)
(* mem, a double word in memory.                                           *)
(***************************************************************************)

Word == 0 .. AllOnes
AndTable == [p \in Word \X Word |-> p[1] & p[2]]
OrTable == [p \in Word \X Word |-> p[1] | p[2]]
XorTable == [p \in Word \X Word |-> p[1] ^^ p[2]]

IsNegative(x) == x >= WordSize \div 2
Wide(lo, hi) == lo + WordSize * hi
Byte(x, k) == (x \div (ByteSize ^ k)) % ByteSize

NoBranch == [n |-> -1, to |-> 0]

Operand(m, o) ==
    CASE o.t \in {"a", "both"} -> m.a[o.v]
      [] o.t = "b" -> m.b[o.v]
      [] o.t = "imm" -> o.v
      [] o.t = "xfer" -> m.x[o.v]
      [] o.t = "lm1" -> m.lm[o.v]
      [] OTHER -> 0
Write(m, d, w) ==
    [m EXCEPT !.a = IF d.t \in {"a", "both"} THEN [@ EXCEPT ![d.v] = w] ELSE @,
              !.b = IF d.t \in {"b", "both"} THEN [@ EXCEPT ![d.v] = w] ELSE @,
              !.x = IF d.t = "xfer" THEN [@ EXCEPT ![d.v] = w] ELSE @,
              !.lm = IF d.t = "lm1" THEN [@ EXCEPT ![d.v] = w] ELSE @]

\* Result, carry and overflow of an alu operation.
Sum(l, r, carry) ==
    [w |-> (l + r + carry) % WordSize,
     c |-> l + r + carry >= WordSize,
     v |-> /\ IsNegative(l) = IsNegative(r)
           /\ IsNegative((l + r + carry) % WordSize) # IsNegative(l)]
Bits(m, w) == [w |-> w, c |-> m.c, v |-> FALSE]
AluResult(m, op, l, r) ==
    LET cin == IF m.c THEN 1 ELSE 0 IN
    CASE op = "none" -> Bits(m, r)
      [] op = "not" -> Bits(m, Complement(r))
      [] op = "and" -> Bits(m, AndTable[<<l, r>>])
      [] op = "and_not_b" -> Bits(m, AndTable[<<l, Complement(r)>>])
      [] op = "or" -> Bits(m, OrTable[<<l, r>>])
      [] op = "xor" -> Bits(m, XorTable[<<l, r>>])
      [] op = "add" -> Sum(l, r, 0)
      [] op = "add_2b" -> Sum(l, r % HalfSize, 0)
      [] op = "add_c" -> Sum(l, r, cin)
      [] op = "sub" -> Sum(l, Complement(r), 1)
      [] op = "sub_c" -> Sum(l, Complement(r), cin)

\* The A operand of an instruction, whichever side it was written on.
AOperand(m, l, r) == IF Swapped(l, r) THEN Operand(m, r) ELSE Operand(m, l)
SetPrevious(m, l, r, res) ==
    [m EXCEPT !.pa = AOperand(m, l, r), !.pr = res.w, !.c = res.c, !.v = res.v,
              !.n = IsNegative(res.w), !.z = res.w = 0]

DoAlu(m, i) ==
    LET res == AluResult(m, i.op, Operand(m, i.l), Operand(m, i.r))
    IN  Write(SetPrevious(m, i.l, i.r, res), i.d, res.w)
DoImmed(m, i) ==
    LET w == (i.val * ByteSize ^ i.shift) % WordSize
    IN  Write(m, i.d, CASE i.wide -> (Operand(m, i.d) % HalfSize) + w
                        [] ~i.wide /\ i.inv -> Complement(w)
                        [] OTHER -> w)

ShiftRight(w, n) == w \div 2 ^ n
ShiftLeft(w, n) == IF n = 0 THEN w ELSE (w % 2 ^ (WordBits - n)) * 2 ^ n
Shifted(m, i, w) ==
    LET direct == i.n # 0
        count == IF direct THEN i.n ELSE m.pa % (IF i.sc = "dshf" THEN 2 * WordBits ELSE WordBits)
        sign == IF i.op = "ashr" /\ IsNegative(m.pr) THEN AllOnes - ShiftRight(AllOnes, count) ELSE 0
    IN  CASE i.sc = "right" -> ShiftRight(w, count) + sign
          [] i.sc = "left" -> ShiftLeft(w, IF direct THEN WordBits - count ELSE count)
          [] i.sc = "dshf" -> (Wide(w, Operand(m, i.l)) \div 2 ^ count) % WordSize
DoShf(m, i) ==
    LET w == Shifted(m, i, Operand(m, i.r))
        l == Operand(m, i.l)
        res == Bits(m, CASE i.op = "and" -> AndTable[<<l, w>>]
                         [] i.op = "or" -> OrTable[<<l, w>>]
                         [] OTHER -> w)
    IN  Write(SetPrevious(m, i.l, i.r, res), i.d, res.w)

\* ld_field: the chosen bytes of the shifted source, the others kept or zero.
Aligned(i, w) ==
    CASE i.sc = "none" -> w
      [] i.sc = "rot" -> ShiftRight(w, i.n) + ShiftLeft(w, WordBits - i.n)
      [] i.sc = "right" -> ShiftRight(w, i.n)
      [] i.sc = "left" -> ShiftLeft(w, WordBits - i.n)
DoLdField(m, i) ==
    LET w == Aligned(i, Operand(m, i.s))
        old == IF i.zero THEN 0 ELSE Operand(m, i.d)
        b(k) == (IF k \in i.mask THEN Byte(w, k) ELSE Byte(old, k)) * ByteSize ^ k
    IN  Write(m, i.d, b(0) + b(1) + b(2) + b(3))

\* mul: the operands are set, then multiplied in steps; 5 and 6 are MUL_LAST
\* and MUL_LAST_2, which store the two words of the product.
DoMul(m, i) ==
    LET half == i.type = "16x16"
        done == m.mul.steps = IF half THEN 2 ELSE 4
        l == IF half THEN m.mul.l % HalfSize ELSE m.mul.l
        r == IF half THEN m.mul.r % HalfSize ELSE m.mul.r
        product == IF done THEN l * r ELSE 0
    IN  CASE i.type = "start" -> [m EXCEPT !.mul = [l |-> Operand(m, i.l), r |-> Operand(m, i.r), steps |-> 0]]
          [] i.step \in 1 .. 4 -> [m EXCEPT !.mul.steps = IF @ = i.step - 1 THEN i.step ELSE @]
          [] i.step = 5 -> Write(m, i.l, product % WordSize)
          [] i.step = 6 -> Write(m, i.l, product \div WordSize)

\* Memory commands are recorded.  add_imm takes a half word and the width
\* (in the lowest bit) from the previous immediate; add takes the transfer
\* registers, see Pulled.
Plus(pair, lo, hi, wide) ==
    LET sum == pair[1] + lo
        h == pair[2] + hi + (IF sum >= WordSize THEN 1 ELSE 0)
    IN  <<sum % WordSize, IF wide THEN h % WordSize ELSE pair[2]>>
DoCmd(m, i) ==
    [m EXCEPT !.cmds = Append(@, [op |-> i.op, l |-> Operand(m, i.l), r |-> Operand(m, i.r), size |-> i.size]),
              !.mem = IF i.op = "add_imm" THEN Plus(@, m.a[21] \div HalfSize, 0, m.a[21] % 2 = 1) ELSE @]
Pulled(m) ==
    IF \E k \in 1 .. Len(m.cmds) : m.cmds[k].op = "add"
    THEN [m EXCEPT !.mem = Plus(@, m.x[0], m.x[1], m.cmds[Len(m.cmds)].size = 4)] ELSE m

Taken(m, i) ==
    CASE i.i = "brbit" -> (Operand(m, i.s) \div 2 ^ i.bit) % 2 = 1
      [] i.i = "br" /\ i.mask = "unc" -> TRUE
      [] i.i = "br" /\ i.mask = "beq" -> m.z
      [] i.i = "br" /\ i.mask = "bne" -> ~m.z
      [] i.i = "br" /\ i.mask = "bmi" -> m.n
      [] i.i = "br" /\ i.mask = "bhs" -> m.c
      [] i.i = "br" /\ i.mask \in {"blo", "bcc"} -> ~m.c
      [] i.i = "br" /\ i.mask = "bge" -> m.n = m.v
      [] i.i = "br" /\ i.mask = "blt" -> m.n # m.v
      [] OTHER -> FALSE

Effect(m, i) ==
    CASE i.i = "alu" -> DoAlu(m, i)
      [] i.i = "immed" -> DoImmed(m, i)
      [] i.i = "shf" -> DoShf(m, i)
      [] i.i = "ldf" -> DoLdField(m, i)
      [] i.i = "mul" -> DoMul(m, i)
      [] i.i = "cmd" -> DoCmd(m, i)
      [] OTHER -> m

\* One instruction, and the branch that becomes due with it.
Execute(m, code) ==
    LET i == code[m.pc + 1]
        pend == CASE Taken(m, i) -> [n |-> i.defer, to |-> i.to]
                  [] ~Taken(m, i) /\ m.pend.n > 0 -> [m.pend EXCEPT !.n = @ - 1]
                  [] OTHER -> NoBranch
    IN  IF pend.n = 0 THEN [Effect(m, i) EXCEPT !.pc = pend.to, !.pend = NoBranch]
                      ELSE [Effect(m, i) EXCEPT !.pc = @ + 1, !.pend = pend]
=============================================================================

------------------------------- MODULE BpfLink -------------------------------
(***************************************************************************)
(* How the translator puts a program together (bpf/jit.c nfp_translate()   *)
(* to nfp_bpf_relo_for_vnic(), bpf/verifier.c nfp_bpf_finalize()): stack   *)
(* frames, calls and returns between functions, calls of the firmware's    *)
(* helpers, branch targets, and the move to the vNIC's load address.       *)
(*                                                                         *)
(* Code is a sequence of abstract processor instructions; index 0 is the   *)
(* first.  Stack depths count words.  The work of other instructions is    *)
(* one step that leaves a trace.                                           *)
(***************************************************************************)
EXTENDS Integers, Sequences, SequencesExt, FiniteSets, TLC

CONSTANTS
    LinkPrograms,   \* [insns, depth (what the verifier measured), start (bv->start_off), taken]
    FrameAlign,     \* STACK_FRAME_ALIGN in words
    MaxStack        \* NFP_NET_CFG_BPF_STACK_SZ in words

VARIABLES
    lp,         \* the program: an element of LinkPrograms
    lmetas,     \* nfp_prog->insns: [insn, sub, dst, off, after, start]
    lsub,       \* nfp_prog->subprog: function idx |-> [depth, push]
    lcode,      \* nfp_prog->prog
    ltgt,       \* [out, abort, push, pop, last]
    lcpu,         \* the processor that runs the code
    lpc         \* "finalize", "translate", "outro", "fixup", "relocate", "run", "done", "refused"
linkVars == <<lp, lmetas, lsub, lcode, ltgt, lcpu, lpc>>

\* k    "set" (a callee-saved register), "use" (all of them), "spill" and
\*      "fill" (a stack slot), "jmp" with br branches, "call", "map" (a helper
\*      that gets a key on the stack), "perf", "exit"
\* to   destination; up  the key lies in the caller's frame; gone  removed
LinkInsn == [k |-> "use", to |-> 0, br |-> 1, reg |-> 6, off |-> 1, up |-> FALSE, gone |-> FALSE]
FrameUp(n, k) == ((n + k - 1) \div k) * k
LN == Len(lmetas)
LI(n) == lmetas[n].insn
Subs == DOMAIN lsub
ToSubs(p) == {p.insns[n].to : n \in {x \in 1 .. Len(p.insns) : p.insns[x].k = "call"}}
Saved == {6, 7, 8, 9}
Half == {0, 1}

NoCpu == [pc |-> 0, go |-> -1, left |-> 0, r |-> <<>>, a |-> [ret |-> -1, immb |-> -1, b0 |-> -1], sp |-> 0,
          lm0 |-> 0, wait |-> 0, mem |-> <<>>, log |-> <<>>, top |-> 0, early |-> FALSE]
LinkInit ==
    /\ lp \in LinkPrograms
    /\ lmetas = [n \in 1 .. Len(lp.insns) |->
                    [insn |-> lp.insns[n], sub |-> 0, off |-> 0, after |-> 0, start |-> n \in ToSubs(lp)]]
    /\ lsub = <<>> /\ lcode = <<>> /\ lcpu = NoCpu
    /\ ltgt = [out |-> 0, abort |-> 0, push |-> 0, pop |-> 0, last |-> 0]
    /\ lpc = "finalize"

\* nfp_assign_subprog_idx_and_regs()
SubOf(n) == Cardinality({x \in 1 .. n : lmetas[x].start})
needs_reg_push(idx) == \E n \in 1 .. LN : SubOf(n) = idx /\ LI(n).k = "set"
FrameSizes == [idx \in 0 .. Cardinality(ToSubs(lp)) |->
                 [push |-> needs_reg_push(idx),
                  depth |-> lp.depth[idx] + (IF idx = 0 THEN 0 ELSE 1 + (IF needs_reg_push(idx) THEN 8 ELSE 0))]]
\* nfp_bpf_get_stack_usage(): the deepest chain of calls from function idx.
RECURSIVE get_stack_usage(_, _)
get_stack_usage(sub, idx) ==
    LET callees == {SubOf(LI(n).to) : n \in {x \in 1 .. LN : SubOf(x) = idx /\ LI(x).k = "call"}}
    IN  FrameUp(sub[idx].depth, FrameAlign) + Max({get_stack_usage(sub, c) : c \in callees} \cup {0})
LinkFinalize ==
    /\ lpc = "finalize"
    /\ lmetas' = [n \in 1 .. LN |-> [lmetas[n] EXCEPT !.sub = SubOf(n)]]
    /\ lsub' = FrameSizes
    /\ lpc' = IF get_stack_usage(FrameSizes, 0) > MaxStack THEN "refused" ELSE "translate"
    /\ UNCHANGED <<lp, lcode, ltgt, lcpu>>

-----------------------------------------------------------------------------
\* Emission.  to is an index of lcode; relo says how it is relocated.
br(to, defer, relo, cond) == <<[i |-> "br", to |-> to, defer |-> defer, relo |-> relo, cond |-> cond]>>
rtn(reg, defer) == <<[i |-> "rtn", reg |-> reg, defer |-> defer, relo |-> "none"]>>
immed(reg, v, relo) == <<[i |-> "immed", reg |-> reg, v |-> v, relo |-> relo]>>
op(i, v) == <<[i |-> i, v |-> v, relo |-> "none"]>>
nop == op("nop", 0)
csr == op("csr", 0)
RelocatedAt == 1000      \* BR_OFF_RELO
Frame(n) == FrameUp(FrameUp(lsub[lmetas[n].sub].depth, 1), FrameAlign)

bpf_to_bpf_call(n, at) ==
    LET depth == Frame(n)
        down == IF depth = 0 THEN <<>> ELSE op("sp", depth) \o csr
        push == lsub[lmetas[LI(n).to].sub].push
        b == at + Len(down)
    IN  [code |-> down
                  \o (IF push THEN br(RelocatedAt, 2, "push", 0) \o immed("immb", 0, "imm") \o immed("ret", b + 3, "imm")
                      ELSE br(LI(n).to, 1, "rel", 0) \o immed("ret", b + 2, "imm"))
                  \o (IF depth = 0 THEN <<>> ELSE op("sp", -depth) \o csr \o nop \o nop \o nop),
         br |-> b]
\* A key at the start of the frame needs no other LM0.
load_lm_ptr(n) == lsub[lmetas[n].sub].depth - LI(n).off # 0
map_call_stack_common(n, at) ==
    LET set == IF load_lm_ptr(n) THEN op("lmkey", n) ELSE <<>>
        ret_tgt == at + Len(set) + 3
    IN  set \o br(RelocatedAt, 2, "helper", 0) \o op("mapid", n) \o immed("b0", ret_tgt, "imm")
        \o (IF load_lm_ptr(n) THEN csr \o nop \o nop \o nop ELSE <<>>)
nfp_perf_event_output(n, at) == br(RelocatedAt, 2, "helper", 0) \o op("mapid", n) \o immed("b0", at + 3, "imm")
nfp_subprog_epilogue(n) ==
    IF lsub[lmetas[n].sub].push THEN br(RelocatedAt, 1, "pop", 0) \o op("load", 0)
    ELSE op("load", 0) \o rtn("ret", 0)
jmp_exit(n) == IF lmetas[n].sub = 0 THEN br(RelocatedAt, 0, "out", 0) ELSE nfp_subprog_epilogue(n)
\* A jump that needs two tests branches in two places.
JumpCode(n) == (IF LI(n).br = 2 THEN br(LI(n).to, 0, "rel", 1) \o nop ELSE <<>>) \o br(LI(n).to, 0, "rel", LI(n).br)
Emitted(n, at) ==
    CASE LI(n).k = "call" -> bpf_to_bpf_call(n, at).code
      [] LI(n).k = "map" -> map_call_stack_common(n, at)
      [] LI(n).k = "perf" -> nfp_perf_event_output(n, at)
      [] LI(n).k = "exit" -> jmp_exit(n)
      [] LI(n).k = "jmp" -> JumpCode(n)
      [] OTHER -> op("work", n)

Prologue(n) == IF lmetas[n].start THEN op("store", 0) ELSE <<>>
LinkTranslate ==
    LET n == ltgt.last + 1
        at == Len(lcode)
        body == at + Len(Prologue(n))
        new == IF LI(n).gone THEN Prologue(n) ELSE Prologue(n) \o Emitted(n, body)
    IN  /\ lpc = "translate" /\ n <= LN
        /\ lcode' = lcode \o new
        /\ lmetas' = [lmetas EXCEPT ![n].off = at,
                                    ![n].after = IF LI(n).k = "call" /\ ~LI(n).gone
                                                 THEN at + Len(new) - (bpf_to_bpf_call(n, body).br + 1) ELSE 0]
        /\ ltgt' = [ltgt EXCEPT !.last = n]
        /\ lpc' = IF n = LN THEN "outro" ELSE "translate"
        /\ UNCHANGED <<lp, lsub, lcpu>>

\* nfp_push_callee_registers() and nfp_pop_callee_registers(): the last three
\* moves are in the slots of the return.
Moves(i) == <<[i |-> i, r |-> <<6, 0>>, v |-> 1, relo |-> "none"], [i |-> i, r |-> <<6, 1>>, v |-> 2, relo |-> "none"],
              [i |-> i, r |-> <<7, 0>>, v |-> 3, relo |-> "none"], [i |-> i, r |-> <<7, 1>>, v |-> 4, relo |-> "none"],
              [i |-> i, r |-> <<8, 0>>, v |-> 5, relo |-> "none"], [i |-> i, r |-> <<8, 1>>, v |-> 6, relo |-> "none"],
              [i |-> i, r |-> <<9, 0>>, v |-> 7, relo |-> "none"], [i |-> i, r |-> <<9, 1>>, v |-> 8, relo |-> "none"]>>
nfp_push_callee_registers == SubSeq(Moves("save"), 1, 5) \o rtn("immb", 3) \o SubSeq(Moves("save"), 6, 8)
nfp_pop_callee_registers == SubSeq(Moves("restore"), 1, 5) \o rtn("ret", 3) \o SubSeq(Moves("restore"), 6, 8)
nfp_prog_needs_callee_reg_save == \E idx \in Subs \ {0} : lsub[idx].push
\* The verdict is one step (see BpfJit for what it computes).
OutroCode == br(RelocatedAt, 0, "next", 0)
LinkOutro ==
    LET at == Len(lcode)
        subs == IF nfp_prog_needs_callee_reg_save THEN nfp_push_callee_registers \o nfp_pop_callee_registers ELSE <<>>
    IN  /\ lpc = "outro"
        /\ lcode' = lcode \o op("abort", 0) \o OutroCode \o op("out", 0) \o OutroCode \o subs
        /\ ltgt' = [out |-> at + 2, abort |-> at, last |-> at - 1,
                    push |-> IF subs = <<>> THEN 0 ELSE at + 4,
                    pop |-> IF subs = <<>> THEN 0 ELSE at + 4 + Len(nfp_push_callee_registers)]
        /\ lpc' = "fixup"
        /\ UNCHANGED <<lp, lmetas, lsub, lcpu>>

\* nfp_fixup_branches(): br_idx is the last branch of an instruction.
Fixable(n) == ~LI(n).gone /\ LI(n).k \in {"jmp", "call"}
AfterCallNone(n) == 0
AfterCall(n) == IF LI(n).k = "call" THEN lmetas[n].after ELSE 0
br_idx(n) == (IF n = LN THEN ltgt.last ELSE lmetas[n + 1].off - 1) - AfterCall(n)
NotABranch(n) == ~LI(n).gone /\ (Fixable(n) \/ (LI(n).k = "exit" /\ lmetas[n].sub = 0)) /\ lcode[br_idx(n) + 1].i # "br"
Pushes(n) == LI(n).k = "call" /\ lsub[lmetas[LI(n).to].sub].push
FixedInsn(c, x) ==
    LET own(n) == Fixable(n) /\ x \in lmetas[n].off .. br_idx(n) /\ c.i = "br" /\ lcode[br_idx(n) + 1].relo = "rel"
        callee(n) == Fixable(n) /\ Pushes(n) /\ x = br_idx(n) + 1
        dest(n) == lmetas[LI(n).to].off
    IN  CASE \E n \in 1 .. LN : own(n) -> [c EXCEPT !.to = dest(CHOOSE n \in 1 .. LN : own(n))]
          [] \E n \in 1 .. LN : callee(n) -> [c EXCEPT !.v = dest(CHOOSE n \in 1 .. LN : callee(n))]
          [] OTHER -> c
LinkFixup ==
    /\ lpc = "fixup"
    /\ lcode' = [x \in 1 .. Len(lcode) |-> FixedInsn(lcode[x], x - 1)]
    /\ lpc' = IF \E n \in 1 .. LN : NotABranch(n) THEN "refused" ELSE "relocate"
    /\ UNCHANGED <<lp, lmetas, lsub, ltgt, lcpu>>

\* nfp_bpf_relo_for_vnic().  The helpers and the end of the program lie at
\* addresses of the firmware.
HelperAt == 2000
DoneAt == 3000
Relocated(c) ==
    CASE c.relo = "rel" -> [c EXCEPT !.to = @ + lp.start]
      [] c.relo = "out" -> [c EXCEPT !.to = ltgt.out + lp.start]
      [] c.relo = "push" -> [c EXCEPT !.to = ltgt.push + lp.start]
      [] c.relo = "pop" -> [c EXCEPT !.to = ltgt.pop + lp.start]
      [] c.relo = "next" -> [c EXCEPT !.to = DoneAt]
      [] c.relo = "helper" -> [c EXCEPT !.to = HelperAt]
      [] c.relo = "imm" -> [c EXCEPT !.v = @ + lp.start]
      [] OTHER -> c
LinkRelocate ==
    /\ lpc = "relocate"
    /\ lcode' = [x \in 1 .. Len(lcode) |-> Relocated(lcode[x])]
    /\ lcpu' = [NoCpu EXCEPT !.pc = lp.start, !.r = [x \in Saved \X Half |-> 0], !.mem = [a \in 0 .. 2 * MaxStack |-> 0]]
    /\ lpc' = "run"
    /\ UNCHANGED <<lp, lmetas, lsub, ltgt>>

-----------------------------------------------------------------------------
\* The processor: LM0 is valid three cycles after it was set; a branch takes
\* the slots its defer does not fill.  A helper returns to the address in B0.
At == lcode[lcpu.pc - lp.start + 1]
Slot(n) == lsub[lmetas[n].sub].depth - LI(n).off
\* The frame of the caller lies below the frame of the function n is in.
CallerOf(n) == CHOOSE x \in 1 .. LN : LI(x).k = "call" /\ SubOf(LI(x).to) = lmetas[n].sub
KeyAt(n) ==
    IF ~LI(n).up THEN lcpu.sp + Slot(n)
    ELSE lcpu.sp - Frame(CallerOf(n)) + lsub[lmetas[CallerOf(n)].sub].depth - LI(n).off
Worked(m, n) ==
    LET a == m.lm0 + Slot(n) IN
    CASE LI(n).k = "set" -> [m EXCEPT !.r = [x \in DOMAIN @ |-> IF x[1] = LI(n).reg THEN n ELSE @[x]]]
      [] LI(n).k = "use" -> [m EXCEPT !.log = Append(@, <<n, m.r>>)]
      [] LI(n).k = "spill" -> [m EXCEPT !.mem[a] = n, !.top = IF a > @ THEN a ELSE @]
      [] LI(n).k = "fill" -> [m EXCEPT !.log = Append(@, <<n, m.mem[a]>>)]
Touches(c) == c.i \in {"store", "load", "save", "restore"} \/ (c.i = "work" /\ LI(c.v).k \in {"spill", "fill"})
Ran(m, c) ==
    LET a == m.lm0 + c.v IN
    CASE c.i = "immed" -> [m EXCEPT !.a[c.reg] = c.v]
      [] c.i = "sp" -> [m EXCEPT !.sp = @ + c.v]
      [] c.i = "csr" -> [m EXCEPT !.lm0 = m.sp]
      [] c.i = "lmkey" -> [m EXCEPT !.lm0 = KeyAt(c.v)]
      [] c.i = "store" -> [m EXCEPT !.mem[m.lm0] = m.a.ret]
      [] c.i = "load" -> [m EXCEPT !.a.ret = m.mem[m.lm0]]
      [] c.i = "save" -> [m EXCEPT !.mem[a] = m.r[c.r], !.top = IF a > @ THEN a ELSE @]
      [] c.i = "restore" -> [m EXCEPT !.r[c.r] = m.mem[a]]
      [] c.i = "work" -> Worked(m, c.v)
      [] OTHER -> m
Goes(m, c) ==
    CASE c.i = "br" /\ c.cond \in {0, lp.taken} -> c.to
      [] c.i = "rtn" -> m.a[c.reg]
      [] OTHER -> -1
Cycles(c, to) == IF to = -1 THEN 1 ELSE IF c.i = "br" THEN 3 - c.defer ELSE 4 - c.defer
Clocked(m, c, to) ==
    [m EXCEPT !.early = @ \/ (m.wait > 0 /\ Touches(c)),
              !.wait = IF c.i \in {"csr", "lmkey"} THEN 3 ELSE IF Cycles(c, to) > @ THEN 0 ELSE @ - Cycles(c, to)]
Advanced(m, c, to) ==
    CASE to # -1 /\ c.defer = 0 -> [m EXCEPT !.pc = to]
      [] to # -1 /\ c.defer > 0 -> [m EXCEPT !.pc = @ + 1, !.go = to, !.left = c.defer]
      [] to = -1 /\ m.left = 1 -> [m EXCEPT !.pc = m.go, !.left = 0, !.go = -1]
      [] to = -1 /\ m.left > 1 -> [m EXCEPT !.pc = @ + 1, !.left = @ - 1]
      [] OTHER -> [m EXCEPT !.pc = @ + 1]
LinkRun ==
    /\ lpc = "run"
    /\ \/ /\ lcpu.pc = DoneAt
          /\ lpc' = "done" /\ UNCHANGED lcpu
       \/ /\ lcpu.pc = HelperAt
          /\ lcpu' = [lcpu EXCEPT !.pc = lcpu.a.b0, !.log = Append(@, <<"key", lcpu.lm0>>), !.early = @ \/ lcpu.wait > 0]
          /\ UNCHANGED lpc
       \/ /\ lcpu.pc - lp.start \in 0 .. Len(lcode) - 1
          /\ lcpu' = LET to == Goes(lcpu, At) IN Advanced(Clocked(Ran(lcpu, At), At, to), At, to)
          /\ UNCHANGED lpc
    /\ UNCHANGED <<lp, lmetas, lsub, lcode, ltgt>>

LinkNext == LinkFinalize \/ LinkTranslate \/ LinkOutro \/ LinkFixup \/ LinkRelocate \/ LinkRun

-----------------------------------------------------------------------------
\* What the program means: functions with frames of their own.
Base(s) == FoldSeq(LAMBDA f, b : b + Frame(f.at), 0, s.frames)
RECURSIVE RefLog(_, _)
RefLog(n, s) ==
    LET i == LI(n)
        top == s.slots[Len(s.slots)]
        Then(k, t) == RefLog(k, t)
    IN  CASE i.gone -> Then(n + 1, s)
          [] ~i.gone /\ i.k = "set" -> Then(n + 1, [s EXCEPT !.r = [x \in DOMAIN @ |-> IF x[1] = i.reg THEN n ELSE @[x]]])
          [] ~i.gone /\ i.k = "use" -> Then(n + 1, [s EXCEPT !.log = Append(@, <<n, s.r>>)])
          [] ~i.gone /\ i.k = "spill" -> Then(n + 1, [s EXCEPT !.slots[Len(s.slots)] = (i.off :> n) @@ @])
          [] ~i.gone /\ i.k = "fill" -> Then(n + 1, [s EXCEPT !.log = Append(@, <<n, top[i.off]>>)])
          [] ~i.gone /\ i.k \in {"map", "perf"} ->
                LET own == Base(s) + Slot(n)
                    key == CASE i.k = "perf" -> Base(s)
                             [] i.k = "map" /\ i.up -> Base(s) - Frame(CallerOf(n)) + lsub[lmetas[CallerOf(n)].sub].depth - i.off
                             [] OTHER -> own
                IN  Then(n + 1, [s EXCEPT !.log = Append(@, <<"key", key>>)])
          [] ~i.gone /\ i.k = "jmp" -> Then(IF i.br = 0 \/ lp.taken \in 1 .. i.br THEN i.to ELSE n + 1, s)
          [] ~i.gone /\ i.k = "call" -> Then(i.to, [s EXCEPT !.frames = Append(@, [at |-> n, r |-> s.r]), !.slots = Append(@, <<>>)])
          [] ~i.gone /\ i.k = "exit" /\ s.frames # <<>> ->
                LET f == s.frames[Len(s.frames)]
                IN  Then(f.at + 1, [s EXCEPT !.frames = Front(@), !.slots = Front(@), !.r = f.r])
          [] OTHER -> s.log
Meaning == RefLog(1, [r |-> [x \in Saved \X Half |-> 0], frames |-> <<>>, slots |-> << <<>> >>, log |-> <<>>])

\* Known exception, see the README: the key lies in the caller's frame, as far
\* from its top as the callee's frame is deep.
CallerKey == \E n \in 1 .. LN : LI(n).k = "map" /\ LI(n).up /\ ~load_lm_ptr(n)

\* The loaded program does what its functions mean: every jump, call and return
\* arrives, callee-saved registers and frames survive calls, helpers get their
\* keys, LM0 is valid when used, and no more stack is touched than was counted.
LinkSound ==
    /\ lpc = "refused" => get_stack_usage(FrameSizes, 0) > MaxStack
    /\ lpc \in {"run", "done"} => ~lcpu.early
    /\ lpc = "done" => lcpu.top = 0 \/ lcpu.top < get_stack_usage(lsub, 0)
    /\ lpc = "run" => lcpu.pc \in {DoneAt, HelperAt} \/ lcpu.pc - lp.start \in 0 .. Len(lcode) - 1
    /\ lpc = "done" /\ ~CallerKey => lcpu.log = Meaning /\ lcpu.sp = 0 /\ lcpu.lm0 = 0
=============================================================================

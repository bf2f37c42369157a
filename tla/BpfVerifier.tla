----------------------------- MODULE BpfVerifier -----------------------------
(***************************************************************************)
(* What the driver adds to the kernel's verifier (bpf/verifier.c).  The    *)
(* kernel visits an instruction once for every state it may run in and     *)
(* calls nfp_verify_insn() on each visit; the driver refuses the program   *)
(* or remembers, per instruction, per program and per map word, what the   *)
(* translator will rely on.                                                *)
(*                                                                         *)
(* The order of the visits and the register states are the kernel's: any.  *)
(***************************************************************************)
EXTENDS Integers, Sequences, FiniteSets, SequencesExt

CONSTANTS
    Sites,          \* instruction number |-> [op, reg, off, k]: see VOps
    VisitsOf,       \* operation |-> the register states it may be visited in
    VisitGroups,    \* bound: the visits are to instructions of one of these
                    \* sets; instructions of two sets share no record
    VisitMax,       \* bound on the visits
    IndexMod,       \* 2^32: the instruction numbers wrap
    U32Max, U16Max, \* the limits of a multiplication and of a small addend
    HeadMax,        \* ETH_ZLEN - ETH_HLEN
    HeadAdd, HeadSub,   \* adjust_head.guaranteed_add and guaranteed_sub
    NWords          \* words of the map's value

VARIABLES
    vmetas,     \* what is remembered of each instruction
    vprog,      \* of the program: [adj |-> adjust_head_location, at |-> verifier_meta, xdp, group]
    vuse,       \* nfp_map->use_map: word |-> [type, nz]
    vhist,      \* the visits so far
    vpc         \* "verify" or "refused"
verVars == <<vmetas, vprog, vuse, vhist, vpc>>

\* op: "alu", "mul", "div" (k: immediate operand), "ld", "st", "xadd", "head"
\* (adjust head), "key" (a helper with a key on the stack), "update", "perf",
\* "exit".  A visit: [t, off, frame, const, val, mask, min, max, smin, smax,
\* nz], of which an operation looks at some.
Visit == [t |-> "scalar", off |-> 0, frame |-> 0, const |-> TRUE, val |-> 0, mask |-> 0,
          min |-> 0, max |-> 0, smin |-> 0, smax |-> 0, nz |-> {}]
NInsn == Len(Sites)
Unset == 0
Several == -1     \* UINT_MAX
Minus(a, b) == (a - b) % IndexMod
Less(a, b) == IF a < b THEN a ELSE b
More(a, b) == IF a > b THEN a ELSE b

NoMeta == [t |-> "none", off |-> 0, vary |-> FALSE, caller |-> FALSE, func |-> FALSE, arg1 |-> "none", arg2 |-> 0,
           argvary |-> FALSE, over |-> FALSE, maybe |-> FALSE,
           umin |-> IndexMod, umax |-> 0, smin |-> IndexMod, smax |-> 0]
VerifierInit ==
    /\ vmetas = [n \in 1 .. NInsn |-> NoMeta]
    /\ vprog \in [adj : {Unset}, at : 0 .. NInsn - 1, xdp : BOOLEAN, group : VisitGroups]
    /\ vuse = [w \in 0 .. NWords - 1 |-> [type |-> "unused", nz |-> FALSE]]
    /\ vhist = <<>> /\ vpc = "verify"

\* Numbers count from 0, as in the code; the walk from meta to insn_idx.
nfp_bpf_goto_meta(at, idx) ==
    LET back == Minus(at, idx)
        fwd == Minus(idx, at)
        left == Minus(Minus(NInsn, idx), 1)
        last == Less(fwd, back) > left
        back1 == IF last THEN left ELSE back
        at1 == IF last THEN NInsn - 1 ELSE at
        first == Less(fwd, back1) > idx /\ back1 > idx
        fwd2 == IF first THEN idx ELSE fwd
        at2 == IF first THEN 0 ELSE at1
    IN  IF fwd2 < back1 THEN at2 + fwd2 ELSE at2 - back1

\* Each check yields [ok, meta, adj, use]: what it leaves behind, also when it
\* refuses.
Same(n) == [ok |-> TRUE, meta |-> vmetas[n], adj |-> vprog.adj, use |-> vuse]
Refuse(n) == [Same(n) EXCEPT !.ok = FALSE]

nfp_record_adjust_head(n, v) ==
    LET m == vmetas[n]
        fits == v.t = "scalar" /\ v.const /\ v.val <= HeadMax /\ v.val <= HeadAdd /\ v.val >= -HeadSub
        again == vprog.adj # Unset => vprog.adj = n /\ m.arg2 = v.val
    IN  IF fits /\ again THEN n ELSE Several
nfp_bpf_stack_arg_ok(v) == v.t = "stack" /\ v.const /\ v.off % 4 = 0
Recorded(n, v, t) == [vmetas[n] EXCEPT !.func = TRUE, !.arg1 = t, !.arg2 = IF v.t = "scalar" THEN v.val ELSE v.off,
                                       !.argvary = @ \/ (vmetas[n].func /\ v.t = "stack" /\ vmetas[n].arg2 # v.off)]
Marked(n, v) == [vmetas[n] EXCEPT !.argvary = @ \/ (vmetas[n].func /\ vmetas[n].arg2 # v.off)]

\* The words a bpf_map_update_elem() may make other than zero, in order; the
\* marks of the words before the refusing one stay.
UpdateStops(v) == {w \in v.nz : vuse[w].type = "atomic"}
nfp_bpf_map_update_value_ok(v) == UpdateStops(v) = {}
UpdateMarks(v) == [w \in DOMAIN vuse |->
                     [vuse[w] EXCEPT !.nz = @ \/ (w \in v.nz /\ \A s \in UpdateStops(v) : w < s)]]
nfp_bpf_check_helper_call(n, v) ==
    LET op == Sites[n].op IN
    CASE op = "head" -> [Same(n) EXCEPT !.adj = nfp_record_adjust_head(n, v), !.meta = Recorded(n, v, "ctx")]
      [] op \in {"key", "update"} ->
            CASE ~nfp_bpf_stack_arg_ok(v) -> Refuse(n)
              [] nfp_bpf_stack_arg_ok(v) /\ op = "update" /\ ~nfp_bpf_map_update_value_ok(v) ->
                    [Refuse(n) EXCEPT !.use = UpdateMarks(v), !.meta = Marked(n, v)]
              [] OTHER -> [Same(n) EXCEPT !.use = IF op = "update" THEN UpdateMarks(v) ELSE @,
                                          !.meta = Recorded(n, v, "map")]
      [] op = "perf" ->
            IF \/ v.t \notin {"scalar", "stack", "map", "packet"}
               \/ v.t = "stack" /\ ~nfp_bpf_stack_arg_ok(v)
               \/ vmetas[n].func /\ vmetas[n].arg1 # v.t
            THEN Refuse(n)
            ELSE [Same(n) EXCEPT !.meta = [@ EXCEPT !.func = TRUE, !.arg1 = v.t]]

\* TC_ACT_SHOT, _STOLEN and _QUEUED are 2, 4 and 5, TC_ACT_REDIRECT is 7.
nfp_bpf_check_exit(n, v) ==
    [Same(n) EXCEPT !.ok = vprog.xdp \/ (v.t = "scalar" /\ v.const /\ (v.val > 7 \/ v.val \in {2, 4, 5}))]

\* Stack accesses of one instruction must agree in their place within a word.
nfp_bpf_check_stack_access(n, v) ==
    LET m == vmetas[n]
        vary == m.vary \/ (m.t # "none" /\ m.off # v.off)
        seen == [m EXCEPT !.caller = @ \/ v.frame # 0]
    IN  IF ~v.const THEN [Refuse(n) EXCEPT !.meta = seen]
        ELSE [Same(n) EXCEPT !.ok = m.t = "none" \/ ~vary \/ m.off % 4 = v.off % 4,
                             !.meta = [seen EXCEPT !.vary = vary]]

\* nfp_bpf_map_mark_used(): the words of an access, in order.
WordsOf(n, v) == LET from == v.off + Sites[n].off IN {b \div 4 : b \in from .. from + Sites[n].size - 1}
ConflictsTypes(w, use) == vuse[w].type \notin {"unused", use}
Conflicts(w, use) == \/ vuse[w].type \notin {"unused", use}
                     \/ vuse[w].nz /\ use = "atomic"
nfp_bpf_map_mark_used_one(w, use) == Conflicts(w, use)
nfp_bpf_map_mark_used(n, v, use) ==
    LET words == WordsOf(n, v)
        stops == {w \in words : nfp_bpf_map_mark_used_one(w, use)}
        marks == {w \in words : \A s \in stops : w < s}
    IN  IF ~v.const \/ v.off + Sites[n].off + Sites[n].size > 4 * NWords THEN Refuse(n)
        ELSE [Same(n) EXCEPT !.ok = stops = {},
                             !.use = [w \in DOMAIN vuse |-> IF w \in marks THEN [vuse[w] EXCEPT !.type = use] ELSE vuse[w]]]
nfp_bpf_check_ptr(n, v) ==
    LET op == Sites[n].op
        r == CASE v.t = "stack" -> nfp_bpf_check_stack_access(n, v)
               [] v.t = "map" /\ op = "ld" -> nfp_bpf_map_mark_used(n, v, "read")
               [] v.t = "map" /\ op = "st" -> Refuse(n)
               [] v.t = "map" /\ op = "xadd" -> nfp_bpf_map_mark_used(n, v, "atomic")
               [] v.t \in {"ctx", "packet"} -> Same(n)
               [] OTHER -> Refuse(n)
        changed == vmetas[n].t \notin {"none", v.t}
    IN  CASE ~r.ok -> r
          [] r.ok /\ changed -> [r EXCEPT !.ok = FALSE]
          [] OTHER -> [r EXCEPT !.meta = [@ EXCEPT !.t = v.t, !.off = v.off]]
\* The context may be written only to choose a queue of an XDP program.
nfp_bpf_check_store(n, v) ==
    IF v.t = "ctx" /\ ~(vprog.xdp /\ Sites[n].off = 0) THEN Refuse(n) ELSE nfp_bpf_check_ptr(n, v)
\* val and mask: the bits that are known to be set, and those not known.
nfp_bpf_check_atomic(n, v) ==
    LET r == nfp_bpf_check_ptr(n, v)
    IN  IF v.t # "map" THEN Refuse(n)
        ELSE [r EXCEPT !.meta = [@ EXCEPT !.over = @ \/ v.val > U16Max \/ v.mask > U16Max,
                                          !.maybe = @ \/ v.val <= U16Max]]
nfp_bpf_check_alu(n, v) ==
    LET m == [vmetas[n] EXCEPT !.umin = Less(@, v.min), !.umax = More(@, v.max),
                               !.smin = Less(@, v.smin), !.smax = More(@, v.smax)]
        op == Sites[n].op
        k == Sites[n].k
    IN  [Same(n) EXCEPT !.meta = m,
                        !.ok = op \in {"mul", "div"} =>
                                 /\ m.umax <= U32Max
                                 /\ ~k => m.smax <= U32Max
                                 /\ op = "div" /\ ~k => m.smin = m.smax]

Checked(n, v) ==
    LET op == Sites[n].op IN
    CASE op \in {"head", "key", "update", "perf"} -> nfp_bpf_check_helper_call(n, v)
      [] op = "exit" -> nfp_bpf_check_exit(n, v)
      [] op = "ld" -> nfp_bpf_check_ptr(n, v)
      [] op = "st" -> nfp_bpf_check_store(n, v)
      [] op = "xadd" -> nfp_bpf_check_atomic(n, v)
      [] op \in {"alu", "mul", "div"} -> nfp_bpf_check_alu(n, v)
nfp_verify_insn(n, v) ==
    LET r == Checked(n, v) IN
    /\ vmetas' = [vmetas EXCEPT ![n] = r.meta]
    /\ vprog' = [vprog EXCEPT !.adj = r.adj, !.at = nfp_bpf_goto_meta(vprog.at, n - 1)]
    /\ vuse' = r.use
    /\ vhist' = Append(vhist, [n |-> n, v |-> v, ok |-> r.ok])
    /\ vpc' = IF r.ok THEN "verify" ELSE "refused"
VerifierNext ==
    /\ vpc = "verify" /\ Len(vhist) < VisitMax
    /\ \E n \in vprog.group : \E v \in VisitsOf[Sites[n].op] : nfp_verify_insn(n, v)

-----------------------------------------------------------------------------
\* What the translator relies on, against all the visits there were.
Seen(n) == {vhist[x].v : x \in {y \in 1 .. Len(vhist) : vhist[y].n = n}}
AtSites(ops) == {n \in 1 .. NInsn : Sites[n].op \in ops}
HeadVisits == {x \in 1 .. Len(vhist) : Sites[vhist[x].n].op = "head"}

\* A head adjustment without checks is the only one, always by one small step.
HeadSound ==
    vprog.adj \notin {Unset, Several} =>
        \E d \in -HeadSub .. HeadAdd : d <= HeadMax
            /\ \A x \in HeadVisits : vhist[x].n = vprog.adj /\ vhist[x].v.const /\ vhist[x].v.val = d
\* A fixed stack offset is the offset of every visit, a varying one agrees with
\* all in its place within a word; the pointer has one type.
PointersSound ==
    \A n \in AtSites({"ld", "st", "xadd"}) : \A v \in Seen(n) :
        /\ v.t = vmetas[n].t
        /\ v.t = "stack" => /\ v.off % 4 = vmetas[n].off % 4
                            /\ ~vmetas[n].vary => v.off = vmetas[n].off
                            /\ v.frame # 0 => vmetas[n].caller
        /\ Sites[n].op = "xadd" => /\ ~vmetas[n].over => v.val + v.mask <= U16Max
                                   /\ ~vmetas[n].maybe => v.val > U16Max
ArgumentsSound ==
    /\ \A n \in AtSites({"key", "update"}) : \A v \in Seen(n) : vmetas[n].argvary \/ v.off = vmetas[n].arg2
    /\ \A n \in AtSites({"perf"}) : \A v \in Seen(n) : v.t = vmetas[n].arg1
\* Operands that were found in range were in range on every visit.
OperandsSound ==
    \A n \in AtSites({"alu", "mul", "div"}) : \A v \in Seen(n) :
        /\ v.min >= vmetas[n].umin /\ v.max <= vmetas[n].umax
        /\ v.smin >= vmetas[n].smin /\ v.smax <= vmetas[n].smax
        /\ Sites[n].op \in {"mul", "div"} => v.max <= U32Max
        /\ Sites[n].op = "div" /\ ~Sites[n].k => \A w \in Seen(n) : v.smin = w.smax
\* No word of a map value is a counter the processor adds to and also written
\* with what may not be zero; every use is on record.
WordsSound ==
    /\ \A w \in DOMAIN vuse : ~(vuse[w].type = "atomic" /\ vuse[w].nz)
    /\ \A n \in AtSites({"ld", "xadd"}) : \A v \in Seen(n) :
        v.t = "map" => \A w \in WordsOf(n, v) : vuse[w].type = IF Sites[n].op = "ld" THEN "read" ELSE "atomic"
    /\ \A n \in AtSites({"update"}) : \A v \in Seen(n) : \A w \in v.nz : vuse[w].nz

\* While a program is not refused, what was remembered of it holds on every
\* visit so far, and each visit found its own instruction.
VerifierSound ==
    /\ vpc = "verify" => HeadSound /\ PointersSound /\ ArgumentsSound /\ OperandsSound /\ WordsSound
    /\ vhist # <<>> => vprog.at = vhist[Len(vhist)].n - 1
    /\ \A w \in DOMAIN vuse : ~(vuse[w].type = "atomic" /\ vuse[w].nz)

-----------------------------------------------------------------------------
(***************************************************************************)
(* How the driver follows the kernel when it rewrites a verified program   *)
(* (bpf/verifier.c, nfp_bpf_opt_replace_insn() and _remove_insns()): the   *)
(* kernel hard-wires jumps that go one way only, then cuts out dead code   *)
(* and jumps to the next instruction.  The driver keeps its list of all    *)
(* instructions and marks what is gone.                                    *)
(***************************************************************************)
CONSTANTS
    RwInsns,        \* the number of instructions
    RwJumps         \* conditional jumps: instruction |-> destination

VARIABLES
    rlist,      \* the kernel's program: the original numbers, in order
    rwired,     \* jump |-> where the kernel says it always goes, or Free
    rgone,      \* the instructions with FLAG_INSN_SKIP_VERIFIER_OPT
    rdst,       \* jump |-> meta->jmp_dst
    rpc         \* "wire", "cut" or "refused"
rwVars == <<rlist, rwired, rgone, rdst, rpc>>

Free == 0
RwInit ==
    /\ rlist = [n \in 1 .. RwInsns |-> n]
    /\ rwired = [j \in DOMAIN RwJumps |-> Free]
    /\ rgone = {} /\ rdst = RwJumps /\ rpc = "wire"

\* The kernel replaces jump j by a jump to the instruction it always goes to.
nfp_bpf_opt_replace_insn(j) ==
    /\ rpc = "wire" /\ rwired[j] = Free
    /\ \E to \in {j + 1, RwJumps[j]} :
        /\ rwired' = [rwired EXCEPT ![j] = to]
        /\ rdst' = IF to = j + 1 THEN [rdst EXCEPT ![j] = j + 1] ELSE rdst
        /\ rpc' = IF to # j + 1 /\ rdst[j] # to THEN "refused" ELSE "wire"
    /\ UNCHANGED <<rlist, rgone>>
RwCut == rpc = "wire" /\ rpc' = "cut" /\ UNCHANGED <<rlist, rwired, rgone, rdst>>

\* The cnt instructions from place off of the kernel's program are cut out;
\* those marked before do not count.
Unmarked(from) == SelectSeq([x \in 1 .. RwInsns - from + 1 |-> from + x - 1], LAMBDA n : n \notin rgone)
CountsUnmarked(from, cnt) == {Unmarked(from)[x] : x \in 1 .. cnt}
nfp_bpf_opt_remove_insns(off, cnt) ==
    /\ rpc = "cut" /\ off + cnt <= Len(rlist)
    /\ rgone' = rgone \cup CountsUnmarked(rlist[off], cnt)
    /\ rlist' = SubSeq(rlist, 1, off - 1) \o SubSeq(rlist, off + cnt, Len(rlist))
    /\ UNCHANGED <<rwired, rdst, rpc>>
RwNext ==
    \/ \E j \in DOMAIN RwJumps : nfp_bpf_opt_replace_insn(j)
    \/ RwCut
    \/ \E off, cnt \in 1 .. RwInsns : nfp_bpf_opt_remove_insns(off, cnt)

\* The driver skips exactly what the kernel cut out, and a jump it still
\* translates can reach no place but those the kernel allows.
RewriteSound ==
    /\ rpc # "refused"
    /\ rgone = {n \in 1 .. RwInsns : \A x \in 1 .. Len(rlist) : rlist[x] # n}
    /\ \A j \in DOMAIN RwJumps : rdst[j] \in {RwJumps[j], j + 1} /\ (rwired[j] = j + 1 => rdst[j] = j + 1)
=============================================================================

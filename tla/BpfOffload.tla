------------------------------ MODULE BpfOffload ------------------------------
(***************************************************************************)
(* Offloaded maps and programs.                                            *)
(*                                                                         *)
(* An offloaded map (bpf/cmsg.c, the map operations of bpf/offload.c).     *)
(* The map lives in the firmware.  User space reads and writes it through  *)
(* control messages; the driver keeps the last reply that carried several  *)
(* entries as a cache.  A word that a program counts in atomically is big  *)
(* endian in the firmware, every other word is not.                        *)
(*                                                                         *)
(* Callers run concurrently, and so do the verifier, which decides how a   *)
(* word is used, and the programs, which change the map.  A value is one   *)
(* word; swapping the bytes of v gives -v, and 0 is its own swap.          *)
(***************************************************************************)
EXTENDS Integers, Sequences, SequencesExt, FiniteSets, FiniteSetsExt

CONSTANTS
    MapCallers,
    MapKeys,        \* a set of numbers: the firmware's order of the entries
    CacheCnt,       \* bpf->cmsg_cache_cnt
    GenMod,         \* 2^32, the range of cache_gen
    MapPlays        \* bounds: a play is [ops, keys, vals |-> what is called with what,
                    \* calls, writes |-> how many calls and changes by programs, late |->
                    \* whether the channel gives up on requests that are executed, type |->
                    \* the use of the word at the start, full |-> whether the map holds 0s]

VARIABLES
    fwmap,      \* [hw |-> the entries in the firmware, meant |-> the values their writers meant]
    nmap,       \* struct nfp_bpf_map: [cache, blockers, gen, type, nz]
    mcalls,     \* the calls in progress
    mlate,      \* requests given up on that the firmware may still execute
    mhist       \* [play, calls, writes |-> their numbers, raced |-> the word changed use between two steps of an update]
mapVars == <<fwmap, nmap, mcalls, mlate, mhist>>

NoEntry == 99
NoCache == [have |-> FALSE, ents |-> <<>>, dirty |-> FALSE]
ByteSwapped(v) == -v
Neutral(v) == v = ByteSwapped(v)
IdleCall == [pc |-> "idle", op |-> "none", key |-> 0, user |-> 0, val |-> 0, n |-> 0, gen |-> 0,
             reply |-> NoCache, err |-> FALSE, res |-> 0, seen |-> {}, stale |-> FALSE]
MapOps == {"update", "delete", "lookup", "getfirst", "getnext"}

MapsInit == \E p \in MapPlays :
    /\ fwmap = LET m == [k \in MapKeys |-> IF p.full /\ k \in p.keys THEN 0 ELSE NoEntry] IN [hw |-> m, meant |-> m]
    /\ nmap = [cache |-> NoCache, blockers |-> 0, gen |-> 0, type |-> p.type, nz |-> FALSE]
    /\ mcalls = [t \in MapCallers |-> IdleCall]
    /\ mlate = {}
    /\ mhist = [play |-> p, calls |-> 0, writes |-> 0, raced |-> FALSE]

----------------------------------------------------------------------------
\* The firmware: the entries behind a key, in its order.
Present(hw) == {k \in MapKeys : hw[k] # NoEntry}
After(hw, k) == SetToSortSeq({j \in Present(hw) : j > k}, <)
Below == CHOOSE n \in -1 .. 99 : \A k \in MapKeys : n < k
Entries(hw, k, n) == LET s == After(hw, k) IN [i \in 1 .. (IF Len(s) < n THEN Len(s) ELSE n) |-> <<s[i], hw[s[i]]>>]
\* What a call would answer now: a value as its writer meant it, or a key.
Truth(c, m) ==
    CASE c.op = "lookup" -> m.meant[c.key]
      [] c.op = "getfirst" -> IF Present(m.hw) = {} THEN NoEntry ELSE After(m.hw, Below)[1]
      [] c.op = "getnext" -> IF After(m.hw, c.key) = <<>> THEN NoEntry ELSE After(m.hw, c.key)[1]
      [] OTHER -> 0
MapWritten(m, c) == [hw |-> [m.hw EXCEPT ![c.key] = c.val], meant |-> [m.meant EXCEPT ![c.key] = c.user]]
Erased(m, k) == [hw |-> [m.hw EXCEPT ![k] = NoEntry], meant |-> [m.meant EXCEPT ![k] = NoEntry]]
Executed(m, c) == CASE c.op = "update" -> MapWritten(m, c)
                    [] c.op = "delete" -> Erased(m, c.key)
                    [] OTHER -> m
\* The calls in progress note what they would have been answered.
Noting(cs, m) == [t \in MapCallers |-> IF cs[t].pc \in {"idle", "done"} THEN cs[t]
                                       ELSE [cs[t] EXCEPT !.seen = @ \cup {Truth(cs[t], m)}]]
Dirtied(cs) == [t \in MapCallers |-> [cs[t] EXCEPT !.reply.dirty = cs[t].reply.have]]

----------------------------------------------------------------------------
\* The cache.
nfp_bpf_ctrl_op_cache_invalidate(op) == op \in {"update", "delete"}
nfp_bpf_ctrl_op_cache_capable(op) == op \in {"lookup", "getnext"}
nfp_bpf_ctrl_op_cache_fill(op) == op \in {"getfirst", "getnext"}

CachedAt(c) == {i \in DOMAIN nmap.cache.ents : nmap.cache.ents[i][1] = c.key}
Hit(c) == /\ nmap.cache.have /\ CachedAt(c) # {}
          /\ c.op = "getnext" => \A i \in CachedAt(c) : i < Len(nmap.cache.ents)
FromCache(c) == LET i == CHOOSE i \in CachedAt(c) : TRUE
                IN  IF c.op = "lookup" THEN nmap.cache.ents[i][2] ELSE nmap.cache.ents[i + 1][1]
EntriesAsked(op) == IF nfp_bpf_ctrl_op_cache_fill(op) /\ nmap.blockers = 0 THEN CacheCnt ELSE 1

\* nfp_bpf_ctrl_op_cache_get(): answered from the cache, or the number of
\* entries to ask the firmware for.
CacheGet(t) ==
    LET c == mcalls[t]
        asks == [c EXCEPT !.pc = "send", !.n = EntriesAsked(c.op), !.gen = nmap.gen]
    IN  /\ c.pc = "get"
        /\ \/ /\ nfp_bpf_ctrl_op_cache_invalidate(c.op)
              /\ nmap' = [nmap EXCEPT !.blockers = @ + 1, !.cache = NoCache]
              /\ mcalls' = [mcalls EXCEPT ![t] = asks]
           \/ /\ nfp_bpf_ctrl_op_cache_capable(c.op) /\ nmap.cache.have   \* cache_to has passed
              /\ nmap' = [nmap EXCEPT !.cache = NoCache]
              /\ mcalls' = [mcalls EXCEPT ![t] = asks]
           \/ /\ nfp_bpf_ctrl_op_cache_capable(c.op) /\ Hit(c)
              /\ mcalls' = [mcalls EXCEPT ![t] = [c EXCEPT !.pc = "read", !.res = FromCache(c), !.stale = nmap.cache.dirty]]
              /\ UNCHANGED nmap
           \/ /\ ~nfp_bpf_ctrl_op_cache_invalidate(c.op)
              /\ ~(nfp_bpf_ctrl_op_cache_capable(c.op) /\ Hit(c))
              /\ mcalls' = [mcalls EXCEPT ![t] = asks]
              /\ UNCHANGED nmap
        /\ UNCHANGED <<fwmap, mlate, mhist>>

\* nfp_bpf_ctrl_op_cache_put() with a reply, or with none.
GenIgnored(c, gen) == TRUE
GenSame(c, gen) == c.gen = gen
PutBack(c, reply) ==
    LET blocker == nfp_bpf_ctrl_op_cache_invalidate(c.op)
        left == IF blocker THEN nmap.blockers - 1 ELSE nmap.blockers
        gen == IF blocker THEN (nmap.gen + 1) % GenMod ELSE nmap.gen
        fills == nfp_bpf_ctrl_op_cache_fill(c.op) /\ left = 0 /\ GenSame(c, gen)
    IN  [nmap EXCEPT !.blockers = left, !.gen = gen, !.cache = IF fills THEN reply ELSE @]

----------------------------------------------------------------------------
\* nfp_bpf_map_{lookup,update,delete}_elem(), nfp_bpf_map_get_next_key().
MapCall(t) ==
    /\ mcalls[t].pc \in {"idle", "done"} /\ mhist.calls < mhist.play.calls
    /\ \E op \in mhist.play.ops, k \in mhist.play.keys, v \in mhist.play.vals \cup {0} :
          /\ IF op = "update" THEN v \in mhist.play.vals ELSE v = 0
          /\ op = "getfirst" => \A j \in mhist.play.keys : k <= j
          /\ LET c == [IdleCall EXCEPT !.pc = IF op = "update" THEN "swap" ELSE "get",
                                       !.op = op, !.key = k, !.user = v, !.val = v]
             IN  mcalls' = [mcalls EXCEPT ![t] = [c EXCEPT !.seen = {Truth(c, fwmap)}]]
    /\ mhist' = [mhist EXCEPT !.calls = @ + 1]
    /\ UNCHANGED <<fwmap, nmap, mlate>>
nfp_map_bpf_byte_swap(v) == IF nmap.type = "atomic" THEN ByteSwapped(v) ELSE v
SwapValue(t) ==
    /\ mcalls[t].pc = "swap"
    /\ mcalls' = [mcalls EXCEPT ![t].val = nfp_map_bpf_byte_swap(@), ![t].pc = "record"]
    /\ UNCHANGED <<fwmap, nmap, mlate, mhist>>
\* nfp_map_bpf_byte_swap_record()
RecordValue(t) ==
    /\ mcalls[t].pc = "record"
    /\ nmap' = [nmap EXCEPT !.nz = @ \/ (nmap.type = "unused" /\ ~Neutral(mcalls[t].val))]
    /\ mcalls' = [mcalls EXCEPT ![t].pc = "get"]
    /\ UNCHANGED <<fwmap, mlate, mhist>>

\* nfp_bpf_ctrl_entry_op() behind the cache.  The firmware executes the
\* request and answers; the answer may be an error, too short or of the
\* wrong length.
Answered(t) ==
    LET c == mcalls[t]
        m == Executed(fwmap, c)
        ents == CASE c.op = "lookup" -> IF fwmap.hw[c.key] = NoEntry THEN <<>> ELSE <<<<c.key, fwmap.hw[c.key]>>>>
                  [] c.op = "getfirst" -> Entries(fwmap.hw, Below, c.n)
                  [] c.op = "getnext" -> Entries(fwmap.hw, c.key, c.n)
                  [] OTHER -> <<>>
    IN  /\ c.pc = "send"
        /\ fwmap' = m
        /\ \E bad \in BOOLEAN :
              mcalls' = [Noting(mcalls, m) EXCEPT ![t].pc = "put",
                             ![t].reply = [have |-> TRUE, ents |-> ents, dirty |-> FALSE],
                             ![t].err = bad \/ (c.op \notin {"update", "delete"} /\ ents = <<>>)]
        /\ UNCHANGED <<nmap, mlate, mhist>>
\* The message cannot be allocated, the firmware refuses it, or the channel
\* gives up on it, and then the firmware may still execute it.
SendFails(t) ==
    /\ mcalls[t].pc = "send"
    /\ mcalls' = [mcalls EXCEPT ![t].pc = "put", ![t].err = TRUE]
    /\ mlate' \in {mlate, IF mhist.play.late /\ mcalls[t].op \in {"update", "delete"}
                          THEN mlate \cup {[op |-> mcalls[t].op, key |-> mcalls[t].key, val |-> mcalls[t].val, user |-> mcalls[t].user]}
                          ELSE mlate}
    /\ UNCHANGED <<fwmap, nmap, mhist>>
MapPut(t) ==
    LET c == mcalls[t]
        res == CASE c.err -> 0
                 [] c.op = "lookup" -> c.reply.ents[1][2]
                 [] c.op \in {"getfirst", "getnext"} -> c.reply.ents[1][1]
                 [] OTHER -> 0
    IN  /\ c.pc = "put"
        /\ nmap' = PutBack(c, IF c.err THEN NoCache ELSE c.reply)
        /\ mcalls' = [mcalls EXCEPT ![t] = IF c.err THEN IdleCall ELSE [c EXCEPT !.pc = "read", !.res = res, !.reply = NoCache]]
        /\ UNCHANGED <<fwmap, mlate, mhist>>
\* A value read is swapped back.
MapReturn(t) ==
    /\ mcalls[t].pc = "read"
    /\ mcalls' = [mcalls EXCEPT ![t].pc = "done", ![t].res = IF mcalls[t].op = "lookup" THEN nfp_map_bpf_byte_swap(@) ELSE @]
    /\ UNCHANGED <<fwmap, nmap, mlate, mhist>>

----------------------------------------------------------------------------
\* The others: a late request, a program, the verifier.
ChangedBehind(m) ==
    /\ fwmap' = m
    /\ mcalls' = Dirtied(Noting(mcalls, m))
    /\ nmap' = [nmap EXCEPT !.cache.dirty = nmap.cache.have]
LateRequest == \E r \in mlate :
    /\ ChangedBehind(Executed(fwmap, r))
    /\ mlate' = mlate \ {r}
    /\ UNCHANGED mhist
\* A program counts, stores a value the verifier has seen, or erases.
ProgramWrites == \E k \in mhist.play.keys, v \in mhist.play.vals \cup {NoEntry} :
    /\ mhist.writes < mhist.play.writes
    /\ v \notin {0, NoEntry} => nmap.type # "unused" \/ nmap.nz
    /\ ChangedBehind(IF v = NoEntry THEN Erased(fwmap, k)
                     ELSE MapWritten(fwmap, [key |-> k, user |-> v, val |-> nfp_map_bpf_byte_swap(v)]))
    /\ mhist' = [mhist EXCEPT !.writes = @ + 1]
    /\ UNCHANGED mlate
\* nfp_bpf_map_mark_used_one()
VerifierMarks == \E use \in {"read", "atomic"} :
    /\ nmap.type = "unused" /\ ~(nmap.nz /\ use = "atomic")
    /\ nmap' = [nmap EXCEPT !.type = use]
    /\ mhist' = [mhist EXCEPT !.raced = @ \/ (use = "atomic" /\ \E t \in MapCallers :
                                                  mcalls[t].pc = "record" /\ ~Neutral(mcalls[t].val))]
    /\ UNCHANGED <<fwmap, mcalls, mlate>>
\* nfp_bpf_map_update_value_ok(): a program stores what may not be 0.
VerifierStores ==
    /\ nmap.type = "unused" /\ ~nmap.nz
    /\ nmap' = [nmap EXCEPT !.nz = TRUE]
    /\ UNCHANGED <<fwmap, mcalls, mlate, mhist>>

MapsNext ==
    \/ \E t \in MapCallers : MapCall(t) \/ SwapValue(t) \/ RecordValue(t) \/ CacheGet(t)
                             \/ Answered(t) \/ SendFails(t) \/ MapPut(t) \/ MapReturn(t)
    \/ LateRequest \/ ProgramWrites \/ VerifierMarks \/ VerifierStores

----------------------------------------------------------------------------
\* The cache holds a run of the entries the firmware has now, until someone
\* changes the map behind the driver's back; it is empty while an update or
\* a deletion is on its way.
CacheFresh ==
    LET s == nmap.cache.ents
    IN  /\ nmap.blockers = Cardinality({t \in MapCallers : mcalls[t].pc \in {"send", "put"} /\ mcalls[t].op \in {"update", "delete"}})
        /\ nmap.blockers > 0 => ~nmap.cache.have
        /\ nmap.cache.have /\ ~nmap.cache.dirty => s # <<>> /\ s = Entries(fwmap.hw, s[1][1] - 1, Len(s))
\* A call that succeeds answers what was true at some moment since it began,
\* unless the answer was cached before someone changed the map behind the
\* driver's back.
AnswersTrue == \A t \in MapCallers :
    mcalls[t].pc = "done" /\ ~mcalls[t].stale /\ ~mhist.raced => mcalls[t].res \in mcalls[t].seen
\* Every value is in the firmware in the byte order its word is used in.
OrderKept == ~mhist.raced => \A k \in Present(fwmap.hw) : fwmap.hw[k] = nfp_map_bpf_byte_swap(fwmap.meant[k])
\* The cache of an offloaded map and the byte order of its words never give a
\* reader something the map did not hold (bpf/cmsg.c nfp_bpf_ctrl_op_cache_*,
\* bpf/offload.c nfp_map_bpf_byte_swap*).
MapsSound == CacheFresh /\ AnswersTrue /\ OrderKept

-----------------------------------------------------------------------------
(***************************************************************************)
(* Offloaded programs and maps as objects (bpf/offload.c, bpf/main.c): the *)
(* records of the maps that events of a program are delivered to, the      *)
(* loading of a program into a vNIC for TC or for XDP, and the numbers of  *)
(* maps and elements in use.                                               *)
(*                                                                         *)
(* What the kernel's core does is external.  It translates programs one    *)
(* beside another and destroys a program alone, when no filter and no      *)
(* driver holds it.  Events come from the firmware at any time.  All that  *)
(* is done to a vNIC is done under the RTNL lock, a step for each call.    *)
(***************************************************************************)

CONSTANTS
    Progs,          \* program |-> [type, maps |-> sequence of neutral maps, reach |-> max_pkt_offset, fits]
    Readers,        \* contexts that deliver events
    OffMaps,        \* offloaded map |-> max_entries
    MaxMaps, MaxElems,  \* bpf->maps.max_maps and max_elems
    FwMtu, Mtus,    \* NFP_NET_CFG_BPF_INL_MTU in bytes, the MTUs to choose from
    RecordMax, CallMax, \* bounds on the records made and on the calls to the vNIC
    ProgPlays       \* bound: a behaviour is of one of "records", "vnic" (every
                    \* program translated, without records) and "maps"

VARIABLES
    pstate,     \* program |-> [st, at |-> next map to record, found, recs |-> nfp_prog->map_records]
    precs,      \* the records made: [map, count, listed, freed]
    preaders,   \* reader |-> the record it delivers to, 0 if none
    pforget,    \* the nfp_map_ptrs_forget() in progress: [prog, recs, readers]
    pvnic,      \* the vNIC: [ctrl, tc, xdp, mtu] of the driver, [relo |-> NFP_NET_BPF_CAP_RELO, fw, run]
                \* of the firmware, [doubt, kept] see below
    pfilters,   \* the TC filters' programs
    pplay,
    pmaps       \* [live |-> offloaded maps, tables |-> the firmware's, num, elems |-> maps_in_use, map_elems_in_use]
progVars == <<pstate, precs, preaders, pforget, pvnic, pfilters, pplay, pmaps>>

NoProg == "none"
NoForget == [prog |-> NoProg, recs |-> {}, readers |-> {}]
Fresh == [st |-> "new", at |-> 1, found |-> 0, recs |-> {}]

ProgsInit ==
    /\ pplay \in ProgPlays
    /\ pstate = [p \in DOMAIN Progs |-> [Fresh EXCEPT !.st = IF pplay = "vnic" THEN "ready" ELSE "new"]]
    /\ precs = <<>>
    /\ preaders = [r \in Readers |-> 0]
    /\ pforget = NoForget
    /\ \E relo \in IF pplay = "vnic" THEN BOOLEAN ELSE {TRUE} : pvnic = [relo |-> relo, ctrl |-> FALSE, tc |-> NoProg, xdp |-> NoProg, mtu |-> CHOOSE m \in Mtus : \A n \in Mtus : m <= n,
                fw |-> NoProg, run |-> FALSE, doubt |-> {}, kept |-> FALSE, calls |-> 0]
    /\ pfilters = {}
    /\ pmaps = [live |-> {}, tables |-> {}, num |-> 0, elems |-> 0]

----------------------------------------------------------------------------
\* nfp_map_ptr_record(), in the order of nfp_map_ptrs_record(): a listed
\* record of the map is found, and counted in the next step, or a new one is
\* made and listed, unless another was listed meanwhile.
Listed(m) == {i \in DOMAIN precs : precs[i].listed /\ precs[i].map = m}
NextMap(p) == Progs[p].maps[pstate[p].at]
Took(p, i) == [pstate EXCEPT ![p].recs = @ \cup {i}, ![p].at = @ + 1, ![p].found = 0, ![p].st = "translate"]
StartTranslate(p) ==
    /\ pstate[p].st = "new" /\ pforget.prog = NoProg
    /\ pstate' = [pstate EXCEPT ![p].st = "translate"]
    /\ UNCHANGED <<pplay, precs, preaders, pforget, pvnic, pfilters, pmaps>>
LookupRecord(p) ==
    /\ pstate[p].st = "translate" /\ pstate[p].at <= Len(Progs[p].maps)
    /\ \/ \E i \in Listed(NextMap(p)) : pstate' = [pstate EXCEPT ![p].st = "found", ![p].found = i]
       \/ Listed(NextMap(p)) = {} /\ pstate' = [pstate EXCEPT ![p].st = "make"]
    /\ UNCHANGED <<pplay, precs, preaders, pforget, pvnic, pfilters, pmaps>>
\* A record whose last user let go of it since it was found is not followed.
CountRecord(p) == LET i == pstate[p].found IN
    /\ pstate[p].st = "found" /\ precs[i].count > 0
    /\ precs' = [precs EXCEPT ![i].count = @ + 1]
    /\ pstate' = Took(p, i)
    /\ UNCHANGED <<pplay, preaders, pforget, pvnic, pfilters, pmaps>>
MakeRecord(p) ==
    /\ pstate[p].st = "make"
    /\ \/ /\ Listed(NextMap(p)) = {} /\ Len(precs) < RecordMax
          /\ precs' = Append(precs, [map |-> NextMap(p), count |-> 1, listed |-> TRUE, freed |-> FALSE])
          /\ pstate' = Took(p, Len(precs) + 1)
       \/ /\ pstate' = [pstate EXCEPT ![p].st = "forget"]     \* -ENOMEM, -EEXIST
          /\ UNCHANGED precs
    /\ UNCHANGED <<pplay, preaders, pforget, pvnic, pfilters, pmaps>>
EndTranslate(p) ==
    /\ pstate[p].st = "translate" /\ pstate[p].at > Len(Progs[p].maps)
    /\ pstate' = [pstate EXCEPT ![p].st = "ready"]
    /\ UNCHANGED <<pplay, precs, preaders, pforget, pvnic, pfilters, pmaps>>

\* nfp_bpf_destroy()
Translating == {p \in DOMAIN Progs : pstate[p].st \in {"translate", "found", "make", "forget"}}
Destroy(p) ==
    /\ pstate[p].st \in {"ready", "failed"} /\ Translating = {} /\ pforget.prog = NoProg
    /\ p \notin pfilters \cup {pvnic.xdp}
    /\ pstate' = [pstate EXCEPT ![p].st = "destroy"]
    /\ UNCHANGED <<pplay, precs, preaders, pforget, pvnic, pfilters, pmaps>>

\* nfp_map_ptrs_forget(): drop the program's counts and take what no program
\* counts any more off the list; wait for the readers; free.
RecsOf(p) == pstate[p].recs
WaitsForNone == {}
WaitsFor == {r \in Readers : preaders[r] # 0}
Forget(p) ==
    LET dead == {i \in RecsOf(p) : precs[i].count = 1}
    IN  /\ pstate[p].st \in {"forget", "destroy"} /\ pforget.prog = NoProg
        /\ precs' = [i \in DOMAIN precs |-> IF i \in RecsOf(p)
                                           THEN [precs[i] EXCEPT !.count = @ - 1, !.listed = @ /\ i \notin dead]
                                           ELSE precs[i]]
        /\ pforget' = [prog |-> p, recs |-> dead, readers |-> IF dead = {} THEN {} ELSE WaitsFor]
        /\ UNCHANGED <<pplay, pstate, preaders, pvnic, pfilters, pmaps>>
FreeRecords ==
    /\ pforget.prog # NoProg /\ pforget.readers = {}
    /\ precs' = [i \in DOMAIN precs |-> IF i \in pforget.recs THEN [precs[i] EXCEPT !.freed = TRUE] ELSE precs[i]]
    /\ pstate' = [pstate EXCEPT ![pforget.prog].st = IF @ = "forget" THEN "failed" ELSE "gone",
                                ![pforget.prog].recs = {}]
    /\ pforget' = NoForget
    /\ UNCHANGED <<pplay, preaders, pvnic, pfilters, pmaps>>

\* nfp_bpf_event_output(), under rcu_read_lock().
Deliver(r) == \E i \in DOMAIN precs :
    /\ preaders[r] = 0 /\ precs[i].listed
    /\ preaders' = [preaders EXCEPT ![r] = i]
    /\ UNCHANGED <<pplay, pstate, precs, pforget, pvnic, pfilters, pmaps>>
Delivered(r) ==
    /\ preaders[r] # 0
    /\ preaders' = [preaders EXCEPT ![r] = 0]
    /\ pforget' = [pforget EXCEPT !.readers = @ \ {r}]
    /\ UNCHANGED <<pplay, pstate, precs, pvnic, pfilters, pmaps>>

----------------------------------------------------------------------------
\* The vNIC.  An operation maps it to its possible outcomes.  doubt holds the
\* reconfigurations that failed and may have been obeyed; kept: the driver
\* said that a program it took out of the vNIC is still there.
Out(v, err) == [v |-> v, err |-> err]
nfp_bpf_offload_check_mtu(p, mtu) == FwMtu < (IF Progs[p].reach < mtu THEN Progs[p].reach ELSE mtu)
nfp_net_bpf_load(v, p) ==
    IF nfp_bpf_offload_check_mtu(p, v.mtu) \/ ~Progs[p].fits THEN {Out(v, TRUE)}
    ELSE {Out(v, TRUE),                                          \* no memory
          Out([v EXCEPT !.fw = p, !.doubt = @ \ {"load"}], FALSE)}
         \cup {Out([v EXCEPT !.fw = f, !.doubt = @ \cup {"load"}], TRUE) : f \in {v.fw, p}}
nfp_net_bpf_start(v) ==
    LET on == [v EXCEPT !.ctrl = TRUE]
    IN  {Out([on EXCEPT !.run = TRUE, !.doubt = @ \ {"start", "stop"}], FALSE)}
        \cup {Out([on EXCEPT !.run = b, !.doubt = @ \cup {"start"}], FALSE) : b \in {v.run, TRUE}}
nfp_net_bpf_stop(v) ==
    LET off == [v EXCEPT !.ctrl = FALSE]
    IN  IF ~v.ctrl THEN {Out(v, FALSE)}
        ELSE {Out([off EXCEPT !.run = FALSE, !.doubt = @ \ {"start", "stop"}], FALSE)}
             \cup {Out([off EXCEPT !.run = b, !.doubt = @ \cup {"stop"}, !.kept = TRUE], TRUE) : b \in {v.run, FALSE}}
BusyElse(v, old) == ~old /\ v.ctrl
nfp_net_bpf_offload(v, p, old) ==
    CASE p # NoProg /\ old /\ ~v.relo -> {Out(v, TRUE)}
      [] ~(p # NoProg /\ old /\ ~v.relo) /\ BusyElse(v, old) -> {Out(v, TRUE)}
      [] old /\ p = NoProg -> nfp_net_bpf_stop(v)
      [] OTHER -> UNION {IF o.err \/ old THEN {o} ELSE nfp_net_bpf_start(o.v) : o \in nfp_net_bpf_load(v, p)}

nfp_bpf_setup_tc_block_cb(v, p, oldprog) ==
    LET old == v.tc = oldprog /\ oldprog # NoProg
    IN  IF v.tc # oldprog /\ p = NoProg THEN {Out(v, FALSE)}
        ELSE {IF o.err THEN o ELSE Out([o.v EXCEPT !.tc = p], FALSE) : o \in nfp_net_bpf_offload(v, p, old)}
nfp_bpf_xdp_offload(v, p) ==
    LET xdp_running == v.ctrl /\ v.xdp # NoProg
    IN  CASE p = NoProg /\ ~xdp_running -> {Out(v, FALSE)}
          [] p # NoProg /\ v.ctrl /\ ~xdp_running -> {Out(v, TRUE)}
          [] OTHER -> nfp_net_bpf_offload(v, p, v.ctrl)

\* The calls the core makes.
Settled(v) == [v EXCEPT !.kept = @ /\ (v.tc # NoProg \/ v.xdp # NoProg), !.calls = @ + 1]
Usable(p, t) == pstate[p].st = "ready" /\ Progs[p].type = t
TcAdd(p) ==
    /\ Usable(p, "tc") /\ p \notin pfilters /\ pvnic.calls < CallMax
    /\ \E o \in nfp_bpf_setup_tc_block_cb(pvnic, p, NoProg) :
          /\ pvnic' = Settled(o.v)
          /\ pfilters' \in IF o.err THEN {pfilters, pfilters \cup {p}} ELSE {pfilters \cup {p}}
    /\ UNCHANGED <<pplay, pstate, precs, preaders, pforget, pmaps>>
\* A replacement that fails is undone by a replacement the other way.
TcReplace(p, q) ==
    /\ Usable(p, "tc") /\ p \notin pfilters /\ q \in pfilters /\ pvnic.calls < CallMax
    /\ \E o \in nfp_bpf_setup_tc_block_cb(pvnic, p, q) :
          IF o.err THEN /\ \E u \in nfp_bpf_setup_tc_block_cb(o.v, q, p) : pvnic' = Settled(u.v)
                        /\ UNCHANGED pfilters
          ELSE pvnic' = Settled(o.v) /\ pfilters' = (pfilters \ {q}) \cup {p}
    /\ UNCHANGED <<pplay, pstate, precs, preaders, pforget, pmaps>>
\* The filter goes, or is kept in software only.
TcRemove(q) ==
    /\ q \in pfilters /\ pvnic.calls < CallMax
    /\ \E o \in nfp_bpf_setup_tc_block_cb(pvnic, NoProg, q) : pvnic' = Settled(o.v)
    /\ pfilters' \in {pfilters, pfilters \ {q}}
    /\ UNCHANGED <<pplay, pstate, precs, preaders, pforget, pmaps>>
\* nfp_net_xdp_setup_hw()
XdpSetup(p) ==
    /\ p # NoProg => Usable(p, "xdp")
    /\ pvnic.calls < CallMax
    /\ \E o \in nfp_bpf_xdp_offload(pvnic, p) :
          pvnic' = Settled(IF o.err THEN o.v ELSE [o.v EXCEPT !.xdp = p])
    /\ UNCHANGED <<pplay, pstate, precs, preaders, pforget, pfilters, pmaps>>
nfp_bpf_check_mtu(v, mtu) ==
    v.ctrl /\ nfp_bpf_offload_check_mtu(IF v.xdp # NoProg THEN v.xdp ELSE v.tc, mtu)
ChangeMtu(mtu) ==
    /\ mtu # pvnic.mtu /\ ~nfp_bpf_check_mtu(pvnic, mtu)
    /\ pvnic' = [pvnic EXCEPT !.mtu = mtu]
    /\ UNCHANGED <<pplay, pstate, precs, preaders, pforget, pfilters, pmaps>>
\* Any later reconfiguration of the vNIC brings the control word with it.
OtherUpdate ==
    /\ pvnic.doubt \cap {"start", "stop"} # {}
    /\ pvnic' = [pvnic EXCEPT !.run = pvnic.ctrl, !.doubt = @ \ {"start", "stop"}]
    /\ UNCHANGED <<pplay, pstate, precs, preaders, pforget, pfilters, pmaps>>

----------------------------------------------------------------------------
\* nfp_bpf_map_alloc() and nfp_bpf_map_free(); the firmware may refuse either.
MapAlloc(m) ==
    /\ m \notin pmaps.live
    /\ pmaps.num # MaxMaps /\ MaxElems - pmaps.elems >= OffMaps[m]
    /\ pmaps' = [live |-> pmaps.live \cup {m}, tables |-> pmaps.tables \cup {m},
                 num |-> pmaps.num + 1, elems |-> pmaps.elems + OffMaps[m]]
    /\ UNCHANGED <<pplay, pstate, precs, preaders, pforget, pvnic, pfilters>>
MapFree(m) ==
    /\ m \in pmaps.live
    /\ \E t \in {pmaps.tables, pmaps.tables \ {m}} :
          pmaps' = [live |-> pmaps.live \ {m}, tables |-> t, num |-> pmaps.num - 1, elems |-> pmaps.elems - OffMaps[m]]
    /\ UNCHANGED <<pplay, pstate, precs, preaders, pforget, pvnic, pfilters>>

ProgsNext ==
    \/ /\ pplay = "records"
       /\ \/ \E p \in DOMAIN Progs : StartTranslate(p) \/ LookupRecord(p) \/ CountRecord(p) \/ MakeRecord(p) \/ EndTranslate(p)
          \/ \E r \in Readers : Deliver(r) \/ Delivered(r)
    \/ /\ pplay \in {"records", "vnic"}
       /\ (\E p \in DOMAIN Progs : Destroy(p) \/ Forget(p)) \/ FreeRecords
    \/ /\ pplay = "vnic"
       /\ \/ \E p \in DOMAIN Progs : TcAdd(p) \/ TcRemove(p) \/ (\E q \in DOMAIN Progs : TcReplace(p, q))
          \/ \E p \in DOMAIN Progs \cup {NoProg} : XdpSetup(p)
          \/ (\E mtu \in Mtus : ChangeMtu(mtu)) \/ OtherUpdate
    \/ /\ pplay = "maps"
       /\ \E m \in DOMAIN OffMaps : MapAlloc(m) \/ MapFree(m)

----------------------------------------------------------------------------
\* An event is delivered to a record that is still there; a listed record is
\* counted once by every program that holds it, and is freed with the last.
RecordsSound ==
    /\ \A r \in Readers : preaders[r] # 0 => ~precs[preaders[r]].freed
    /\ \A i \in DOMAIN precs : /\ precs[i].count = Cardinality({p \in DOMAIN Progs : i \in RecsOf(p) /\ pforget.prog # p})
                               /\ precs[i].listed <=> precs[i].count > 0
                               /\ precs[i].freed => ~precs[i].listed
    /\ \A i, j \in DOMAIN precs : precs[i].listed /\ precs[j].listed /\ precs[i].map = precs[j].map => i = j
    /\ pforget.prog = NoProg => \A i \in DOMAIN precs : precs[i].freed <=> precs[i].count = 0
\* Unless a reconfiguration failed: the vNIC runs the program of its one
\* user, TC or XDP, which exists, and which reaches no further into a packet
\* than the firmware can, whatever the order of the calls.
Attached == {pvnic.tc, pvnic.xdp} \ {NoProg}
VnicSound ==
    pvnic.doubt = {} /\ ~pvnic.kept =>
        /\ pvnic.run <=> pvnic.ctrl
        /\ pvnic.run <=> Attached # {}
        /\ pvnic.run => /\ Attached = {pvnic.fw}
                        /\ pstate[pvnic.fw].st = "ready"
                        /\ ~nfp_bpf_offload_check_mtu(pvnic.fw, pvnic.mtu)
\* The driver's numbers are those of the maps it has, within the limits.
MapsCounted ==
    /\ pmaps.num = Cardinality(pmaps.live) /\ pmaps.num <= MaxMaps
    /\ pmaps.elems = MapThenSumSet(LAMBDA m : OffMaps[m], pmaps.live) /\ pmaps.elems <= MaxElems
    /\ pmaps.live \subseteq pmaps.tables
ProgramsSound == RecordsSound /\ VnicSound /\ MapsCounted

===============================================================================

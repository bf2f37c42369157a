------------------------------- MODULE DevCpp -------------------------------
(***************************************************************************)
(* The character device of a CPP bus (nfp_dev_cpp.c), on top of the areas  *)
(* of CppBus.                                                              *)
(*                                                                         *)
(* A process opens a channel, asks for areas at offsets of the file and    *)
(* maps them.  Nothing is acquired by a mapping: the first fault acquires  *)
(* the area, and takes the area of another mapping away if no BAR is left; *)
(* a later fault gets it back.  Reading and writing the file takes the     *)
(* areas of all mappings away before it waits for a BAR.                   *)
(*                                                                         *)
(* An offset of the file is a page number.  Requests are the areas         *)
(* OtherAreas of CppBus.                                                   *)
(***************************************************************************)
EXTENDS CppBus

CONSTANTS
    Channels,       \* NFP_DEV_CPP_CHANNELS
    Vmas,           \* mappings of the processes
    CdevWindows,    \* what the processes want to see
    CdevThreads,    \* threads that read and write the file
    Sizes,          \* sizes of the requests, in pages
    Pages           \* the pages of the file offsets that are asked for

VARIABLES
    chans,          \* channel_bitmap
    req,            \* [chan, off, size] of each request, <<>> when free
    reqList,        \* cdev->req.list
    areaList,       \* cdev->area.list: the areas that are acquired
    vma,            \* [req, chan, pte]: mappings; pte is the BAR mapped in
    vmaList,        \* the mappings attached to each request
    fault,          \* mappings in nfp_cpp_mmap_fault(), past area.lock
    phys,           \* priv->phys of each request: the last BAR it had
    bug,            \* a BUG_ON() has fired, with req.lock held
    removed         \* nfp_dev_cpp_remove() has been called

devvars == <<chans, req, reqList, areaList, vma, vmaList, fault, phys, bug, removed>>
Reqs == OtherAreas

Without(s, x) == SelectSeq(s, LAMBDA y : y # x)
InSeq(x, s) == \E i \in DOMAIN s : s[i] = x
Mapped(v) == vma[v].req \in Reqs
Unmapped == [req |-> "none", chan |-> NoBar, pte |-> NoBar]

ASSUME DevConstants == CdevThreads \subseteq Threads /\ Channels \subseteq Nat

-----------------------------------------------------------------------------
(***************************************************************************)
(* Opening and closing the file.  A mapping keeps the file it was made     *)
(* through open, which need not be the one its request was made through.   *)
(***************************************************************************)
nfp_dev_cpp_open ==
    /\ ~removed /\ Channels \ chans # {}
    /\ chans' = chans \cup {Min(Channels \ chans)}
    /\ UNCHANGED <<cppvars, req, reqList, areaList, vma, vmaList, fault, phys, bug, removed>>

Owned(ch) == {r \in Reqs : req[r] # <<>> /\ req[r].chan = ch}

\* nfp_dev_cpp_area_free() of the requests R.  A mapping of one of them that
\* is not attached is left with a pointer to it: what becomes of that mapping
\* is undefined, and it takes no further step here.
nfp_dev_cpp_area_free(R) ==
    /\ req' = [r \in Reqs |-> IF r \in R THEN <<>> ELSE req[r]]
    /\ reqList' = SelectSeq(reqList, LAMBDA r : r \notin R)
    /\ area' = [a \in Areas |-> IF a \in R THEN kref_put(area[a]) ELSE area[a]]
    /\ vma' = [v \in Vmas |-> IF vma[v].req \in R THEN [vma[v] EXCEPT !.req = "freed"]
                              ELSE vma[v]]

nfp_dev_cpp_release(ch) ==
    /\ ch \in chans /\ ~bug
    /\ \A v \in Vmas : vma[v].req # "none" => vma[v].chan # ch
    /\ IF \E r \in Owned(ch) : vmaList[r] # <<>>
       THEN bug' = TRUE /\ UNCHANGED <<chans, req, reqList, area, vma>>
       ELSE /\ nfp_dev_cpp_area_free(Owned(ch))
            /\ chans' = chans \ {ch} /\ UNCHANGED bug
    /\ UNCHANGED <<areaList, vmaList, fault, phys, removed>>
    /\ UNCHANGED <<bar, cache, cacheList, cacheMutex, thr, woken, remapFailed>>

\* nfp_dev_cpp_remove() waits for the last channel to be closed.
nfp_dev_cpp_remove ==
    /\ chans = {} /\ ~removed /\ removed' = TRUE
    /\ UNCHANGED <<cppvars, chans, req, reqList, areaList, vma, vmaList, fault, phys, bug>>

-----------------------------------------------------------------------------
(***************************************************************************)
(* Requests.                                                               *)
(***************************************************************************)
Collides(off, size, r) == off < req[r].off + req[r].size /\ off + size > req[r].off
nfp_dev_cpp_range_check(off, size) ==
    \A i \in DOMAIN reqList : ~Collides(off, size, reqList[i])

\* The offset that a request for "anywhere" gets: the first page, else the
\* end of the first request behind which there is room.
FirstSlot(size) ==
    IF nfp_dev_cpp_range_check(0, size) THEN {0}
    ELSE LET ends == {i \in DOMAIN reqList :
                        nfp_dev_cpp_range_check(req[reqList[i]].off + req[reqList[i]].size, size)}
         IN  IF ends = {} THEN {} ELSE {req[reqList[Min(ends)]].off + req[reqList[Min(ends)]].size}

do_cpp_area_request(ch) ==
    \E size \in Sizes, anywhere \in BOOLEAN, w \in CdevWindows :
        /\ ch \in chans /\ ~bug
        /\ \E r \in {x \in Reqs : req[x] = <<>>},
              off \in (IF anywhere THEN FirstSlot(size) ELSE Pages) :
                /\ nfp_dev_cpp_range_check(off, size) /\ AreaInitOK(w)
                /\ req' = [req EXCEPT ![r] = [chan |-> ch, off |-> off, size |-> size]]
                /\ reqList' = Append(reqList, r)
                /\ area' = [area EXCEPT ![r] = nfp_cpp_area_alloc_with_name(w)]
                /\ phys' = [phys EXCEPT ![r] = NoBar]
        /\ UNCHANGED <<chans, areaList, vma, vmaList, fault, bug, removed>>
        /\ UNCHANGED <<bar, cache, cacheList, cacheMutex, thr, woken, remapFailed>>

\* Any channel may give a request back, but not while a mapping is attached.
do_cpp_area_release(r) ==
    /\ chans # {} /\ ~bug /\ req[r] # <<>> /\ vmaList[r] = <<>>
    /\ nfp_dev_cpp_area_free({r})
    /\ UNCHANGED <<chans, areaList, vmaList, fault, phys, bug, removed>>
    /\ UNCHANGED <<bar, cache, cacheList, cacheMutex, thr, woken, remapFailed>>

-----------------------------------------------------------------------------
(***************************************************************************)
(* Mappings.                                                               *)
(***************************************************************************)
nfp_dev_cpp_mmap(v) ==
    /\ vma[v].req = "none" /\ ~bug
    /\ \E i \in DOMAIN reqList, ch \in chans :
        vma' = [vma EXCEPT ![v] = [req |-> reqList[i], chan |-> ch, pte |-> NoBar]]
    /\ UNCHANGED <<cppvars, chans, req, reqList, areaList, vmaList, fault, phys, bug, removed>>

\* A fork or a split copies a mapping: the copy starts detached.  Without
\* memory for its state it is a mapping that only ever gives SIGBUS.
nfp_cpp_mmap_open(v) ==
    /\ vma[v].req = "none"
    /\ \E u \in Vmas \ fault, memory \in BOOLEAN :
        /\ Mapped(u)
        /\ vma' = [vma EXCEPT ![v] = [vma[u] EXCEPT !.pte = NoBar,
                                      !.req = IF memory THEN @ ELSE "sigbus"]]
    /\ UNCHANGED <<cppvars, chans, req, reqList, areaList, vmaList, fault, phys, bug, removed>>

\* The BARs and areas once the areas R have been released.
Dropped(bars, R) == [n \in Bars |-> [bars[n] EXCEPT !.refcnt =
                                        @ - Cardinality({a \in R : area[a].bar = n})]]
BarsWithout(R) == Dropped(bar, R)
AreasWithout(R) == [a \in Areas |-> IF a \in R THEN nfp_cpp_area_release(a).area ELSE area[a]]
WokenBy(R) == IF R = {} THEN woken ELSE woken \cup Asleep

\* Mutant: the area is released by each of its mappings.
ReleasedByEach(v) ==
    LET R == {r \in Reqs : InSeq(v, vmaList[r])}
    IN  /\ vmaList' = [r \in Reqs |-> Without(vmaList[r], v)]
        /\ areaList' = SelectSeq(areaList, LAMBDA r : r \notin R)
        /\ bar' = BarsWithout(R) /\ area' = AreasWithout(R) /\ woken' = WokenBy(R)

\* Detaches v; an area that loses its last mapping is released.
nfp_dev_cpp_vma_release(v) ==
    LET left == [r \in Reqs |-> Without(vmaList[r], v)]
        R == {r \in Reqs : left[r] = <<>> /\ vmaList[r] # <<>>}
    IN  /\ vmaList' = left
        /\ areaList' = SelectSeq(areaList, LAMBDA r : r \notin R)
        /\ bar' = BarsWithout(R) /\ area' = AreasWithout(R) /\ woken' = WokenBy(R)

nfp_cpp_mmap_close(v) ==
    /\ Mapped(v) \/ vma[v].req = "sigbus"
    /\ v \notin fault
    /\ nfp_dev_cpp_vma_release(v)
    /\ vma' = [vma EXCEPT ![v] = Unmapped]
    /\ UNCHANGED <<chans, req, reqList, fault, phys, bug, removed>>
    /\ UNCHANGED <<cache, cacheList, cacheMutex, thr, remapFailed>>

AttachedTo(R) == {v \in Vmas : \E r \in R : InSeq(v, vmaList[r])}
Zap(V) == [v \in Vmas |-> IF v \in V THEN [vma[v] EXCEPT !.pte = NoBar] ELSE vma[v]]

\* The areas nfp_dev_cpp_vma_evict() takes away for a fault of request r: the
\* first other one.  Without a request it takes all of them.
nfp_dev_cpp_vma_evict(r) ==
    LET s == SelectSeq(areaList, LAMBDA a : vmaList[a] # <<>> /\ a # r)
    IN  IF s = <<>> THEN {} ELSE {s[1]}

\* nfp_cpp_area_acquire_nonblocking() of request r with the given BARs; a
\* failed ioremap() leaves the BAR it pointed at the request unused.
AcquireNonblocking(bars, r, remaps) ==
    LET got == nfp_alloc_bar(bars, area[r].win, area[r].width)
    IN  IF got.n >= 0 /\ ~remaps
        THEN [n |-> EINVAL, bars |-> [got.bars EXCEPT ![got.n].refcnt = @ - 1]]
        ELSE got

\* nfp_cpp_mmap_fault() up to the unlock of area.lock: an attached mapping
\* keeps its area; another mapping's area is taken away when there is no BAR
\* for the first mapping of this one.
nfp_cpp_mmap_fault(v) ==
    /\ Mapped(v) /\ v \notin fault /\ vma[v].pte = NoBar
    /\ \E ok1, ok2 \in BOOLEAN :
        LET r == vma[v].req
            attached == InSeq(v, vmaList[r])
            first == ~attached /\ vmaList[r] = <<>>
        IN  \E try \in {AcquireNonblocking(bar, r, ok1)} :
            \E R \in {IF first /\ try.n < 0 THEN nfp_dev_cpp_vma_evict(r) ELSE {}} :
            \E got \in {IF R = {} THEN try
                        ELSE AcquireNonblocking(Dropped(try.bars, R), r, ok2)} :
            LET fails == first /\ got.n < 0
                rest == SelectSeq(areaList, LAMBDA q : q \notin R)
            IN  /\ vma' = Zap(AttachedTo(R)) /\ woken' = WokenBy(R)
                /\ vmaList' = [q \in Reqs |->
                                IF q \in R THEN <<>>
                                ELSE IF q = r /\ ~attached /\ ~fails THEN Append(vmaList[q], v)
                                ELSE vmaList[q]]
                /\ areaList' = IF first /\ ~fails THEN Append(rest, r) ELSE rest
                /\ bar' = IF first THEN got.bars ELSE bar
                /\ area' = IF first /\ ~fails
                           THEN [AreasWithout(R) EXCEPT
                                    ![r] = [@ EXCEPT !.bar = got.n, !.refcount = 1,
                                                     !.pref = 1, !.kref = @ + 1]]
                           ELSE AreasWithout(R)
                /\ phys' = IF first /\ ~fails THEN [phys EXCEPT ![r] = got.n] ELSE phys
                /\ fault' = IF fails THEN fault ELSE fault \cup {v}
                /\ UNCHANGED <<chans, req, reqList, bug, removed>>
                /\ UNCHANGED <<cache, cacheList, cacheMutex, thr, remapFailed>>

\* The rest of the fault: the page gets the address of the area, which is read
\* without area.lock.
vmf_insert_pfn(v) ==
    /\ v \in fault /\ Mapped(v) /\ fault' = fault \ {v}
    /\ vma' = [vma EXCEPT ![v].pte = phys[vma[v].req]]
    /\ UNCHANGED <<cppvars, chans, req, reqList, areaList, vmaList, phys, bug, removed>>

-----------------------------------------------------------------------------
(***************************************************************************)
(* Reading and writing the file, through an area of the caller's own.      *)
(***************************************************************************)
nfp_dev_cpp_op(t) ==
    /\ thr[t].pc = "idle" /\ chans # {}
    /\ \E w \in CdevWindows :
        LET x == nfp_cpp_area_alloc_with_name(w)
            got == nfp_alloc_bar(bar, w, x.width)
            at(pc) == [thr EXCEPT ![t] = [pc |-> pc, op |-> "cdev", win |-> w, a |-> t]]
        IN  /\ AreaInitOK(w) /\ bar' = got.bars
            /\ \/ /\ got.n >= 0 /\ thr' = at("remap")
                  /\ area' = [area EXCEPT ![t] = [x EXCEPT !.refcount = 1, !.bar = got.n]]
               \/ /\ got.n = EAGAIN /\ thr' = at("evict")
                  /\ area' = [area EXCEPT ![t] = x]
    /\ UNCHANGED devvars
    /\ UNCHANGED <<cache, cacheList, cacheMutex, woken, remapFailed>>

\* There was no BAR: all mappings lose theirs, and then the caller waits.
EvictAll(t) ==
    LET R == {r \in Reqs : vmaList[r] # <<>>}
    IN  /\ thr[t].pc = "evict" /\ thr' = [thr EXCEPT ![t].pc = "try"]
        /\ vma' = Zap(AttachedTo(R)) /\ woken' = WokenBy(R)
        /\ vmaList' = [r \in Reqs |-> <<>>] /\ areaList' = <<>>
        /\ bar' = BarsWithout(R)
        /\ area' = [AreasWithout(R) EXCEPT ![t].refcount = 1]
        /\ UNCHANGED <<chans, req, reqList, fault, phys, bug, removed>>
        /\ UNCHANGED <<cache, cacheList, cacheMutex, remapFailed>>

-----------------------------------------------------------------------------
CdevInit ==
    /\ chans = {} /\ removed = FALSE /\ bug = FALSE /\ fault = {}
    /\ phys = [r \in Reqs |-> NoBar]
    /\ req = [r \in Reqs |-> <<>>] /\ reqList = <<>> /\ areaList = <<>>
    /\ vma = [v \in Vmas |-> Unmapped] /\ vmaList = [r \in Reqs |-> <<>>]

DevNext ==
    \/ nfp_dev_cpp_open \/ nfp_dev_cpp_remove
    \/ \E ch \in Channels : nfp_dev_cpp_release(ch) \/ do_cpp_area_request(ch)
    \/ \E r \in Reqs : do_cpp_area_release(r)
    \/ \E v \in Vmas : \/ nfp_dev_cpp_mmap(v) \/ nfp_cpp_mmap_open(v)
                       \/ nfp_cpp_mmap_close(v) \/ nfp_cpp_mmap_fault(v)
                       \/ vmf_insert_pfn(v)
    \/ \E t \in CdevThreads : \/ nfp_dev_cpp_op(t) \/ EvictAll(t)
                              \/ CppContinue(t) /\ UNCHANGED devvars

-----------------------------------------------------------------------------
\* An area of the device is acquired exactly as long as a mapping is attached
\* to it, and is then on the list from which it can be evicted; it is released
\* once, whoever evicts, unmaps or closes (nfp_dev_cpp_vma_acquire, _release,
\* _evict).
AttachedIsAcquired ==
    \A r \in Reqs :
        /\ (vmaList[r] # <<>>) <=> (area[r].pref = 1)
        /\ (vmaList[r] # <<>>) <=> InSeq(r, areaList)
        /\ \A v \in Vmas : InSeq(v, vmaList[r]) => vma[v].req = r

\* Two requests never share a page of the file, so an offset names one request
\* (nfp_dev_cpp_range_check, do_cpp_area_request).
RequestsApart ==
    \A i, j \in DOMAIN reqList : i # j =>
        ~Collides(req[reqList[i]].off, req[reqList[i]].size, reqList[j])

\* "We know we have an acquired area now: Get its physical offset and map it":
\* a page shows the BAR of its area, as long as it is mapped in
\* (nfp_cpp_mmap_fault, nfp_dev_cpp_vma_evict).
PageShowsArea ==
    \A v \in Vmas : Mapped(v) /\ vma[v].pte # NoBar => vma[v].pte = area[vma[v].req].bar

\* BUG_ON(!list_empty(&req->vma.list)): a file is closed only when no mapping
\* is attached to its requests (nfp_dev_cpp_release).
CloseFindsNoMapping == ~bug
=============================================================================
